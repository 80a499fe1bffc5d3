------------------------------ MODULE NestQuery ------------------------------
(***************************************************************************)
(* How a query of sets, projections and nests becomes the set of items it  *)
(* picks: Resolver::from_node (query/lens_resolver.rs) expands the syntax  *)
(* tree, resolves it to a physical one and optimizes that; query/sql/      *)
(* turns the result into SQL over OneView, which is evaluated here by what *)
(* it selects.  One action per pass.                                       *)
(*                                                                         *)
(* The tags are custom ones (StorageMapping::Basic), keys are TypeRefs,    *)
(* the aggregations are count and sum, their results are compared with     *)
(* literals and with one another.  Calculations, label groupings, dates,   *)
(* globs, definition items and the columns of files (Fixed storage) are    *)
(* left out.                                                               *)
(***************************************************************************)
EXTENDS Integers, Sequences, FiniteSets, SequencesExt, FiniteSetsExt

CONSTANTS
    Items,      \* the items of OneView
    Views,      \* the tables to ask: sets of rows [i |-> item, k |-> type, v |-> label]
    Queries,    \* the parsed queries to ask
    Numeric     \* the types whose labels are numbers: their label_str is NULL

VARIABLES
    view,       \* the rows of OneView
    query,      \* the query as parsed
    stage,      \* the passes done, or "panicked"
    ast,        \* QueryNode
    node,       \* ResolvedNode
    answer      \* the items picked

vars == <<view, query, stage, ast, node, answer>>

None == [t |-> "none"]

-----------------------------------------------------------------------------
(* The two trees.  A leaf "match" is a TypedTag (op "=") or a comparison   *)
(* of a type with a literal: both resolve to ResolvedNode::Match.  "key"   *)
(* is the nest without a left side, "agg" an aggregation, "cmp" a          *)
(* comparison chain, whose operands are literals and nodes.                *)

Match(k, op, v) == [t |-> "match", k |-> k, op |-> op, v |-> v]
And(ns) == [t |-> "and", ns |-> ns]
Or(ns) == [t |-> "or", ns |-> ns]
Diff(l, r) == [t |-> "diff", l |-> l, r |-> r]
Key(k) == [t |-> "key", k |-> k]
Nest(l, r) == [t |-> "nest", l |-> l, r |-> r]
Agg(f, q) == [t |-> "agg", f |-> f, q |-> q]
Lit(n) == [t |-> "lit", n |-> n]
Cmp(first, rest) == [t |-> "cmp", first |-> first, rest |-> rest]
Than(op, x) == [op |-> op, x |-> x]

\* ResolvedNode::Nest, NestMatch, NestMatchCondition, MergedNestMatch, LabelSetOp and
\* NestNestMatch
Group(keys, nv, ctx) == [t |-> "group", keys |-> keys, nv |-> nv, ctx |-> ctx]
Sieve(keys, c) == [t |-> "sieve", keys |-> keys, c |-> c]
Condition(nv, op, rhs, ctx) == [nv |-> nv, op |-> op, rhs |-> rhs, ctx |-> ctx]
Merged(keys, ms) == [t |-> "merged", keys |-> keys, ms |-> ms]
Versus(l, op, r) == [t |-> "versus", l |-> l, op |-> op, r |-> r]
LabelSet(op, ns) == [t |-> "labels", op |-> op, ns |-> ns]
MatchIn(k, vs) == [t |-> "matchin", k |-> k, vs |-> vs]

Map(Op(_), s) == [j \in DOMAIN s |-> Op(s[j])]

\* None, the node itself, or the conjunction of several
Conj(s) == IF s = <<>> THEN None ELSE IF Len(s) = 1 THEN s[1] ELSE And(s)

\* a filter added to one there may be already
Both(c, d) == IF c = None THEN d ELSE IF d = None THEN c ELSE And(<<c, d>>)

Holds(op, x, n) == \/ op = "=" /\ x = n
                   \/ op = ">" /\ x > n
                   \/ op = "<" /\ x < n

Flip(op) == IF op = "<" THEN ">" ELSE IF op = ">" THEN "<" ELSE op

-----------------------------------------------------------------------------
(* Logical expansion: query/logical_resolver.rs.                           *)

RECURSIVE Projects(_)
Projects(q) ==
    \/ q.t = "key"
    \/ q.t = "nest" /\ Projects(q.l)
    \/ q.t \in {"and", "or"} /\ \E j \in DOMAIN q.ns : Projects(q.ns[j])
    \/ q.t = "diff" /\ Projects(q.l)

\* get_projections is not empty
RECURSIVE NamesKey(_)
NamesKey(q) ==
    \/ q.t \in {"key", "nest"}
    \/ q.t \in {"and", "or"} /\ \E j \in DOMAIN q.ns : NamesKey(q.ns[j])
    \/ q.t = "diff" /\ NamesKey(q.l)
    \/ q.t = "agg" /\ NamesKey(q.q)

\* the projection of a conjunction and the filters beside it
SplitFilter(q) ==
    IF q.t = "and" /\ \E j \in DOMAIN q.ns : Projects(q.ns[j])
    THEN LET p == SelectInSeq(q.ns, Projects)
         IN [left |-> q.ns[p], filter |-> Conj(RemoveAt(q.ns, p))]
    ELSE [left |-> q, filter |-> None]

WithFilter(q, f) == IF q.t = "and" THEN And(<<f>> \o q.ns) ELSE And(<<f, q>>)

\* a filter goes into every aggregation of a node
RECURSIVE InjectFilter(_, _)
InjectFilter(q, f) ==
    LET Inject(n) == InjectFilter(n, f)
    IN CASE q.t = "agg" -> Agg(q.f, WithFilter(q.q, f))
         [] q.t = "cmp" -> Cmp(Inject(q.first),
                               Map(LAMBDA r : Than(r.op, Inject(r.x)), q.rest))
         [] q.t \in {"and", "or"} -> [q EXCEPT !.ns = Map(Inject, q.ns)]
         [] q.t = "nest" -> Nest(q.l, Inject(q.r))
         [] OTHER -> q

Distribute(left, o) == IF o.t = "lit" THEN o ELSE Nest(left, o)

NestComparison(left, c) ==
    Cmp(Distribute(left, c.first),
        Map(LAMBDA r : Than(r.op, Distribute(left, r.x)), c.rest))

\* the right side of a nest, expanded, under the left side without its filter
NestOver(left, right) ==
    LET projections == SelectSeq(right.ns, NamesKey)
        filters == SelectSeq(right.ns, LAMBDA n : ~NamesKey(n))
        compares == \E j \in DOMAIN filters : filters[j].t = "cmp"
        spread(n) == IF n.t = "cmp" THEN NestComparison(left, n) ELSE Nest(left, n)
        \* a left side without an aggregation cannot take the filters in
        inside == IF filters = <<>> THEN left ELSE InjectFilter(left, Conj(filters))
    IN CASE right.t = "cmp" -> [outer |-> None, nest |-> NestComparison(left, right)]
         [] right.t = "and" /\ projections # <<>> /\ ~compares ->
              [outer |-> IF inside = left THEN Conj(filters) ELSE None,
               nest |-> Nest(inside, Conj(projections))]
         [] right.t = "and" /\ (projections = <<>> \/ compares) ->
              [outer |-> None, nest |-> And(Map(spread, filters \o projections))]
         [] OTHER -> [outer |-> None, nest |-> Nest(left, right)]

\* Mutant: the filter on the left side is not handed to the aggregations
ExpandNestOutsideOnly(l, r) ==
    LET s == SplitFilter(l)
        n == NestOver(s.left, r)
    IN Conj(SelectSeq(<<n.outer, s.filter, n.nest>>, LAMBDA x : x # None))
\* Mutant: the filter also stays on the left side of the nest
ExpandNestKeepLeft(l, r) ==
    LET s == SplitFilter(l)
        n == NestOver(l, IF s.filter = None THEN r ELSE InjectFilter(r, s.filter))
    IN Conj(SelectSeq(<<n.outer, s.filter, n.nest>>, LAMBDA x : x # None))
ExpandNest(l, r) ==
    LET s == SplitFilter(l)
        n == NestOver(s.left, IF s.filter = None THEN r ELSE InjectFilter(r, s.filter))
    IN Conj(SelectSeq(<<n.outer, s.filter, n.nest>>, LAMBDA x : x # None))

\* agg(Nest(L, R)) is Nest(L, agg(R)); in a conjunction the first nest takes it
RECURSIVE Unnestable(_)
Unnestable(q) ==
    \/ q.t = "nest" /\ \/ q.r.t \in {"key", "nest"}
                       \/ q.r.t \in {"and", "or"} /\ \E j \in DOMAIN q.r.ns : Projects(q.r.ns[j])
    \/ q.t \in {"and", "or"} /\ \E j \in DOMAIN q.ns : Unnestable(q.ns[j])
    \/ q.t = "diff" /\ Unnestable(q.l)

RECURSIVE Unnest(_, _)
Unnest(f, q) ==
    CASE q.t = "nest" -> Nest(q.l, Agg(f, q.r))
      [] q.t \in {"and", "or"} ->
           LET p == SelectInSeq(q.ns, Unnestable)
           IN [q EXCEPT !.ns[p] = Unnest(f, q.ns[p])]
      [] q.t = "diff" -> Diff(Unnest(f, q.l), q.r)

\* a chain is the conjunction of its comparisons
Links(c) == [j \in DOMAIN c.rest |->
               Cmp(IF j = 1 THEN c.first ELSE c.rest[j - 1].x, <<c.rest[j]>>)]

\* the filters an operand brought along go beside the comparison
StripFilters(o) ==
    IF o.t = "and"
    THEN [filters |-> SelectSeq(o.ns, LAMBDA n : ~Projects(n)),
          core |-> Conj(SelectSeq(o.ns, Projects))]
    ELSE [filters |-> <<>>, core |-> o]

RECURSIVE Expand(_)
ExpandOperand(o) ==
    CASE o.t = "lit" -> o
      [] o.t = "agg" -> Agg(o.f, Expand(o.q))
      [] OTHER -> Expand(o)

ExpandComparison(c) ==
    LET x == StripFilters(ExpandOperand(c.first))
        y == StripFilters(ExpandOperand(c.rest[1].x))
        one == Cmp(x.core, <<Than(c.rest[1].op, y.core)>>)
    IN Conj(x.filters \o y.filters \o <<one>>)

Expand(q) ==
    CASE q.t \in {"match", "key"} -> q
      [] q.t \in {"and", "or"} -> [q EXCEPT !.ns = Map(Expand, q.ns)]
      [] q.t = "diff" -> Diff(Expand(q.l), Expand(q.r))
      [] q.t = "cmp" /\ Len(q.rest) > 1 -> And(Map(ExpandComparison, Links(q)))
      [] q.t = "cmp" /\ Len(q.rest) = 1 -> ExpandComparison(q)
      [] q.t = "agg" -> LET a == Agg(q.f, Expand(q.q))
                        IN IF Unnestable(a.q) THEN Expand(Unnest(a.f, a.q)) ELSE a
      [] q.t = "nest" -> ExpandNest(Expand(q.l), Expand(q.r))

-----------------------------------------------------------------------------
(* Physical resolution: query/lens_resolver.rs.                            *)

RECURSIVE IsProjection(_)
IsProjection(n) ==
    \/ n.t \in {"group", "sieve", "versus", "labels"}
    \/ n.t \in {"and", "or"} /\ \E j \in DOMAIN n.ns : IsProjection(n.ns[j])
    \/ n.t = "diff" /\ (IsProjection(n.l) \/ IsProjection(n.r))

\* every projection in a node is restricted to a context
RECURSIVE InjectContext(_, _)
InjectContext(n, c) ==
    CASE n.t = "group" -> [n EXCEPT !.ctx = Both(@, c)]
      [] n.t = "sieve" -> [n EXCEPT !.c.ctx = Both(@, c)]
      [] n.t = "versus" -> [n EXCEPT !.l.ctx = Both(@, c), !.r.ctx = Both(@, c)]
      [] n.t \in {"and", "or", "labels"} ->
           [n EXCEPT !.ns = Map(LAMBDA x : InjectContext(x, c), @)]
      [] n.t = "diff" -> Diff(InjectContext(n.l, c), InjectContext(n.r, c))
      [] OTHER -> n

Pure(n) == n.t = "group" /\ n.nv = None

\* a projection, a set of labels, or a projection beside filters it carries already
IsLabelOperand(n) ==
    \/ Pure(n) \/ n.t = "labels"
    \/ /\ n.t = "and"
       /\ \E j \in DOMAIN n.ns :
              /\ Pure(n.ns[j])
              /\ \A m \in DOMAIN n.ns \ {j} : ~IsProjection(n.ns[m])

LabelOperand(n) ==
    IF n.t = "and" THEN n.ns[CHOOSE j \in DOMAIN n.ns : Pure(n.ns[j])] ELSE n

AllLabelOperands(ns) ==
    Len(ns) >= 2 /\ \A j \in DOMAIN ns : IsLabelOperand(ns[j])

\* Mutant: only the projections behind the last filter are restricted
ResolveAndForward(ns) ==
    LET filters == SelectSeq(ns, LAMBDA n : ~IsProjection(n))
        last == IF filters = <<>> THEN 0
                ELSE SelectLastInSeq(ns, LAMBDA n : ~IsProjection(n))
        within == IF filters = <<>> THEN ns
                  ELSE [j \in DOMAIN ns |-> IF j < last THEN ns[j]
                                            ELSE InjectContext(ns[j], Conj(filters))]
        projections == SelectSeq(within, IsProjection)
    IN IF AllLabelOperands(projections)
       THEN LabelSet("intersect", Map(LabelOperand, projections)) ELSE And(within)
\* the filters of a conjunction become the context of its projections
ResolveAnd(ns) ==
    LET filters == SelectSeq(ns, LAMBDA n : ~IsProjection(n))
        within == IF filters = <<>> THEN ns
                  ELSE Map(LAMBDA n : InjectContext(n, Conj(filters)), ns)
        projections == SelectSeq(within, IsProjection)
    IN IF AllLabelOperands(projections)
       THEN LabelSet("intersect", Map(LabelOperand, projections)) ELSE And(within)

ResolveOr(ns) ==
    IF AllLabelOperands(ns) THEN LabelSet("union", Map(LabelOperand, ns)) ELSE Or(ns)

ResolveDiff(l, r) ==
    IF IsLabelOperand(l) /\ IsLabelOperand(r)
    THEN LabelSet("except", <<LabelOperand(l), LabelOperand(r)>>) ELSE Diff(l, r)

\* the keys of a left or right side, and the filters around them as its context
IsGroup(n) == n.t = "group"
GroupOf(n) ==
    IF IsGroup(n) THEN n
    ELSE LET p == SelectInSeq(n.ns, IsGroup)
         IN [n.ns[p] EXCEPT !.ctx = Both(@, Conj(RemoveAt(n.ns, p)))]
HasGroup(n) == \/ IsGroup(n)
               \/ n.t = "and" /\ \E j \in DOMAIN n.ns : IsGroup(n.ns[j])

MergeKeys(ks, more) == ks \o SelectSeq(more, LAMBDA k : ~Contains(ks, k))

Deepen(l, r) == Group(MergeKeys(l.keys, r.keys), r.nv, Both(l.ctx, r.ctx))

ResolveNest(left, r) ==
    LET l == GroupOf(left)
    IN CASE r.t = "agg" -> Group(l.keys, r, l.ctx)
         [] HasGroup(r) -> Deepen(l, GroupOf(r))
         [] r.t = "labels" /\ r.op = "union" ->
              LabelSet("union", Map(LAMBDA n : Deepen(l, GroupOf(n)), r.ns))
         [] OTHER -> Group(l.keys, None, Both(l.ctx, r))

\* a group compared with a literal; what still has its filters stays as it is
SieveOf(g, op, lit) ==
    IF g.t = "and" THEN g ELSE Sieve(g.keys, Condition(g.nv, op, lit, g.ctx))

\* extract_nvalue_projection_parts: the group with a value, what is beside it its context
RECURSIVE Valued(_)
Valued(n) ==
    IF IsGroup(n) THEN n
    ELSE LET direct == SelectInSeq(n.ns, LAMBDA x : IsGroup(x) /\ x.nv # None)
             p == IF direct # 0 THEN direct ELSE SelectInSeq(n.ns, LAMBDA x : x.t = "and")
         IN InjectContext(Valued(n.ns[p]), Conj(RemoveAt(n.ns, p)))

RECURSIVE Resolve(_)
ResolveAgg(f, q) == Agg(f, Resolve(q))

ResolveComparison(c) ==
    LET right == c.rest[1]
    IN CASE c.first.t = "lit" -> SieveOf(Resolve(right.x), Flip(right.op), c.first)
         [] right.x.t = "lit" -> SieveOf(Resolve(c.first), right.op, right.x)
         [] OTHER -> Versus(Valued(Resolve(c.first)), right.op, Valued(Resolve(right.x)))

Resolve(q) ==
    CASE q.t = "match" -> q
      [] q.t = "key" -> Group(<<q.k>>, None, None)
      [] q.t = "and" -> ResolveAnd(Map(Resolve, q.ns))
      [] q.t = "or" -> ResolveOr(Map(Resolve, q.ns))
      [] q.t = "diff" -> ResolveDiff(Resolve(q.l), Resolve(q.r))
      [] q.t = "agg" -> ResolveAgg(q.f, q.q)
      [] q.t = "nest" -> ResolveNest(Resolve(q.l), Resolve(q.r))
      [] q.t = "cmp" -> ResolveComparison(q)

-----------------------------------------------------------------------------
(* Optimization: query/lens_optimizer.rs.                                  *)

\* the comparisons of a conjunction that ask the same groups of the same context
Conditions(n) ==
    CASE n.t = "sieve" -> <<n.c>>
      [] n.t = "merged" -> n.ms
      [] n.t = "versus" -> <<Condition(n.l.nv, n.op, n.r.nv, n.l.ctx)>>
IsSieve(n) ==
    \/ n.t \in {"sieve", "merged"}
    \/ n.t = "versus" /\ n.l.keys = n.r.keys /\ n.l.ctx = n.r.ctx
SieveKeys(n) == IF n.t = "versus" THEN n.l.keys ELSE n.keys
Asks(n) == <<SieveKeys(n), Conditions(n)[1].ctx>>

\* a comparison that has the groups for itself is one of its own again
Unmerged(g) ==
    LET c == g.ms[1]
    IN IF Len(g.ms) > 1 THEN g
       ELSE IF c.rhs.t = "lit" THEN Sieve(g.keys, c)
       ELSE Versus(Group(g.keys, c.nv, c.ctx), c.op, Group(g.keys, c.rhs, c.ctx))

\* Mutant: the keys are not compared
MergeSievesAnyKey(ns) ==
    LET sieves == SelectSeq(ns, IsSieve)
        add(gs, n) ==
            LET p == SelectInSeq(gs, LAMBDA g : Asks(g)[2] = Asks(n)[2])
            IN IF p = 0 THEN Append(gs, Merged(SieveKeys(n), Conditions(n)))
               ELSE [gs EXCEPT ![p].ms = @ \o Conditions(n)]
    IN SelectSeq(ns, LAMBDA n : ~IsSieve(n)) \o Map(Unmerged, FoldLeft(add, <<>>, sieves))
MergeSieves(ns) ==
    LET sieves == SelectSeq(ns, IsSieve)
        add(gs, n) ==
            LET p == SelectInSeq(gs, LAMBDA g : Asks(g) = Asks(n))
            IN IF p = 0 THEN Append(gs, Merged(SieveKeys(n), Conditions(n)))
               ELSE [gs EXCEPT ![p].ms = @ \o Conditions(n)]
    IN SelectSeq(ns, LAMBDA n : ~IsSieve(n)) \o Map(Unmerged, FoldLeft(add, <<>>, sieves))

\* equalities of one type in a disjunction become one list
Collapsible(n) == n.t = "match" /\ n.op = "="
CollapseMatches(ns) ==
    LET like(n, m) == Collapsible(n) /\ Collapsible(m) /\ n.k = m.k
        labels(n) == {ns[j].v : j \in {j \in DOMAIN ns : like(ns[j], n)}}
        fold(n) == IF Collapsible(n) /\ \E j, m \in DOMAIN ns :
                                          j # m /\ like(ns[j], n) /\ like(ns[m], n)
                   THEN MatchIn(n.k, labels(n)) ELSE n
        first(j) == \A m \in 1..(j - 1) : ~like(ns[m], ns[j])
    IN Map(LAMBDA j : fold(ns[j]), SetToSortSeq({j \in DOMAIN ns : first(j)}, <))

Single(n) == IF Len(n.ns) = 1 THEN n.ns[1] ELSE n

RECURSIVE Optimize(_)
Optimize(n) ==
    CASE n.t = "and" -> Single(And(MergeSieves(Map(Optimize, n.ns))))
      [] n.t = "or" -> Single(Or(CollapseMatches(Map(Optimize, n.ns))))
      [] n.t = "diff" -> Diff(Optimize(n.l), Optimize(n.r))
      [] n.t = "sieve" -> Merged(n.keys, <<n.c>>)
      [] OTHER -> n

-----------------------------------------------------------------------------
(* What the SQL of a node selects: query/sql/.                             *)

Rows(k) == {r \in view : r.k = k}
Bearing(k) == {r.i : r \in Rows(k)}
Bearers(k, v) == {r.i : r \in {r \in Rows(k) : r.v = v}}
Labels(k, items) == {r.v : r \in {r \in Rows(k) : r.i \in items}}

\* the value a row gives in an aggregation: one per item, see the views of MCNestQuery
Total(k, items) ==
    LET value(i) == CHOOSE v \in Labels(k, {i}) : TRUE
    IN FoldSet(LAMBDA i, sum : sum + value(i), 0, items \cap Bearing(k))

\* extract_agg_parts: the projection in an aggregation and the filter beside it
RECURSIVE AggKey(_), AggFilter(_)
AggKey(n) ==
    CASE n.t = "group" -> Head(n.keys)
      [] n.t \in {"and", "or"} /\ \E j \in DOMAIN n.ns : AggKey(n.ns[j]) # "" ->
           AggKey(n.ns[SelectInSeq(n.ns, LAMBDA x : AggKey(x) # "")])
      [] n.t = "diff" -> AggKey(n.l)
      [] OTHER -> ""
AggFilter(n) ==
    CASE n.t = "group" -> None
      [] n.t = "and" /\ AggKey(n) # "" ->
           LET p == SelectInSeq(n.ns, LAMBDA x : AggKey(x) # "")
               f == AggFilter(n.ns[p])
           IN Conj(SubSeq(n.ns, 1, p - 1) \o (IF f = None THEN <<>> ELSE <<f>>)
                   \o SubSeq(n.ns, p + 1, Len(n.ns)))
      [] OTHER -> n

\* resolve_simple_filter_condition: a filter tested on one row, its operator ignored
RECURSIVE OneRow(_), RowMeets(_, _), FilterTypes(_)
FilterTypes(n) == IF n.t = "match" THEN {n.k}
                  ELSE IF n.t = "and" THEN UNION {FilterTypes(n.ns[j]) : j \in DOMAIN n.ns}
                  ELSE {}
OneRow(n) == \/ n.t = "match"
             \/ /\ n.t = "and" /\ Cardinality(FilterTypes(n)) <= 1
                /\ \A j \in DOMAIN n.ns : OneRow(n.ns[j])
RowMeets(r, n) ==
    IF n.t = "match" THEN r.k = n.k /\ n.k \notin Numeric /\ r.v = n.v
    ELSE \A j \in DOMAIN n.ns : RowMeets(r, n.ns[j])

RECURSIVE Pick(_)
Within(ctx) == IF ctx = None THEN Items ELSE Pick(ctx)

\* build_nvalue_standalone_subquery: the value of a group, if it has one
StandaloneValue(items, nv, ctx) ==
    LET k == AggKey(nv.q)
        inside == items \cap Within(ctx) \cap Within(AggFilter(nv.q))
        counted == IF k = "" THEN inside ELSE inside \cap Bearing(k)
    IN IF counted = {} THEN {}
       ELSE IF nv.f = "sum" THEN {Total(k, counted)}
       ELSE IF k = "" THEN {Cardinality(counted)}
       ELSE {Cardinality(Labels(k, counted))}

\* build_merged_nvalue_agg_expr: the value of a group in a HAVING clause
MergedValue(items, o) ==
    LET k == AggKey(o.q)
        f == AggFilter(o.q)
        kept == IF f = None THEN items
                ELSE IF o.f = "count" /\ OneRow(f)
                     THEN {r.i : r \in {r \in view : r.i \in items /\ RowMeets(r, f)}}
                     ELSE items \cap Pick(f)
        valued == IF k = "" \/ (o.f = "count" /\ f # None) THEN kept ELSE kept \cap Bearing(k)
    IN IF o.t = "lit" THEN {o.n}
       ELSE IF o.f = "count" THEN {Cardinality(valued)}
       ELSE IF valued = {} THEN {} ELSE {Total(k, valued)}

\* build_agg_operand_eav_expr: the value of one item, summed over the group; a
\* count of a type counts what the item has in that type's column, of any type
PivotValue(items, o) ==
    LET k == AggKey(o.q)
        kept == items \cap Within(AggFilter(o.q))
        column(i) == {r.v : r \in {r \in view : r.i = i /\ (r.k \in Numeric <=> k \in Numeric)}}
    IN IF o.t = "lit" THEN {o.n}
       ELSE IF o.f = "count" /\ k = "" THEN {Cardinality(kept)}
       ELSE IF o.f = "count"
            THEN {FoldSet(LAMBDA i, sum : sum + Cardinality(column(i)), 0, kept)}
       ELSE IF kept \cap Bearing(k) = {} THEN {} ELSE {Total(k, kept)}

Meets(xs, op, ys) == \E x \in xs, y \in ys : Holds(op, x, y)

\* the combination of labels an item has in the pivot: the greatest of each key, or NULL
Combination(keys, i) ==
    [j \in DOMAIN keys |-> LET ls == Labels(keys[j], {i})
                           IN IF ls = {} THEN {} ELSE {Max(ls)}]

PivotPick(keys, among, cs) ==
    {i \in among :
        \A j \in DOMAIN cs :
            LET group == {m \in among : Combination(keys, m) = Combination(keys, i)}
            IN Meets(PivotValue(group, cs[j].nv), cs[j].op, PivotValue(group, cs[j].rhs))}

SievePick(keys, c) ==
    IF Len(keys) = 1
    THEN {r.i : r \in {r \in Rows(keys[1]) :
            Meets(StandaloneValue(Bearers(keys[1], r.v), c.nv, c.ctx), c.op, {c.rhs.n})}}
    ELSE PivotPick(keys, {i \in Within(c.ctx) : \A j \in DOMAIN keys : i \in Bearing(keys[j])},
                   <<c>>)

\* the groups of a key that meet all conditions; a HAVING clause looks at no context
HavingPick(key, cs) ==
    {r.i : r \in {r \in Rows(key) :
        \A j \in DOMAIN cs : LET group == Bearers(key, r.v)
                            IN Meets(MergedValue(group, cs[j].nv), cs[j].op,
                                     MergedValue(group, cs[j].rhs))}}

\* items without a label of every key are in the pivot, too
MergedPick(keys, ms) ==
    IF Len(keys) = 1 THEN HavingPick(keys[1], ms) ELSE PivotPick(keys, Items, ms)

\* build_nest_nest_match_sql: of the left keys the first, of the right side the value
VersusPick(l, op, r) == HavingPick(l.keys[1], <<Condition(l.nv, op, r.nv, None)>>)

PickAll(ns) == {i \in Items : \A j \in DOMAIN ns : i \in Pick(ns[j])}
PickSome(ns) == {i \in Items : \E j \in DOMAIN ns : i \in Pick(ns[j])}

Pick(n) ==
    CASE n.t = "match" -> {r.i : r \in {r \in Rows(n.k) : Holds(n.op, r.v, n.v)}}
      [] n.t = "matchin" -> {r.i : r \in {r \in Rows(n.k) : r.v \in n.vs}}
      [] n.t = "and" -> PickAll(n.ns)
      [] n.t = "or" -> PickSome(n.ns)
      [] n.t = "diff" -> Pick(n.l) \ Pick(n.r)
      [] n.t = "labels" /\ n.op = "union" -> PickSome(n.ns)
      [] n.t = "labels" /\ n.op = "intersect" -> PickAll(n.ns)
      [] n.t = "labels" /\ n.op = "except" -> Pick(n.ns[1]) \ Pick(n.ns[2])
      [] n.t = "group" -> {i \in Within(n.ctx) : \A j \in DOMAIN n.keys : i \in Bearing(n.keys[j])}
      [] n.t = "sieve" -> SievePick(n.keys, n.c)
      [] n.t = "merged" -> MergedPick(n.keys, n.ms)
      [] n.t = "versus" -> VersusPick(n.l, n.op, n.r)

\* build_agg_context_into prepares the filters of the aggregations on the left of
\* merged comparisons; the SQL of one on the right looks its own up and panics.
LooksUp(keys, o) ==
    /\ o.t = "agg"
    /\ AggFilter(o.q) # None
    /\ Len(keys) > 1 \/ o.f # "count" \/ ~OneRow(AggFilter(o.q))
RECURSIVE Panics(_)
Panics(n) ==
    CASE n.t = "merged" -> \E j \in DOMAIN n.ms : LooksUp(n.keys, n.ms[j].rhs)
      [] n.t \in {"and", "or"} -> \E j \in DOMAIN n.ns : Panics(n.ns[j])
      [] n.t = "diff" -> Panics(n.l) \/ Panics(n.r)
      [] OTHER -> FALSE

-----------------------------------------------------------------------------
Init ==
    /\ view \in Views
    /\ query \in Queries
    /\ stage = "parsed"
    /\ ast = query
    /\ node = None
    /\ answer = {}

ExpandPass ==
    /\ stage = "parsed"
    /\ stage' = "expanded"
    /\ ast' = Expand(ast)
    /\ UNCHANGED <<view, query, node, answer>>

ResolvePass ==
    /\ stage = "expanded"
    /\ stage' = "resolved"
    /\ node' = Resolve(ast)
    /\ UNCHANGED <<view, query, ast, answer>>

OptimizePass ==
    /\ stage = "resolved"
    /\ stage' = "optimized"
    /\ node' = Optimize(node)
    /\ UNCHANGED <<view, query, ast, answer>>

PickPass ==
    /\ stage = "optimized"
    /\ stage' = IF Panics(node) THEN "panicked" ELSE "picked"
    /\ answer' = IF Panics(node) THEN {} ELSE Pick(node)
    /\ UNCHANGED <<view, query, ast, node>>

Next == ExpandPass \/ ResolvePass \/ OptimizePass \/ PickPass

Spec == Init /\ [][Next]_vars

-----------------------------------------------------------------------------
(* The meaning of a query, from its syntax: design/QUERY.md.  Of a         *)
(* projection or a nest it is the items that have the labels.  A compared  *)
(* nest keeps the items of the groups that meet the comparison, a group    *)
(* being the items of the left side that share a label of each key.        *)

RECURSIVE KeysOf(_)
KeysOf(q) ==
    CASE q.t = "key" -> <<q.k>>
      [] q.t = "nest" /\ Projects(q.r) ->
           LET ks == KeysOf(q.l)
           IN ks \o SelectSeq(KeysOf(q.r), LAMBDA k : ~Contains(ks, k))
      [] q.t = "nest" /\ ~Projects(q.r) -> KeysOf(q.l)
      [] q.t \in {"and", "or"} -> KeysOf(q.ns[SelectInSeq(q.ns, Projects)])

RECURSIVE Meaning(_)
MeaningOfAll(ns) == {i \in Items : \A j \in DOMAIN ns : i \in Meaning(ns[j])}

\* an aggregation of a projection is over its labels, any other over the items
Value(items, a) ==
    LET counted == items \cap Meaning(a.q)
    IN CASE a.f = "sum" -> IF counted = {} THEN {} ELSE {Total(Last(KeysOf(a.q)), counted)}
         [] a.f = "count" /\ Projects(a.q) ->
              {Cardinality(Labels(Last(KeysOf(a.q)), counted))}
         [] OTHER -> {Cardinality(counted)}

\* the nest of a compared nest on its own: its left side, its chain of values
Operand(c, j) == IF j = 0 THEN c.first ELSE c.rest[j].x
Nested(o) == IF o.t = "and" THEN o.ns[SelectInSeq(o.ns, LAMBDA n : n.t = "nest")] ELSE o
Bare(o) == IF Nested(o).t = "nest" THEN Nested(o).r ELSE o
Grouped(c) == Nested(Operand(c, CHOOSE j \in 0..Len(c.rest) : Nested(Operand(c, j)).t = "nest")).l

\* a link of a chain compares values of one group
Linked(items, x, op, y) ==
    LET side(o) == IF o.t = "lit" THEN {o.n} ELSE Value(items, o)
    IN \E v \in side(x), w \in side(y) : Holds(op, v, w)
GroupMeets(items, c) ==
    \A j \in DOMAIN c.rest :
        Linked(items, Bare(Operand(c, j - 1)), c.rest[j].op, Bare(Operand(c, j)))

Sharing(l, labels) ==
    {i \in Meaning(l) : \A j \in DOMAIN labels : labels[j] \in Labels(KeysOf(l)[j], {i})}
LabelsOf(keys) == [DOMAIN keys -> {r.v : r \in view}]
Sifted(l, comparisons) ==
    UNION {g \in {Sharing(l, labels) : labels \in LabelsOf(KeysOf(l))} :
              \A j \in DOMAIN comparisons : GroupMeets(g, comparisons[j])}

\* two nests compared: a group on the left with the group of its labels on the right
Joined(x, op, y) ==
    UNION {Sharing(x.l, labels) : labels \in
        {labels \in LabelsOf(KeysOf(x.l)) :
            \E v \in Value(Sharing(x.l, labels), x.r), w \in Value(Sharing(y.l, labels), y.r) :
                Holds(op, v, w)}}
Compared(c) ==
    IF Len(c.rest) = 1 /\ \A j \in 0..1 : Nested(Operand(c, j)).t = "nest"
    THEN Joined(Nested(c.first), c.rest[1].op, Nested(c.rest[1].x))
    ELSE Sifted(Grouped(c), <<c>>)

Meaning(q) ==
    CASE q.t = "match" -> {r.i : r \in {r \in Rows(q.k) : Holds(q.op, r.v, q.v)}}
      [] q.t = "key" -> Bearing(q.k)
      [] q.t = "and" -> MeaningOfAll(q.ns)
      [] q.t = "or" -> UNION {Meaning(q.ns[j]) : j \in DOMAIN q.ns}
      [] q.t = "diff" -> Meaning(q.l) \ Meaning(q.r)
      [] q.t = "cmp" -> Compared(q)
      [] q.t = "nest" /\ q.r.t = "agg" -> Meaning(q.l)
      [] q.t = "nest" /\ q.r.t = "cmp" -> Sifted(q.l, <<q.r>>)
      [] q.t = "nest" /\ q.r.t = "and" /\ q.r.ns[1].t = "cmp" -> Sifted(q.l, q.r.ns)
      [] q.t = "nest" /\ q.r.t \notin {"agg", "cmp"} -> Meaning(q.l) \cap Meaning(q.r)
      \* the last level of an aggregated nest becomes a value of the one before it
      [] q.t = "agg" /\ q.q.t = "nest" -> Meaning(q.q.l)
      [] q.t = "agg" /\ q.q.t = "and" ->
           MeaningOfAll(Map(LAMBDA n : IF n.t = "nest" THEN n.l ELSE n, q.q.ns))

-----------------------------------------------------------------------------
(* Where the code departs from that meaning, as read off the query and the *)
(* rows.  Each is a known limit in the README.                             *)

RECURSIVE Parts(_)
Parts(q) ==
    {q} \cup CASE q.t \in {"and", "or"} -> UNION {Parts(q.ns[j]) : j \in DOMAIN q.ns}
               [] q.t \in {"diff", "nest"} -> Parts(q.l) \cup Parts(q.r)
               [] q.t = "agg" -> Parts(q.q)
               [] q.t = "cmp" -> UNION {Parts(Operand(q, j)) : j \in 0..Len(q.rest)}
               [] OTHER -> {}

Comparisons(q) == {n \in Parts(q) : n.t = "cmp"}
Counted(q) == {n.q : n \in {n \in UNION {Parts(c) : c \in Comparisons(q)} :
                              n.t = "agg" /\ n.f = "count"}}
Lefts(q) == {Grouped(c) : c \in {c \in Comparisons(q) :
                                    \E j \in 0..Len(c.rest) : Nested(Operand(c, j)).t = "nest"}}
            \cup {n.l : n \in {n \in Parts(q) : n.t = "nest" /\ Comparisons(n.r) # {}}}
\* the filters a left side hands to the aggregations
Filters(l) == IF l.t = "and" THEN {n \in Range(l.ns) : ~Projects(n)} ELSE {}
\* a link that compares two values of a group with one another
ValueLinks(c) == {j \in DOMAIN c.rest : "lit" \notin {Operand(c, j - 1).t, Operand(c, j).t}}
Doubled(keys) == \E i \in Items : \E j \in DOMAIN keys : Cardinality(Labels(keys[j], {i})) > 1
Lacking(keys) == \E i \in Items : \E j \in DOMAIN keys : Labels(keys[j], {i}) = {}

\* a group compared by how many labels it has is compared by how many items
CountsLabels(q) == \E n \in Counted(q) : Projects(n)

\* counted tags are looked for on a single row, whatever their operator
CountsOnOneRow(q) ==
    \/ \E n \in Counted(q) : OneRow(n) /\ ~(n.t = "match" /\ n.op = "=" /\ n.k \notin Numeric)
    \/ /\ \E c \in Comparisons(q) : ValueLinks(c) # {}
       /\ \E n \in Counted(q), l \in Lefts(q) : \E f \in Filters(l) : n # f /\ OneRow(And(<<f, n>>))

\* a group without a counted item is dropped beside a filter, and counts 0 elsewhere
CountsNothing(q) ==
    /\ \E n \in Parts(q) : n.t = "and" /\ (Comparisons(n) # {} \/ \E l \in Lefts(q) : n \in Parts(l))
    /\ \E c \in Comparisons(q) : \E j \in DOMAIN c.rest :
          LET x == Operand(c, j - 1)
              y == Operand(c, j)
          IN \/ y.t = "lit" /\ Holds(c.rest[j].op, 0, y.n)
             \/ x.t = "lit" /\ Holds(c.rest[j].op, x.n, 0)

\* a filter beside the only comparison of some keys restricts what that one counts
FilterBeside(q) ==
    \E n \in Parts(q) :
        /\ n.t = "and"
        /\ \E f, j \in DOMAIN n.ns :
              /\ n.ns[f].t # "cmp"
              /\ n.ns[j].t = "cmp"
              /\ \A m \in DOMAIN n.ns \ {j} :
                    n.ns[m].t = "cmp" => KeysOf(Grouped(n.ns[m])) # KeysOf(Grouped(n.ns[j]))

\* under several keys, items without a label of each are grouped too, and only one
\* label of an item is looked at; of two values compared, only the first key is
SeveralKeys(q) ==
    \E l \in Lefts(q) :
        /\ Len(KeysOf(l)) > 1
        /\ \/ Doubled(KeysOf(l)) \/ Lacking(KeysOf(l))
           \/ \E c \in Comparisons(q) : ValueLinks(c) # {}

\* two comparisons under one key are asked of one group, those of a filtered chain of two
OneGroup(q) ==
    \/ \E n \in Parts(q) :
          /\ n.t = "and"
          /\ \E j, m \in DOMAIN n.ns : /\ j # m
                                       /\ \A x \in {j, m} : n.ns[x].t = "cmp" /\ n.ns[x].first.t = "nest"
                                       /\ KeysOf(n.ns[j].first.l) = KeysOf(n.ns[m].first.l)
                                       /\ Doubled(KeysOf(n.ns[j].first.l))
    \/ \E c \in Comparisons(q) :
          Len(c.rest) > 1 /\ \E l \in Lefts(q) : Doubled(KeysOf(l)) /\ l.t = "and"

\* of the nest on the right of a comparison only the value is looked at
RightSideLost(q) ==
    \E c \in Comparisons(q) :
        \E j \in ValueLinks(c) : Nested(Operand(c, j)).t = "nest"
                             /\ Nested(Operand(c, j)).l # Nested(Operand(c, j - 1)).l

\* a projection beside a nest in an operand is no filter to put beside the comparison:
\* the comparison is dropped, or that projection is
OperandKeepsBoth(q) ==
    \E c \in Comparisons(q) : \E j \in 0..Len(c.rest) : Operand(c, j).t = "and"

\* a filtered value on the right of one of several comparisons: no filter is prepared
NotPrepared(q) ==
    \E c \in Comparisons(q) :
        /\ \/ Len(c.rest) > 1
           \/ \E n \in Parts(q) : n.t = "and" /\ c \in Range(n.ns)
                                  /\ \E d \in Range(n.ns) \ {c} : d.t = "cmp"
        /\ \E j \in ValueLinks(c) : LET o == Bare(Operand(c, j))
                               IN \/ o.q.t = "and"
                                  \/ o.f = "sum" /\ \E l \in Lefts(q) : Filters(l) # {}

Departs(q) ==
    \/ CountsLabels(q) \/ CountsOnOneRow(q) \/ CountsNothing(q)
    \/ FilterBeside(q) \/ SeveralKeys(q) \/ OneGroup(q)
    \/ RightSideLost(q) \/ OperandKeepsBoth(q) \/ NotPrepared(q)

-----------------------------------------------------------------------------
(* Properties.                                                             *)

\* What the SQL of a query picks is what the query means: filters are handed on to
\* the right aggregations (expand_nest), contexts to the right projections
\* (resolve_query_node) and only comparisons of the same groups are merged
\* (merge_nest_matches), for queries and rows outside the known departures.
AnswerIsMeaning ==
    stage \in {"picked", "panicked"} /\ ~Departs(query) =>
        stage = "picked" /\ answer = Meaning(query)

RECURSIVE Mirror(_)
Mirror(q) ==
    CASE q.t \in {"and", "or"} -> [q EXCEPT !.ns = Reverse(Map(Mirror, q.ns))]
      [] q.t = "diff" -> Diff(Mirror(q.l), Mirror(q.r))
      [] q.t = "nest" -> Nest(Mirror(q.l), Mirror(q.r))
      [] q.t = "agg" -> Agg(q.f, Mirror(q.q))
      [] q.t = "cmp" -> Cmp(Mirror(q.first), Map(LAMBDA r : Than(r.op, Mirror(r.x)), q.rest))
      [] OTHER -> q

\* The operands of & and | may be exchanged (design/QUERY.md:266 and 272), through every
\* pass: none of them depends on which child of a conjunction comes first, also where
\* the answer departs from the meaning.
ConjunctionExchangeable ==
    stage = "picked" => answer = Pick(Optimize(Resolve(Expand(Mirror(query)))))

\* An expanded query is left alone by another expansion: expand_query_node expands again
\* what an aggregation of a nest was rewritten to (logical_resolver.rs:96), and a filter
\* handed to an aggregation there must not be handed to it or put beside it twice.
ExpandStable == stage = "expanded" => Expand(ast) = ast
=============================================================================
