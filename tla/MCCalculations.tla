--------------------------- MODULE MCCalculations ---------------------------
(* Instances of Calculations for TLC. *)
EXTENDS Calculations, TLC

\* the rows of two items that bear some sizes, widths and points, and each a name
Tagged(i, k, ns) == {[i |-> i, k |-> k, v |-> One * n] : n \in ns}
Table(size, width, pts) ==
    UNION {Tagged(i, "size", size[i]) \cup Tagged(i, "width", width[i]) \cup Tagged(i, "pts", pts[i])
           \cup {[i |-> i, k |-> "name", v |-> IF i = 1 THEN "a" ELSE "b"]} : i \in {1, 2}}

SomeViews ==
    {[rows |-> Table(t[1], t[2], t[3]), rank |-> [i \in {1, 2} |-> One * rank[i]]] :
        t \in {<<<<{1}, {3}>>, <<{2}, {1}>>, <<{2}, {1}>>>>,
               <<<<{2}, {2}>>, <<{2}, {}>>, <<{1, 3}, {2}>>>>,
               <<<<{}, {2}>>, <<{1}, {3}>>, <<{}, {4}>>>>,
               <<<<{4}, {1}>>, <<{}, {}>>, <<{1, 4}, {}>>>>,
               <<<<{3}, {2}>>, <<{3}, {3}>>, <<{3}, {1, 2}>>>>,
               <<<<{}, {}>>, <<{1}, {2}>>, <<{1}, {1}>>>>},
        rank \in {<<0, 0>>, <<1, 3>>, <<2, 1>>}}

N(n) == Lit(One * n)
Rank == Type("rank")
Size == Type("size")
Width == Type("width")
Pts == Type("pts")
Name == Type("name")
Is(l, op, r) == Cmp("label", l, <<Than(op, r)>>)
Than2(l, o, m, p, r) == Cmp("label", l, <<Than(o, m), Than(p, r)>>)
Scalars(l, op, r) == Cmp("scalar", l, <<Than(op, r)>>)
Whole1(f, x) == Agg(f, None, x)
CountOf(c) == Agg("count", c, None)

Small == Is(Size, "<", N(3))
Big == Is(Pts, ">", N(1))
Aggs == {Whole1("sum", Size), Whole1("max", Pts), Whole1("avg", Size), Whole1("min", Width),
         Whole1("sum", Rank), Whole1("count", Width), CountOf(Small), Agg("sum", Small, Pts),
         Agg("max", And(<<Small, Big>>), Size), Whole1("sum", Calc(Size, "*", N(2))),
         Whole1("sum", Calc(Width, "-", Size)), Agg("count", Big, Rank)}
Calcs == {Calc(Size, "+", N(1)), Calc(Pts, "*", N(2)), Calc(Size, "-", Width), Calc(Rank, "+", N(1)),
          Calc(Rank, "+", Pts), Calc(Size, "/", N(2)), Calc(Of(Big, Size), "+", N(1))}
Mixed == {Calc(Size, "-", Whole1("min", Size)), Calc(Rank, "+", Whole1("max", Pts)),
          Calc(Whole1("sum", Size), "/", N(2)), Calc(Size, "*", CountOf(Small))}
Folded == {Calc(N(1), "+", N(1)), Calc(N(3), "/", N(2)), Calc(Calc(N(4), "/", N(2)), "+", N(1))}
Types == {Rank, Size, Width, Pts}

\* types and calculations compared with each other, on either side
LabelQueries ==
    UNION {{Is(l, op, r), Is(r, Flip(op), l)} :
        l \in Calcs \cup Types, op \in {"<", "="},
        r \in {N(2), Size, Pts, Calc(Size, "+", N(1)), Calc(Pts, "*", N(2))} \cup Folded \cup Mixed}

\* aggregations beside types and calculations, and compared as scalars
AggregationQueries ==
    {Is(l, op, a) : l \in {Rank, Size, Pts, Calc(Size, "+", N(1)), Calc(Size, "*", CountOf(Small))},
                    op \in {"<", ">"}, a \in Aggs}
    \cup UNION {{Scalars(a, op, r), Scalars(r, Flip(op), a)} : a \in Aggs, op \in {">"},
            r \in {N(2), Whole1("max", Size), CountOf(Big), Calc(N(3), "/", N(2)),
                   Calc(Whole1("sum", Size), "/", N(2)), Calc(N(1), "+", Whole1("max", Pts))}}
    \cup {Scalars(o, "<", N(4)) : o \in {Calc(Whole1("sum", Size), "/", N(2)), Calc(N(1), "+", N(1))}}
    \cup {Is(Calc(Whole1("sum", Size), "/", N(2)), "<", N(4)), Is(N(4), ">", Calc(Whole1("sum", Size), "/", N(2))),
          Is(Calc(Whole1("sum", Size), "+", N(1)), ">", Calc(Whole1("max", Size), "*", N(2)))}

Values == {Value(a) : a \in Aggs}
          \cup {Value(Calc(a, op, N(2))) : a \in Aggs, op \in {"+", "/"}}
          \cup {Value(o) : o \in Folded \cup {Calc(Whole1("sum", Size), "-", Whole1("max", Pts))}}

\* the filters of aggregations
Filters == {Is(Size, "=", Width), Is(Size, "<", Calc(Pts, "+", N(1))), Is(Calc(Rank, "+", N(1)), ">", N(2)),
            Is(Calc(Size, "*", N(2)), ">", Calc(Width, "+", N(1))), And(<<Small, Is(Pts, "<", Width)>>),
            Is(Calc(Size, "-", Whole1("min", Size)), ">", N(0)), Than2(N(1), "<", Pts, "<", N(3)),
            Is(Rank, "<", Calc(Rank, "+", Whole1("max", Pts))), Is(Size, "=", Whole1("max", Size))}
FilterQueries == {Value(CountOf(c)) : c \in Filters} \cup {Value(Agg("sum", c, Size)) : c \in Filters}
                 \cup {Scalars(Agg("sum", c, Size), ">", N(2)) : c \in Filters} \cup Filters

Chains ==
    {Than2(l, "<", m, "<", r) : l \in {N(1), Rank}, m \in Types \cup {Calc(Size, "+", N(1))},
                                r \in {N(3), Width, Calc(Of(Small, Rank), "+", N(1))}}
    \cup {Cmp("scalar", l, <<Than("<", m), Than("<", r)>>) :
            l \in {Whole1("min", Size), N(1)}, m \in {N(2), Whole1("avg", Size)},
            r \in {Whole1("max", Pts), Whole1("sum", Size)}}
    \cup {Than2(Size, ">", N(1), "<", Whole1("max", Size)), Than2(N(1), "<", Calc(Rank, "+", N(1)), "<", N(5))}

Others == {Is(Name, "=", Name), Is(Calc(Name, "+", N(1)), "=", Name), Is(Calc(Name, "-", Name), "=", Name),
           And(<<Small, Big>>), And(<<Small, Is(Calc(Size, "+", Pts), ">", N(3))>>),
           And(<<Small, Scalars(Whole1("sum", Size), ">", N(1))>>), And(<<Is(Rank, "<", Size), Big>>),
           Is(Calc(Of(Small, Size), "+", Of(Big, Pts)), ">", N(2)),
           Value(Whole1("sum", Calc(Of(Big, Size), "+", N(1)))),
           Is(Of(Small, Rank), "<", Calc(Size, "+", N(1)))}

SomeQueries == LabelQueries \cup AggregationQueries \cup Values \cup FilterQueries \cup Chains \cup Others
=============================================================================
