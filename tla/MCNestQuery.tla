---------------------------- MODULE MCNestQuery ----------------------------
(* Instances of NestQuery for TLC. *)
EXTENDS NestQuery, TLC

\* the rows of items that bear some boxes, some hues and, unless 0, some points
Row(i, k, v) == [i |-> i, k |-> k, v |-> v]
Table(box, hue, pts) ==
    UNION {{Row(i, "box", v) : v \in box[i]} \cup {Row(i, "hue", v) : v \in hue[i]}
           \cup {Row(i, "pts", v) : v \in {pts[i]} \ {0}} : i \in 1..3}

SomeViews ==
    {Table(box, hue, pts) :
        box \in {<<{1}, {1}, {1}>>, <<{1}, {1}, {2}>>, <<{1}, {1, 2}, {2}>>, <<{1}, {1}, {}>>},
        hue \in {<<{11}, {11}, {11}>>, <<{11}, {12}, {12}>>, <<{11, 12}, {12}, {}>>,
                 <<{}, {11}, {11}>>},
        pts \in {<<1, 1, 1>>, <<1, 2, 0>>, <<0, 0, 3>>}}

Box == Key("box")
Hue == Key("hue")
Pts == Key("pts")
Red == Match("hue", "=", 11)
Blue == Match("hue", "=", 12)
First == Match("box", "=", 1)
High == Match("pts", ">", 1)

Count(q) == Agg("count", q)
Sum(q) == Agg("sum", q)
Is(o, op, n) == Cmp(o, <<Than(op, Lit(n))>>)
Between(o) == Cmp(Lit(0), <<Than("<", o), Than("<", Lit(3))>>)

\* a nest compared with a literal
ComparedNests ==
    {Is(Nest(l, a), o[1], o[2]) :
        l \in {Box, And(<<Red, Box>>), And(<<Box, High>>), Nest(Box, Hue), Nest(Box, Nest(Box, Hue)),
               And(<<Red, Nest(Box, Hue)>>), Nest(Box, And(<<Red, Hue>>)), And(<<Red, Box, High>>)},
        a \in {Count(Red), Count(Box), Count(High), Count(And(<<Red, High>>)),
               Count(And(<<Red, Blue>>)), Count(Or(<<Red, High>>)), Count(Nest(Box, Hue)),
               Count(And(<<Red, Box>>)), Sum(Pts), Sum(And(<<Red, Pts>>))},
        o \in {<<">", 1>>, <<"=", 1>>, <<"<", 2>>}}

Sets == {Red, Or(<<Red, Blue>>), Or(<<Red, First, Blue>>), Diff(Red, High), And(<<Red, High>>)}

Projections ==
    {Box, And(<<Red, Box>>), Or(<<Box, Hue>>), And(<<Box, Hue>>), Diff(Box, Hue), Diff(Red, Box),
     Or(<<Red, Box>>), And(<<High, Box, Hue>>), Nest(Box, Hue), Nest(Box, And(<<Red, Hue>>)),
     Nest(Box, Or(<<Hue, Pts>>)), Nest(And(<<Red, Box>>), Pts), Nest(Box, Count(Red)),
     Count(Nest(Box, Hue)), Sum(And(<<Red, Nest(Box, Pts)>>))}

A == Is(Nest(Box, Count(Red)), ">", 1)
B == Is(Nest(Box, Sum(Pts)), ">", 2)
C == Is(Nest(Hue, Count(First)), ">", 0)

\* comparisons beside filters and other comparisons, chains, comparisons in a nest
Combinations ==
    {And(<<A, B>>), And(<<A, C>>), And(<<A, B, C>>), And(<<Red, A>>), And(<<High, A>>),
     And(<<A, High, C>>), And(<<Red, A, B>>), And(<<High, A, C>>), And(<<A, Or(<<B, C>>)>>),
     Or(<<A, B>>), Or(<<A, C>>), Diff(A, B), Diff(Red, A), Diff(And(<<Red, B>>), C),
     Between(Nest(Box, Count(Red))), Between(Nest(And(<<High, Box>>), Count(Red))),
     Nest(Box, Between(Count(Red))), Nest(And(<<High, Box>>), Is(Count(Red), ">", 0)),
     Nest(Box, And(<<Is(Count(Red), ">", 0), Is(Sum(Pts), ">", 1)>>)),
     Nest(And(<<Red, Box>>), And(<<Is(Count(Blue), ">", 0), Is(Sum(Pts), ">", 1)>>)),
     Nest(And(<<Red, Box>>), And(<<Is(Count(First), ">", 0), Is(Sum(Pts), "<", 3)>>)),
     Cmp(Lit(2), <<Than(">", Nest(Box, Count(Red)))>>),
     Cmp(Lit(1), <<Than("<", Nest(And(<<Red, Box>>), Sum(Pts)))>>)}

\* two nests compared, each nest on its own or both under one left side
Under(l, a, op, r, b) == Cmp(Nest(l, a), <<Than(op, Nest(r, b))>>)
Values ==
    {<<Count(Red), Sum(Pts)>>, <<Count(Red), Count(Blue)>>, <<Sum(Pts), Count(And(<<Red, High>>))>>,
     <<Sum(And(<<Red, Pts>>)), Count(High)>>, <<Sum(Pts), Sum(And(<<Red, Pts>>))>>,
     <<Count(Hue), Count(Red)>>}
NestsCompared ==
    {Under(l, v[1], op, l, v[2]) : l \in {Box, And(<<Red, Box>>), Nest(Box, Hue)}, v \in Values,
                                   op \in {">", "="}}
    \cup {Nest(l, Cmp(v[1], <<Than(op, v[2])>>)) :
             l \in {Box, And(<<Red, Box>>), Nest(Box, Hue)}, v \in Values, op \in {">", "="}}
    \cup {Under(Box, Count(Red), "<", r, Sum(Pts)) : r \in {Hue, And(<<Red, Box>>), Nest(Box, Hue)}}

V == Under(Box, Count(Red), "<", Box, Sum(Pts))
W == Under(Box, Sum(Pts), ">", Box, Sum(And(<<Red, Pts>>)))
BesideProjection(n) == Cmp(And(<<Diff(Box, Hue), Nest(Box, Count(Red))>>), <<n>>)
NestsCombined ==
    {And(<<V, A>>), And(<<V, B>>), And(<<V, W>>), And(<<W, A>>), And(<<Red, V>>), And(<<Red, W>>), Or(<<V, B>>),
     Or(<<W, V>>), Diff(Red, V), Diff(V, A), And(<<Red, V, A>>), And(<<V, C>>),
     Nest(Box, Cmp(Count(Red), <<Than("<", Sum(Pts)), Than(">", Count(Blue))>>)),
     Nest(Box, Cmp(Lit(0), <<Than("<", Count(Red)), Than("<", Sum(Pts))>>)),
     Nest(And(<<High, Box>>), Cmp(Lit(0), <<Than("<", Count(Red)), Than("<", Sum(Pts))>>)),
     Nest(Box, And(<<Cmp(Count(Red), <<Than("<", Sum(Pts))>>), Is(Sum(Pts), ">", 1)>>)),
     Nest(Nest(Box, Hue), And(<<Cmp(Count(Red), <<Than("<", Sum(Pts))>>), Is(Sum(Pts), ">", 1)>>)),
     BesideProjection(Than("<", Nest(Box, Sum(Pts)))), BesideProjection(Than(">", Lit(1)))}

SomeQueries ==
    ComparedNests \cup Sets \cup Projections \cup Combinations \cup NestsCompared
        \cup NestsCombined
=============================================================================
