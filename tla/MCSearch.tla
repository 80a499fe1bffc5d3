------------------------------ MODULE MCSearch ------------------------------
(***************************************************************************)
(* Instances of Search.                                                    *)
(***************************************************************************)
EXTENDS Search

Builtins == [j \in -9..-1 |-> "builtin"]
MCOriginOf == Builtins @@ [j \in 0..9 |-> "user"] @@ [j \in 10..19 |-> "file"]
                       @@ [j \in 20..29 |-> "plugin"]

Type(name, rank, id, origin) == [name |-> <<name>>, rank |-> rank, id |-> id, origin |-> origin]
MCRegistry == {Type("name", 10, -1, "builtin"), Type("size", 8, -2, "builtin"),
               Type("content", 4, -3, "builtin"), Type("filename", 2, -4, "builtin"),
               Type("rank", 0, -5, "builtin"), Type("item_kind", 5, -7, "builtin"),
               Type("removed_file_path", 0, -6, "builtin"),
               Type("stem", 0, NoId, "plugin")}

MCAlphabet == <<"", "0", "1", "2", "a", "b", "blue", "content", "crimson", "filename", "hue",
                "item_kind", "m", "m1", "name", "rank", "red", "removed_file_path", "size", "stem", "tag", "type">>

User(id, type, label) == [id |-> id, type |-> type, label |-> label]
TheDef(id, name, kind) == [id |-> id, name |-> name, kind |-> kind, rank |-> 0]
Index(files, names, removed, defs, user, ranks) ==
    [files |-> files, names |-> names, removed |-> removed, defs |-> defs,
     user |-> user, ranks |-> ranks]
NameIs(id, name) == [id |-> id, name |-> name]
Ranked(id, rank) == [id |-> id, rank |-> rank]

Two == (10 :> 0) @@ (11 :> 0)
Three == Two @@ (12 :> 0)
Files2 == {NameIs(10, "a"), NameIs(11, "b")}
Hues == {User(10, "hue", "red"), User(11, "hue", "blue")}
HueRed == <<"hue", "red">>

MCTables == {
    \* nothing but files
    Index(Two, Files2, {}, {}, {}, {}),
    \* tags nobody registered
    Index(Two, Files2, {}, {}, Hues, {Ranked(11, 2)}),
    \* a registered tag, with a tag of its own
    Index(Two, Files2, {}, {TheDef(1, HueRed, "tag")}, Hues \cup {User(1, "m", "m1")}, {}),
    \* the same with a name
    Index(Two, Files2, {}, {TheDef(1, HueRed, "tag")},
          Hues \cup {User(1, "m", "m1"), User(1, "name", "crimson")}, {}),
    \* registered types: the user's, a built-in one and a plugin's
    Index(Two, Files2, {}, {TheDef(2, <<"hue">>, "type"), TheDef(-2, <<"size">>, "type"),
                            TheDef(20, <<"stem">>, "type")},
          Hues \cup {User(2, "m", "m1"), User(-2, "m", "m1")}, {Ranked(2, 2), Ranked(2, 1)}),
    \* a removed file with tags and a rank, a file with two names and one of its own
    Index(Three, Files2 \cup {NameIs(11, "crimson"), NameIs(12, "m")}, {13}, {},
          Hues \cup {User(13, "hue", "red"), User(12, "name", "a")},
          {Ranked(13, 1), Ranked(12, 1)})}

Leaves == {Has("hue", NoText), Has("hue", <<"red">>), Has("m", <<"m1">>), Has("name", <<"a">>),
           Has("removed_file_path", NoText), ItemIs(10), OriginIs("system"),
           OriginIs("user"), OriginIs("plugin"),
           Def("tag", Glob(NoText)), Def("tag", Exact(HueRed)), Def("type", Glob(NoText)),
           Def("type", Exact(<<"hue">>)), Def("type", Exact(<<"size">>)),
           Def("type", Exact(<<"stem">>)), And(<<>>)}
Paired == Leaves \ {OriginIs("plugin"), Def("type", Exact(<<"stem">>)), ItemIs(10)}
Pairs == {And(<<p, q>>) : p, q \in Paired} \cup {Or(<<p, q>>) : p, q \in Paired}
         \cup {Minus(p, q) : p, q \in Paired}
Evals == {Eval(q) : q \in Leaves}
Deep == {And(<<Eval(Has("m", <<"m1">>)), Has("name", <<"a">>)>>),
         Eval(And(<<Def("tag", Glob(NoText)), Has("m", <<"m1">>)>>)),
         Eval(Eval(Has("m", <<"m1">>))),
         Or(<<Def("tag", Glob(<<"hue">>)), Eval(Def("type", Exact(<<"size">>)))>>),
         Minus(Eval(Def("type", Exact(<<"size">>))), Has("hue", <<"red">>))}
MCQueries == Leaves \cup Pairs \cup Evals \cup Deep

Search1(q, orders, n) == [q |-> q, orders |-> orders, n |-> n]
By(key, desc) == [key |-> key, desc |-> desc]
MCSearches == {Search1(q, <<>>, 2) : q \in MCQueries}
              \cup {Search1(q, o, n) : q \in Leaves \cup Evals \cup Deep, n \in {1, 3},
                       o \in {<<By("name", FALSE)>>, <<By("rank", FALSE), By("item_id", FALSE)>>,
                              <<By("hue", TRUE)>>}}
=============================================================================
