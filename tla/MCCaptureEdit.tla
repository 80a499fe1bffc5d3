--------------------------- MODULE MCCaptureEdit ---------------------------
(* Instances of CaptureEdit for TLC. *)
EXTENDS CaptureEdit

\* A year has a month of three days and one of two, a day four hours.  The
\* clock has no first hour of 1-1-3 and shows the last one of 1-2-1 twice.
ShortMonths == <<3, 2>>

Tag(ty, v) == [ty |-> ty, v |-> v]
\* what every file has; directories have no extension
File(size, mtime, ext) ==
    {Tag("size", IntV(size)), Tag("mtime", IntV(mtime)), Tag("is_dir", BoolV(0)),
     Tag("extension", StrV(ext))}
Directory(mtime) ==
    {Tag("size", IntV(0)), Tag("mtime", IntV(mtime)), Tag("is_dir", BoolV(1))}
Cats(vs) == {Tag("cat", v) : v \in vs}
Score(n) == {Tag("score", DblV(n))}
ItemOf(tags, rank) == [tags |-> tags, rank |-> rank]

SomeItems ==
    {ItemOf(File(4, 6, "tar") \cup Cats({StrV("a*b"), StrV("ab")}) \cup Score(25), 0),
     ItemOf(File(5, 7, "x") \cup Cats({StrV("aab"), StrV("5"), IntV(5)}) \cup Score(26), 5),
     ItemOf(File(6, 11, "7") \cup Cats({StrV("2.b"), DblV(25), DblV(20), BoolV(1)}) \cup Score(20), 2),
     ItemOf(File(7, 13, "--") \cup Cats({StrV("true"), StrV("aab=b")}), 0),
     ItemOf(File(8, 14, "tar") \cup Cats({StrV("a\\b"), IntV(7)}) \cup {Tag("cab", StrV("b"))}, 0),
     ItemOf(File(42, 16, "x") \cup Cats({StrV("a]b"), StrV("")}), 0),
     ItemOf(File(0, 19, "X-") \cup Cats({StrV("axb")}), 0),
     ItemOf(Directory(34), 7)}

\* terms that only pick, by every operator and from both sides
Tagged(ty, lits) == {Term("tag", ty, "eq", lit) : lit \in lits}
Compared(ty, lits) == {Term(form, ty, op, lit) : form \in {"cmp", "flip"}, op \in BasicOp, lit \in lits}
Asked(ty, lits) == Tagged(ty, lits) \cup Compared(ty, lits)

Texts == {Text(s) : s \in {"*", "a*b", "a?b", "[!b]*b", "a\\*b", "2.*", "*.5", "5", "2.5", "true", "t*"}}
         \cup {Quoted("5"), Quoted("a*b")}
MoreTexts == {Text(s) : s \in {"*a*b", "*=*", "a[a-c]b", "[]]b", "[a", "a[]]b", "a\\\\b", "**", "*\\*b", "*\\\\b", "a[!a]*"}}
Sizes == {Text(s) : s \in {"5", "1K", "1.5K", "1.*K", "*.5K", "*K", "*", "5B", "k"}}
Exts == {Text(s) : s \in {"TAR", "t?r", "T*", ".tar", "x", "*", "7", "--"}}
Dirs == {Text(s) : s \in {"true", "f*", "F*", "TRUE", "*", "false"}}
Scores == {Text(s) : s \in {"2.5", "2.*", "*.5", "2", "*", "2.?"}}

On(y, m, d, h) == DateOf(<<y, m, d, h>>)
Periods == {On(1, Absent, Absent, Absent), On(1, 1, Absent, Absent), On(1, 1, 3, Absent),
            On(1, 2, Absent, Absent), On(1, 2, 1, Absent), On(1, 1, 2, Absent), On(1, 2, 2, Absent), On(1, 3, Absent, Absent)}
Patterns == {On(Free, 1, Absent, Absent), On(1, Free, 2, Absent), On(Free, Free, Free, 0),
             On(1, 2, Free, 3), On(1, 1, Free, Absent)}

Single ==
    Asked("cat", Texts) \cup Tagged("cat", MoreTexts) \cup Tagged("c*", Texts) \cup Asked("size", Sizes)
    \cup Asked("extension", Exts) \cup Asked("is_dir", Dirs) \cup Asked("score", Scores)
    \cup Asked("mtime", Periods \cup Patterns \cup {Text("*")})
    \cup Tagged("label", {Text("a*b")}) \cup Tagged("rank", {Text("*")})

Query(join, terms) == [join |-> join, terms |-> terms]
T(ty, s) == Term("tag", ty, "eq", Text(s))
Days == Term("tag", "mtime", "eq", On(1, Free, Free, Absent))
Pairs ==
    {Query(j, p) : j \in {"and", "or"},
                   p \in {<<T("c*", "a*b"), T("cat", "*=*")>>, <<T("cat", "a*b"), Days>>,
                          <<T("score", "2.?"), T("c?t", "*")>>, <<T("cat", "a?b"), T("cat", "*b")>>}}
SomeQueries == {Query("and", <<q>>) : q \in Single} \cup Pairs

To(ty, label) == Node(ty, label)
Ty == <<PartText("proj")>>
SomeEdits ==
    {<<To(Ty, <<PartRef(1)>>)>>,
     <<To(Ty, <<PartRef(2), PartText("-"), PartRef(1)>>), To(<<PartRef(1)>>, <<PartRef(2)>>)>>,
     <<To(Ty, <<PartRef(1)>>), To(Ty, <<PartRef(3)>>), To(Ty, <<PartText("x")>>)>>,
     <<To(<<PartText("rank")>>, <<PartText("1")>>), To(<<PartText("rank")>>, <<PartText("2")>>)>>,
     <<To(<<PartText("size")>>, <<PartRef(1)>>)>>,
     <<To(Ty, <<PartText("a*")>>)>>}
=============================================================================
