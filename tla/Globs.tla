------------------------------- MODULE Globs -------------------------------
(* Globs as edit/glob_capture.rs reads them, and what their metacharacters
   capture.  A text is a string, which is a sequence of characters; characters
   are compared by their place in Ascii, the part of the character set that
   patterns and labels are written with here.                             *)
EXTENDS Naturals, Sequences, FiniteSetsExt, SequencesExt

Ascii == << "!", "*", "-", ".", "0", "1", "2", "3", "4", "5", "6", "7", "8",
            "9", "=", "?", "A", "E", "F", "K", "L", "R", "S", "T", "U", "X",
            "[", "\\", "]", "_", "a", "b", "c", "d", "e", "f", "i", "k", "l", "m",
            "n", "o", "p", "r", "s", "t", "u", "x", "y", "z" >>

Code == [c \in ToSet(Ascii) |-> CHOOSE i \in DOMAIN Ascii : Ascii[i] = c]

\* The i-th character of s, "" outside s; the characters from the i-th on.
At(s, i) == IF i \in 1..Len(s) THEN SubSeq(s, i, i) ELSE ""
From(s, i) == SubSeq(s, i, Len(s))
Spell(s) == {At(s, i) : i \in 1..Len(s)}

Between(lo, hi) ==
    {c \in ToSet(Ascii) : Code[lo] <= Code[c] /\ Code[c] <= Code[hi]}

(* ---- reading a pattern: Atom, lex, lex_class --------------------------- *)

\* An atom accepts the characters of set, or those outside it when neg;
\* "any" stands for a run of characters, every other kind for one of them.
Atom(kind, set, neg) == [kind |-> kind, set |-> set, neg |-> neg]
Ch(c)  == Atom("ch", {c}, FALSE)
AnyRun == Atom("any", {}, TRUE)
One    == Atom("one", {}, TRUE)
Class(set, neg) == Atom("class", set, neg)

IsMetachar(a) == a.kind # "ch"
Accepts(a, c) == (c \in a.set) # a.neg

\* The class that ends at a `]` after p[i], and the place behind it; none when
\* it is not closed or a range has no upper end.  A `]` in first place is a member.
RECURSIVE ClassFrom(_, _, _, _)
ClassFrom(p, i, set, first) ==
    LET dash == At(p, i + 1) = "-"
        high == At(p, i + 2)
    IN  CASE i > Len(p) -> {}
          [] At(p, i) = "]" /\ ~first -> {[set |-> set, next |-> i + 1]}
          [] OTHER ->
               CASE ~dash -> ClassFrom(p, i + 1, set \cup {At(p, i)}, FALSE)
                 [] dash /\ high \notin {"", "]"} ->
                      ClassFrom(p, i + 3, set \cup Between(At(p, i), high), FALSE)
                 [] OTHER -> {}

\* An unclosed `[` makes the rest of the pattern a class nothing is in.
RECURSIVE LexFrom(_, _)
LexFrom(p, i) ==
    LET c == At(p, i)
        next == At(p, i + 1)
        neg == next = "!"
        class == ClassFrom(p, IF neg THEN i + 2 ELSE i + 1, {}, TRUE)
    IN  CASE c = "" -> << >>
          [] c = "*" -> <<AnyRun>> \o LexFrom(p, i + 1)
          [] c = "?" -> <<One>> \o LexFrom(p, i + 1)
          [] c = "\\" /\ next # "" -> <<Ch(next)>> \o LexFrom(p, i + 2)
          [] c = "[" /\ class = {} -> <<Class({}, FALSE)>>
          [] c = "[" /\ class # {} ->
               LET k == CHOOSE k \in class : TRUE
               IN  <<Class(k.set, neg)>> \o LexFrom(p, k.next)
          [] OTHER -> <<Ch(c)>> \o LexFrom(p, i + 1)

Lex(p) == LexFrom(p, 1)

Metachars(p) == Len(SelectSeq(Lex(p), IsMetachar))

(* ---- matching with capture: glob_captures, match_atoms, bind_one ------- *)

\* A star takes the fewest characters it can.
\* Mutant: the most.
StarTakesMost(fits) == Max(fits)
StarTakes(fits) == Min(fits)

\* {<<c1, ..., ck>>}, what the k metacharacters stand for, or {} for no match.
RECURSIVE MatchAtoms(_, _)
MatchAtoms(atoms, s) ==
    IF atoms = << >> THEN IF s = "" THEN {<< >>} ELSE {}
    ELSE LET a == Head(atoms)
             rest(n) == MatchAtoms(Tail(atoms), From(s, n + 1))
             fits == {n \in 0..Len(s) : rest(n) # {}}
             bound(n) == IF IsMetachar(a) THEN <<SubSeq(s, 1, n)>> ELSE << >>
             with(n) == {bound(n) \o caps : caps \in rest(n)}
         IN  CASE a.kind = "any" /\ fits # {} -> with(StarTakes(fits))
               [] a.kind # "any" /\ s # "" /\ Accepts(a, At(s, 1)) -> with(1)
               [] OTHER -> {}

GlobCaptures(p, s) == MatchAtoms(Lex(p), s)

(* ---- matching alone ---------------------------------------------------- *)

\* Whether s matches p, the way an automaton reads it: the set of lengths of
\* the prefixes of s that the atoms read so far can stand for.  This is what
\* DuckDB's GLOB answers for the patterns used here.
Reach(from, a, s) ==
    IF a.kind = "any"
    THEN {n \in 0..Len(s) : \E m \in from : m <= n}
    ELSE {n \in 1..Len(s) : n - 1 \in from /\ Accepts(a, At(s, n))}

Meets(atoms, s) ==
    Len(s) \in FoldLeft(LAMBDA from, a : Reach(from, a, s), {0}, atoms)
Globbed(p, s) == Meets(Lex(p), s)

\* util.rs is_glob_pattern, is_full_match_glob
IsGlobPattern(s) == Spell(s) \cap {"*", "?", "["} # {}
IsFullMatchGlob(s) == Spell(s) = {"*"}

(* ---- escapes: unescape_glob_string, unescape_string -------------------- *)

GlobChars == {"*", "?", "[", "]"}

\* A backslash goes and the character behind it stays; before a character of
\* globs the backslash stays as well.
RECURSIVE Unescape(_)
Unescape(s) ==
    LET c == At(s, 1)
        next == At(s, 2)
    IN  CASE s = "" -> ""
          [] c = "\\" /\ next \in GlobChars -> c \o next \o Unescape(From(s, 3))
          [] c = "\\" /\ next \notin GlobChars \cup {""} -> next \o Unescape(From(s, 3))
          [] OTHER -> c \o Unescape(From(s, 2))

\* The reading of a value: a backslash before a character of globs goes.
RECURSIVE DropGlobEscapes(_)
DropGlobEscapes(s) ==
    CASE s = "" -> ""
      [] At(s, 1) = "\\" /\ At(s, 2) \in GlobChars -> At(s, 2) \o DropGlobEscapes(From(s, 3))
      [] OTHER -> At(s, 1) \o DropGlobEscapes(From(s, 2))

\* has_unescaped_metachar: a metacharacter no backslash stands before.
RECURSIVE HasUnescapedMetachar(_)
HasUnescapedMetachar(s) ==
    CASE s = "" -> FALSE
      [] At(s, 1) = "\\" -> HasUnescapedMetachar(From(s, 3))
      [] OTHER -> At(s, 1) \in GlobChars \/ HasUnescapedMetachar(From(s, 2))
=============================================================================
