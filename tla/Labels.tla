------------------------------- MODULE Labels ------------------------------
(* What a written label picks.  A term of a query names a type and a label, as
   a tag `ty:label`, as a comparison `ty: :op label` or with the sides swapped,
   `label :op ty:`.  The tag functions (tag.rs) read the label in their own
   way, the lens (lens_schema.rs) chooses the column and the condition, and a
   tag is picked when the condition is true of the row that stores it.     *)
EXTENDS Globs, Dates, TLC

CONSTANT K      \* the bytes of a kilobyte

(* ---- values: Bitical --------------------------------------------------- *)

\* A row keeps its label in the column of the label's type; the others are
\* NULL.  A double is counted in tenths, FALSE and TRUE are 0 and 1.
Bitical(col, s, n) == [col |-> col, s |-> s, n |-> n]
StrV(s)  == Bitical("str", s, 0)
IntV(n)  == Bitical("int", "", n)
DblV(n)  == Bitical("dbl", "", n)
BoolV(n) == Bitical("bool", "", n)

\* as_display_name: a double without a fraction is written without a point.
AsStr(v) ==
    CASE v.col = "str"  -> v.s
      [] v.col = "int"  -> ToString(v.n)
      [] v.col = "bool" -> IF v.n = 1 THEN "TRUE" ELSE "FALSE"
      [] v.col = "dbl"  -> ToString(v.n \div 10) \o
             (IF v.n % 10 = 0 THEN "" ELSE "." \o ToString(v.n % 10))

(* ---- literals: build_label, Bitical::parse, ByteSizeRange -------------- *)

\* A literal is the text written, in quotes or not, or a date.
Text(raw)   == [raw |-> raw, quoted |-> FALSE, date |-> NoDate]
Quoted(raw) == [Text(raw) EXCEPT !.quoted = TRUE]
DateOf(w)   == [Text("") EXCEPT !.date = w]
IsDateLit(lit) == lit.date # NoDate

Digits == {ToString(d) : d \in 0..9}
AllDigits(s) == s # "" /\ Spell(s) \subseteq Digits
Num(s) == FoldLeft(LAMBDA n, i : 10 * n + (CHOOSE d \in 0..9 : ToString(d) = At(s, i)),
                   0, [i \in 1..Len(s) |-> i])

\* split_once: the part of s before the first character in C, and the rest from
\* that character on.
Before(s, C) == SubSeq(s, 1, Min({i \in 1..Len(s) : At(s, i) \in C} \cup {Len(s) + 1}) - 1)
Onward(s, C) == From(s, Len(Before(s, C)) + 1)
Fraction(s) == From(Onward(s, {"."}), 2)
HasPoint(s) == "." \in Spell(s)

\* f64: digits, or digits on both sides of a point; one digit of fraction here.
IsDecimal(s) == AllDigits(Before(s, {"."})) /\ (HasPoint(s) => AllDigits(Fraction(s)))
Tenths(s) == 10 * Num(Before(s, {"."})) + (IF HasPoint(s) THEN Num(Fraction(s)) ELSE 0)

\* Bitical::parse
Parsed(s) ==
    CASE AllDigits(s) -> IntV(Num(s))
      [] IsDecimal(s) /\ HasPoint(s) -> DblV(Tenths(s))
      [] s = "true"  -> BoolV(1)
      [] s = "false" -> BoolV(0)
      [] OTHER -> StrV(s)

CeilDiv(a, b) == (a + b - 1) \div b

\* decimal_literal_band: the bytes from d to d + 1 tenths of a unit.
DecimalBand(d, unit) ==
    [lo |-> CeilDiv(d * unit, 10), hi |-> CeilDiv((d + 1) * unit, 10) - 1, unit |-> unit]

MaxBytes == 1000                      \* stands for i64::MAX

Bytes(lo, hi) == [lo |-> lo, hi |-> hi, unit |-> 0]

\* ByteSizeRange::parse: the bytes a size such as 1.5K, 1.*K, *.5K or *K stands
\* for, {} when s is not written as a size.  unit is 0 but for a band that
\* every unit repeats.
ByteSize(s) ==
    LET num == Before(s, {"B", "K"})
        name == Onward(s, {"B", "K"})
        unit == IF name = "K" THEN K ELSE 1
        whole == Before(num, {"."})
        tenth == Fraction(num)
    IN  CASE name \notin {"B", "K"} -> {}
          [] name \in {"B", "K"} /\ IsDecimal(num) ->
               LET bytes == (Tenths(num) * unit) \div 10 IN {Bytes(bytes, bytes)}
          [] name \in {"B", "K"} /\ num \in {"*", "*.*"} -> {Bytes(0, MaxBytes)}
          [] name \in {"B", "K"} /\ whole = "*" /\ AllDigits(tenth) ->
               {DecimalBand(Num(tenth), unit)}
          [] name \in {"B", "K"} /\ AllDigits(whole) /\ tenth = "*" ->
               {Bytes(Num(whole) * unit, (Num(whole) + 1) * unit - 1)}
          [] OTHER -> {}

The(S) == CHOOSE x \in S : TRUE

\* The value a label has as written: a number is an integer, all else is text.
Written(lit) == Unescape(lit.raw)
IsNumber(lit) == ~lit.quoted /\ AllDigits(lit.raw)
RawValue(lit) == IF IsNumber(lit) THEN IntV(Num(lit.raw)) ELSE StrV(Written(lit))

\* attach_formatted_node and coerce_plain_bitical: what is written without
\* quotes is taken for a plain value where the logical type allows it, unless it
\* is a size.
Logical(logical) ==
    CASE logical = "any"   -> {"str", "int", "dbl", "bool"}
      [] logical = "float" -> {"int", "dbl"}
      [] OTHER             -> {logical}
Coerced(lit, logical) ==
    LET v == Parsed(Written(lit))
    IN  IF ~lit.quoted /\ ByteSize(Written(lit)) = {} /\ v.col \in Logical(logical)
        THEN v ELSE RawValue(lit)

(* ---- conditions: Bitical::to_condition, build_column_condition --------- *)

\* Texts are ordered by their first different character.
TextLess(a, b) ==
    \E i \in 1..Min({Len(a) + 1, Len(b)}) :
                         /\ SubSeq(a, 1, i - 1) = SubSeq(b, 1, i - 1)
                         /\ i > Len(a) \/ Code[At(a, i)] < Code[At(b, i)]
CompareText(op, a, b) ==
    Compare(op, IF a = b THEN 0 ELSE IF TextLess(a, b) THEN -1 ELSE 1, 0)

Numeric == {"int", "dbl"}
InTenths(v) == IF v.col = "int" THEN 10 * v.n ELSE v.n

\* Whether the row of v is one for which `column op lab` is true; a column that
\* is NULL satisfies nothing.  Only an order looks at both columns of numbers.
\* A glob is a glob whatever the operator, and only "ne" negates it.
ColumnHolds(op, v, lab) ==
    CASE lab.col \in Numeric ->
           /\ v.col = lab.col \/ (op \in OrderOp /\ v.col \in Numeric)
           /\ Compare(op, InTenths(v), InTenths(lab))
      [] lab.col = "bool" -> v.col = "bool" /\ Compare(op, v.n, lab.n)
      [] lab.col = "str" /\ IsGlobPattern(lab.s) ->
           v.col = "str" /\ (Globbed(lab.s, v.s) = (op # "ne"))
      [] lab.col = "str" /\ ~IsGlobPattern(lab.s) ->
           v.col = "str" /\ CompareText(op, v.s, lab.s)

\* range_op_condition: the bounds an operator compares [lo, hi) by.
InHalfOpen(op, x, lo, hi) ==
    CASE op = "eq" -> lo <= x /\ x < hi   [] op = "ne" -> x < lo \/ hi <= x
      [] op = "gt" -> hi <= x             [] op = "ge" -> lo <= x
      [] op = "lt" -> x < lo              [] op = "le" -> x < hi

\* translate_double_decimal_glob: 2.* is [2, 3), and *.5 a band of fractions,
\* widened at both ends by a thousandth of its width.  Counted in ten-thousandths.
IsDecimalGlob(s) ==
    \/ AllDigits(Before(s, {"."})) /\ Fraction(s) = "*"
    \/ Before(s, {"."}) = "*" /\ AllDigits(Fraction(s))
InDecimalGlob(op, v, s) ==
    LET n == Num(Before(s, {"."}))
        d == Num(Fraction(s))
    IN  IF Fraction(s) = "*"
        THEN InHalfOpen(op, v.n, 10 * n, 10 * n + 10)
        ELSE InHalfOpen(op, 1000 * (v.n % 10), 1000 * d - 1, 1000 * (d + 1) + 1)

\* storage is the column the type is declared to use.
ColumnCondition(storage, op, v, lab) ==
    LET s == AsStr(lab)
    IN  CASE IsFullMatchGlob(s) /\ op = "eq" -> TRUE
          [] IsFullMatchGlob(s) /\ op = "ne" -> FALSE
          [] ~IsFullMatchGlob(s) /\ storage = "dbl" /\ IsGlobPattern(s) /\ IsDecimalGlob(s) ->
               v.col = "dbl" /\ InDecimalGlob(op, v, s)
          [] OTHER -> ColumnHolds(op, v, lab)

\* byte_size_range_condition: of a band, the remainder is compared.
InBytes(op, v, r) ==
    InInterval(op, IF r.unit = 0 THEN v.n ELSE v.n % r.unit, r.lo, r.hi)

(* ---- types: the tag functions and the lens ----------------------------- *)

\* The built-in types of the model; `score` is a type declared to hold doubles,
\* every other name, and a glob, is a type nothing is declared of.
Kind(ty) ==
    CASE ty \in {"size", "is_dir", "mtime", "extension"} -> ty
      [] ty = "score" -> "float"
      [] OTHER -> "any"

Flip(op) ==
    CASE op = "gt" -> "lt" [] op = "ge" -> "le" [] op = "lt" -> "gt" [] op = "le" -> "ge"
      [] OTHER -> op

\* A term of a query.
Term(form, ty, op, lit) == [form |-> form, ty |-> ty, op |-> op, lit |-> lit]

\* ExtensionFn: lower case, without leading points, unless it has no letter.
Capitals == <<"A", "E", "F", "K", "L", "R", "S", "T", "U", "X">>
Smalls   == <<"a", "e", "f", "k", "l", "r", "s", "t", "u", "x">>
Lower(c) == IF c \in ToSet(Capitals) THEN Smalls[CHOOSE i \in DOMAIN Capitals : Capitals[i] = c] ELSE c
RECURSIVE LowerCase(_)
LowerCase(s) == IF s = "" THEN "" ELSE Lower(At(s, 1)) \o LowerCase(From(s, 2))
RECURSIVE TrimPoints(_)
TrimPoints(s) == IF At(s, 1) = "." THEN TrimPoints(From(s, 2)) ELSE s
Alphanumeric == ToSet(Ascii) \ {"!", "*", "-", ".", "=", "?", "[", "\\", "]", "_"}
ExtensionText(s) ==
    LET t == TrimPoints(LowerCase(s))
    IN  IF Spell(t) \cap Alphanumeric = {} /\ Spell(t) \ {"_"} # {} THEN s ELSE t

\* SizeFn: an integer, a size, or a star; the rest is refused.
SizeRange(lit) ==
    LET s == AsStr(RawValue(lit))
    IN  IF AllDigits(s) THEN {Bytes(Num(s), Num(s))} ELSE ByteSize(s)

\* The interpretation of a term fails.
Refused(q) ==
    LET s == AsStr(RawValue(q.lit))
        ordered == q.op \in OrderOp /\ IsGlobPattern(s) /\ ~IsFullMatchGlob(s)
    IN  CASE Kind(q.ty) = "size" ->
               \/ SizeRange(q.lit) = {} /\ ~IsFullMatchGlob(s)
               \/ q.form = "flip" /\ \E r \in SizeRange(q.lit) : r.lo # r.hi
          [] Kind(q.ty) = "mtime" ->
               /\ ~(~IsDateLit(q.lit) /\ IsFullMatchGlob(s))
               /\ ~HasInterval(q.lit.date)
               /\ q.form = "flip" \/ ~IsSlots(q.lit.date)
          [] Kind(q.ty) = "extension" -> ordered
          [] OTHER -> FALSE

\* IsDirFn: a glob is asked of the words true and false, but in a swapped term.
Words == [n \in {0, 1} |-> IF n = 1 THEN "true" ELSE "false"]
\* Mutant: a swapped term takes a word for a value, which a comparison does not.
IsDirHoldsWordFlipped(q, v) ==
    LET lab == IF q.form # "cmp" THEN Coerced(q.lit, "bool") ELSE RawValue(q.lit)
        s == AsStr(lab)
        glob == IsGlobPattern(s) /\ q.form # "flip"
    IN  CASE glob /\ q.op \in {"eq", "ne"} -> Globbed(s, Words[v.n]) = (q.op = "eq")
          [] glob /\ IsFullMatchGlob(s) /\ q.op \in OrderOp -> q.op \in {"ge", "le"}
          [] OTHER -> ColumnCondition("bool", q.op, v, lab)
IsDirHolds(q, v) ==
    LET lab == IF q.form = "tag" THEN Coerced(q.lit, "bool") ELSE RawValue(q.lit)
        s == AsStr(lab)
        glob == IsGlobPattern(s) /\ q.form # "flip"
    IN  CASE glob /\ q.op \in {"eq", "ne"} -> Globbed(s, Words[v.n]) = (q.op = "eq")
          [] glob /\ IsFullMatchGlob(s) /\ q.op \in OrderOp -> q.op \in {"ge", "le"}
          [] OTHER -> ColumnCondition("bool", q.op, v, lab)

\* Whether the row of a tag of a type that q names, with the value v, satisfies
\* the term.  A swapped term compares a single value with the column.
Holds(q, v, now) ==
    LET lab == StrV(Written(q.lit))
        op == IF q.form = "flip" THEN Flip(q.op) ELSE q.op
    IN  CASE Kind(q.ty) = "any"   -> ColumnCondition("str", op, v, Coerced(q.lit, "any"))
          [] Kind(q.ty) = "float" -> ColumnCondition("dbl", op, v, Coerced(q.lit, "float"))
          [] Kind(q.ty) = "extension" ->
               ColumnCondition("str", op, v, StrV(ExtensionText(lab.s)))
          [] Kind(q.ty) = "is_dir" -> IsDirHolds([q EXCEPT !.op = op], v)
          [] Kind(q.ty) = "size" /\ SizeRange(q.lit) = {} -> ColumnCondition("int", op, v, lab)
          [] Kind(q.ty) = "size" /\ SizeRange(q.lit) # {} ->
               LET r == The(SizeRange(q.lit))
               IN  InBytes(op, v, IF q.form = "flip" THEN Bytes(r.lo, r.lo) ELSE r)
          [] Kind(q.ty) = "mtime" /\ ~IsDateLit(q.lit) -> ColumnCondition("int", op, v, lab)
          [] Kind(q.ty) = "mtime" /\ IsDateLit(q.lit) ->
               IF q.form = "flip"
               THEN Compare(op, v.n, Interval(q.lit.date).start)
               ELSE InDate(op, v.n, q.lit.date, now)

\* check_tag_match: a type is compared, or globbed when it is a pattern.
TypeFits(pattern, ty) ==
    IF IsGlobPattern(pattern) THEN Globbed(pattern, ty) ELSE ty = pattern
=============================================================================
