---------------------------- MODULE DatesProofs ----------------------------
(* Theorems about periods and patterns, for every calendar, every offset and
   every pair of moments at which clocks are changed.                      *)
EXTENDS Dates, TLAPS

\* Six operators share out the numbers that an interval which is not empty can be
\* compared with: each is before it, in it or behind it, and by <= and >= not
\* behind and not before (date_time_interval_condition_expr, and the same table
\* in range_op_condition and byte_size_range_condition).
THEOREM IntervalSharesOut ==
    ASSUME NEW x \in Int, NEW lo \in Int, NEW hi \in Int, lo <= hi
    PROVE  /\ InInterval("ne", x, lo, hi) <=> ~InInterval("eq", x, lo, hi)
           /\ InInterval("le", x, lo, hi) <=> ~InInterval("gt", x, lo, hi)
           /\ InInterval("ge", x, lo, hi) <=> ~InInterval("lt", x, lo, hi)
           /\ InInterval("ne", x, lo, hi) <=>
                  InInterval("lt", x, lo, hi) \/ InInterval("gt", x, lo, hi)
           /\ ~(InInterval("lt", x, lo, hi) /\ InInterval("gt", x, lo, hi))
  BY DEF InInterval

\* What clocks show is a number, one or none more than Base from the timestamp.
LEMMA LocalInt ==
    ASSUME NEW t \in Int
    PROVE  Local(t) \in Int /\ Local(t) \in {t + Base, t + Base + 1}
  BY ZoneAssumption DEF Local, Offset

\* Clocks are set back by one hour only: they never show an earlier hour later.
LEMMA LocalMonotone ==
    ASSUME NEW t \in Int, NEW u \in Int, t <= u
    PROVE  Local(t) <= Local(u)
  BY ZoneAssumption DEF Local, Offset

\* Instants(l) are all the timestamps at which clocks show l.
LEMMA InstantsAll ==
    ASSUME NEW l \in Int, NEW t \in Int
    PROVE  t \in Instants(l) <=> Local(t) = l
  BY ZoneAssumption DEF Instants, Local, Offset

\* The earliest of them is one of them.
LEMMA EarliestIs ==
    ASSUME NEW l \in Int, Instants(l) # {}
    PROVE  /\ Earliest(l) \in Int /\ Local(Earliest(l)) = l
           /\ \A u \in Instants(l) : Earliest(l) <= u
<1> DEFINE a == l - Base - 1
<1>1. a \in Int /\ l - Base = a + 1 /\ a + 1 \in Int
  BY ZoneAssumption
<1>2. Instants(l) \subseteq {a, a + 1} /\ Instants(l) \subseteq Int
  BY <1>1 DEF Instants
<1>3. \E t \in Instants(l) : \A u \in Instants(l) : t <= u
  <2>1. CASE a \in Instants(l)
    BY <1>1, <1>2, <2>1
  <2>2. CASE a \notin Instants(l)
    BY <1>1, <1>2, <2>2
  <2> QED BY <2>1, <2>2
<1>4. Earliest(l) \in Instants(l) /\ \A u \in Instants(l) : Earliest(l) <= u
  BY <1>3 DEF Earliest
<1> QED BY <1>2, <1>4, InstantsAll

\* A timestamp is before the earliest moment of lo exactly when clocks show an
\* hour before lo.
LEMMA BeforeFloor ==
    ASSUME NEW lo \in Int, Instants(lo) # {}, NEW t \in Int
    PROVE  t < Earliest(lo) <=> Local(t) < lo
<1> DEFINE e == Earliest(lo)
<1>1. e \in Int /\ Local(e) = lo /\ \A u \in Instants(lo) : e <= u
  BY EarliestIs
<1>2. Local(t) \in Int
  BY LocalInt
<1> HIDE DEF e
<1>3. CASE t < e
  <2>1. Local(t) <= lo
    BY <1>1, <1>3, LocalMonotone
  <2>2. Local(t) # lo
    BY <1>1, <1>3, InstantsAll
  <2> QED BY <1>2, <1>3, <2>1, <2>2 DEF e
<1>4. CASE e <= t
  <2>1. lo <= Local(t)
    BY <1>1, <1>4, LocalMonotone
  <2> QED BY <1>1, <1>2, <1>4, <2>1 DEF e
<1> QED BY <1>1, <1>3, <1>4

\* A timestamp is behind the earliest moment of hi exactly when clocks show an
\* hour behind hi, if they show hi only once.
LEMMA BehindCeiling ==
    ASSUME NEW hi \in Int, NEW once \in Int, Instants(hi) = {once}, NEW t \in Int
    PROVE  Earliest(hi) < t <=> hi < Local(t)
<1> DEFINE e == Earliest(hi)
<1>1. e \in Int /\ Local(e) = hi
  BY EarliestIs
<1>2. Local(t) \in Int
  BY LocalInt
<1>3. e = once
  BY <1>1, InstantsAll
<1> HIDE DEF e
<1>4. CASE e < t
  <2>1. hi <= Local(t)
    BY <1>1, <1>4, LocalMonotone
  <2>2. Local(t) # hi
    BY <1>1, <1>3, <1>4, InstantsAll
  <2> QED BY <1>2, <1>4, <2>1, <2>2 DEF e
<1>5. CASE t <= e
  <2>1. Local(t) <= hi
    BY <1>1, <1>5, LocalMonotone
  <2> QED BY <1>1, <1>2, <1>5, <2>1 DEF e
<1> QED BY <1>1, <1>4, <1>5

\* The timestamps that to_interval makes of the first and the last hour of a
\* period compare with a timestamp as the hours compare with what clocks showed
\* then: exact in summer and winter, whatever offset is in force when the search
\* is made.  The last hour must not be one that is shown twice.
THEOREM PeriodIsLocal ==
    ASSUME NEW w, Floor(w) \in Int, Ceiling(w) \in Int, HasInterval(w),
           NEW once \in Int, Instants(Ceiling(w)) = {once},
           NEW op \in BasicOp, NEW t \in Int
    PROVE  InInterval(op, t, Interval(w).start, Interval(w).end)
               <=> InInterval(op, Local(t), Floor(w), Ceiling(w))
<1> DEFINE s == Earliest(Floor(w))
           e == Earliest(Ceiling(w))
           lo == Floor(w)
           hi == Ceiling(w)
<1>1. Instants(lo) # {} /\ Instants(hi) # {}
  BY DEF HasInterval
<1>2. t < s <=> Local(t) < lo
  BY <1>1, BeforeFloor
<1>3. e < t <=> hi < Local(t)
  BY BehindCeiling
<1>4. s \in Int /\ e \in Int /\ Local(t) \in Int
  BY <1>1, EarliestIs, LocalInt
<1>5. Interval(w).start = s /\ Interval(w).end = e
  BY DEF Interval
<1> HIDE DEF s, e, lo, hi
<1>6. InInterval(op, t, s, e) <=> InInterval(op, Local(t), lo, hi)
  <2>1. s <= t <=> lo <= Local(t)
    BY <1>2, <1>4 DEF lo
  <2>2. t <= e <=> Local(t) <= hi
    BY <1>3, <1>4 DEF hi
  <2> QED BY <1>2, <1>3, <2>1, <2>2 DEF InInterval, BasicOp
<1> QED BY <1>5, <1>6 DEF s, e, lo, hi
=============================================================================
