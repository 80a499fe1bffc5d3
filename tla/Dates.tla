------------------------------- MODULE Dates -------------------------------
(* The dates of a query: periods such as 2026-02, patterns such as *-02-01,
   and the timestamps they pick.  Time is counted in hours, the finest field of
   the model; a local clock runs Base hours before UTC and one more from the
   timestamp Spring up to Fall.                                            *)
EXTENDS Integers, Sequences

CONSTANTS
    MonthDays,    \* the days of each month of a year
    DayHours,     \* the hours of a day
    Base,         \* the offset of local time outside daylight saving
    Spring, Fall  \* the timestamps between which clocks are one hour ahead

ASSUME CalendarAssumption ==
    /\ MonthDays \in Seq(Nat \ {0}) /\ MonthDays # << >>
    /\ DayHours \in Nat \ {0}
ASSUME ZoneAssumption ==
    Base \in Int /\ Spring \in Int /\ Fall \in Int /\ Spring < Fall

(* ---- the calendar: chrono's NaiveDate and Local ------------------------ *)

Field == 1..4                       \* DateField: year, month, day, hour
Year == 1
Month == 2
Day == 3
Hour == 4

DaysBefore[m \in 1..(Len(MonthDays) + 1)] ==
    IF m = 1 THEN 0 ELSE DaysBefore[m - 1] + MonthDays[m - 1]
YearDays == DaysBefore[Len(MonthDays) + 1]

IsDate(y, m, d) == m \in DOMAIN MonthDays /\ d \in 1..MonthDays[m]

\* The local hour h of a date, counted from the first hour of year 1.
LocalHour(y, m, d, h) ==
    ((y - 1) * YearDays + DaysBefore[m] + d - 1) * DayHours + h

\* local_calendar_fields: the fields of a local hour.
Civil(l) ==
    LET days == l \div DayHours
        day == days % YearDays
        m == CHOOSE m \in DOMAIN MonthDays :
                 DaysBefore[m] <= day /\ day < DaysBefore[m + 1]
    IN  <<days \div YearDays + 1, m, day - DaysBefore[m] + 1, l % DayHours>>

Offset(t) == Base + (IF Spring <= t /\ t < Fall THEN 1 ELSE 0)
Local(t) == t + Offset(t)

\* The timestamps at which clocks show l, and from_local_datetime(l).earliest().
Instants(l) == {t \in {l - Base - 1, l - Base} : Local(t) = l}
IsEarliest(t, l) == t \in Instants(l) /\ \A u \in Instants(l) : t <= u
Earliest(l) == CHOOSE t \in Instants(l) : \A u \in Instants(l) : t <= u

(* ---- what is written: DateTime, DateSlot, DateTimeRange ---------------- *)

\* A written date has a value, a star (Free) or nothing (Absent) in each field.
Free == -1
Absent == -2
NoDate == [f \in Field |-> Absent]
IsSlots(w) == \E f \in Field : w[f] = Free
\* parse_structured and parse_mtime_bare_year: the leading fields, to the day
\* at most; a month or a day that the calendar lacks makes no period.
IsPeriod(w) ==
    /\ w[Year] >= 0 /\ w[Hour] = Absent /\ ~IsSlots(w)
    /\ w[Month] = Absent => w[Day] = Absent
    /\ w[Month] # Absent =>
         IsDate(w[Year], w[Month], IF w[Day] = Absent THEN 1 ELSE w[Day])

\* floor and ceiling: the first and the last local hour of a period.
Floor(w) ==
    LET first(f) == IF w[f] = Absent THEN 1 ELSE w[f]
    IN  LocalHour(w[Year], first(Month), first(Day), 0)
\* Mutant: every month is as long as the first.
CeilingFirstMonth(w) ==
    LET m == IF w[Month] = Absent THEN Len(MonthDays) ELSE w[Month]
        d == IF w[Day] = Absent THEN MonthDays[1] ELSE w[Day]
    IN  LocalHour(w[Year], m, d, DayHours - 1)
Ceiling(w) ==
    LET m == IF w[Month] = Absent THEN Len(MonthDays) ELSE w[Month]
        d == IF w[Day] = Absent THEN MonthDays[m] ELSE w[Day]
    IN  LocalHour(w[Year], m, d, DayHours - 1)

\* to_interval: the timestamps of the two; there is none when the clocks never
\* show one of them.
HasInterval(w) == IsPeriod(w) /\ Instants(Floor(w)) # {} /\ Instants(Ceiling(w)) # {}
Interval(w) == [start |-> Earliest(Floor(w)), end |-> Earliest(Ceiling(w))]

(* ---- what they pick: date_time_condition_expr -------------------------- *)

BasicOp == {"eq", "ne", "gt", "ge", "lt", "le"}
OrderOp == {"gt", "ge", "lt", "le"}

Compare(op, x, y) ==
    CASE op = "eq" -> x = y   [] op = "ne" -> x # y
      [] op = "gt" -> x > y   [] op = "ge" -> x >= y
      [] op = "lt" -> x < y   [] op = "le" -> x <= y

\* Mutant: at most the interval ends where the interval starts.
InIntervalAtStart(op, x, lo, hi) ==
    CASE op = "eq" -> lo <= x /\ x <= hi   [] op = "ne" -> x < lo \/ hi < x
      [] op = "gt" -> hi < x               [] op = "ge" -> lo <= x
      [] op = "lt" -> x < lo               [] op = "le" -> x <= lo

\* The bounds an operator compares a closed interval by; bytes use them too.
InInterval(op, x, lo, hi) ==
    CASE op = "eq" -> lo <= x /\ x <= hi   [] op = "ne" -> x < lo \/ hi < x
      [] op = "gt" -> hi < x               [] op = "ge" -> lo <= x
      [] op = "lt" -> x < lo               [] op = "le" -> x <= hi

\* Two dates agree in the fields of F; c comes first by op in the first field
\* of F in which they differ.
SameIn(F, c, w) == \A f \in F : c[f] = w[f]
OrderedIn(F, op, c, w) ==
    \E f \in F : SameIn({g \in F : g < f}, c, w) /\ Compare(op, c[f], w[f])

\* A pattern's fields in front of its first star, and the others with a value.
Given(w) == {f \in Field : w[f] >= 0}
Leading(w) == {f \in Field : \A g \in Field : g <= f => g \in Given(w)}
Ranked(w) == Given(w) \ Leading(w)

InSlots(op, c, w) ==
    CASE op = "eq" -> SameIn(Given(w), c, w)
      [] op = "ne" -> ~SameIn(Given(w), c, w)
      [] op \in {"gt", "lt"} ->
           SameIn(Leading(w), c, w) /\ OrderedIn(Ranked(w), op, c, w)
      [] op = "ge" ->
           /\ SameIn(Leading(w), c, w)
           /\ OrderedIn(Ranked(w), "gt", c, w) \/ SameIn(Ranked(w), c, w)
      [] op = "le" ->
           /\ SameIn(Leading(w), c, w)
           /\ OrderedIn(Ranked(w), "lt", c, w) \/ SameIn(Ranked(w), c, w)

\* Every timestamp is read with the one offset of the time of the search.
InDate(op, t, w, now) ==
    IF IsSlots(w) THEN InSlots(op, Civil(t + Offset(now)), w)
    ELSE InInterval(op, t, Interval(w).start, Interval(w).end)
=============================================================================
