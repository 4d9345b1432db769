------------------------------- MODULE Calendar -------------------------------
(***************************************************************************)
(* Dates as Go's time.Time.AddDate computes with them, for the schedule of *)
(* recurring expenses.  Times of day and zones are left out: the server    *)
(* stores UTC.                                                             *)
(***************************************************************************)
EXTENDS Integers

Leap(y) == (y % 4 = 0 /\ y % 100 # 0) \/ y % 400 = 0

MonthLength(y, m) ==
    CASE m \in {4, 6, 9, 11} -> 30
      [] m = 2               -> IF Leap(y) THEN 29 ELSE 28
      [] OTHER               -> 31

Date(y, m, d) == [year |-> y, month |-> m, day |-> d]

Dates == {t \in [year : Nat, month : 1..12, day : 1..31] :
              t.day <= MonthLength(t.year, t.month)}

Before(s, t) ==
    \/ s.year < t.year
    \/ s.year = t.year /\ s.month < t.month
    \/ s.year = t.year /\ s.month = t.month /\ s.day < t.day

\* The date with the days that its month does not have carried into the next one.
\* One carry is enough: at most seven days are ever added.
Carried(y, m, d) ==
    IF d <= MonthLength(y, m) THEN Date(y, m, d)
    ELSE IF m = 12 THEN Date(y + 1, 1, d - 31)
    ELSE Date(y, m + 1, d - MonthLength(y, m))

\* time.Time.AddDate, for at most one month.
AddDate(t, years, months, days) ==
    LET m == t.month + months
        year == t.year + years + (IF m > 12 THEN 1 ELSE 0)
    IN  Carried(year, IF m > 12 THEN m - 12 ELSE m, t.day + days)

----------------------------------------------------------------------------
\* A second way to look at dates, to check the first against.

\* Days since the beginning of the calendar.
DayNumber(t) ==
    LET before == <<0, 31, 59, 90, 120, 151, 181, 212, 243, 273, 304, 334>>
        past == t.year - 1
    IN  365 * past + past \div 4 - past \div 100 + past \div 400 + before[t.month]
            + (IF t.month > 2 /\ Leap(t.year) THEN 1 ELSE 0) + t.day

MonthNumber(t) == 12 * t.year + t.month
=============================================================================
