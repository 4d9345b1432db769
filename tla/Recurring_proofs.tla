-------------------------- MODULE Recurring_proofs --------------------------
(***************************************************************************)
(* Proofs about Recurring: for any number of templates and of requests at  *)
(* a time, whatever the dates and the frequencies.                         *)
(***************************************************************************)
EXTENDS Recurring, SequenceTheorems, TLAPS

\* AddDate yields a date, and calculateNextOccurrence a later one.
LEMMA NextIsLater ==
    ASSUME NEW d \in Dates, NEW f \in {"daily", "weekly", "monthly", "yearly"}
    PROVE  /\ calculateNextOccurrence(d, f) \in Dates
           /\ Before(d, calculateNextOccurrence(d, f))
<1>2. \A y, m : MonthLength(y, m) \in 28..31 /\ (m \in {1, 12} => MonthLength(y, m) = 31)
  BY DEF MonthLength
<1>3. /\ d = Date(d.year, d.month, d.day)
      /\ d.year \in Nat /\ d.month \in 1..12 /\ d.day \in 1..31
      /\ d.day <= MonthLength(d.year, d.month)
  BY DEF Dates, Date
<1>4. ASSUME NEW y \in Nat, NEW m \in 1..12, NEW k \in 1..38
      PROVE  Carried(y, m, k) \in Dates
  <2>1. CASE k <= MonthLength(y, m)
    BY <2>1, <1>2 DEF Carried, Dates, Date
  <2>2. CASE ~ (k <= MonthLength(y, m)) /\ m = 12
    BY <2>2, <1>2 DEF Carried, Dates, Date
  <2>3. CASE ~ (k <= MonthLength(y, m)) /\ m # 12
    <3>1. k - MonthLength(y, m) \in 1..10
      BY <2>3, <1>2
    <3> QED
      BY <3>1, <2>3, <1>2 DEF Carried, Dates, Date
  <2> QED
    BY <2>1, <2>2, <2>3
<1>5. ASSUME NEW k \in 1..7
      PROVE  AddDate(d, 0, 0, k) \in Dates /\ Before(d, AddDate(d, 0, 0, k))
  <2>1. AddDate(d, 0, 0, k) = Carried(d.year, d.month, d.day + k)
    BY <1>3 DEF AddDate
  <2>2. d.day + k \in 1..38 /\ d.day + k > d.day
    BY <1>3
  <2>3. Before(d, Carried(d.year, d.month, d.day + k))
    BY <1>2, <1>3, <2>2 DEF Carried, Before, Date
  <2> QED
    BY <1>3, <1>4, <2>1, <2>2, <2>3
<1>6. AddDate(d, 1, 0, 0) \in Dates /\ Before(d, AddDate(d, 1, 0, 0))
  <2>1. AddDate(d, 1, 0, 0) = Carried(d.year + 1, d.month, d.day)
    BY <1>3 DEF AddDate
  <2>2. Before(d, Carried(d.year + 1, d.month, d.day))
    BY <1>2, <1>3 DEF Carried, Before, Date
  <2> QED
    BY <1>3, <1>4, <2>1, <2>2
<1>7. AddDate(d, 0, 1, 0) \in Dates /\ Before(d, AddDate(d, 0, 1, 0))
  <2>1. CASE d.month = 12
    <3>1. AddDate(d, 0, 1, 0) = Carried(d.year + 1, 1, d.day)
      BY <2>1, <1>3 DEF AddDate
    <3>2. Before(d, Carried(d.year + 1, 1, d.day))
      BY <2>1, <1>2, <1>3 DEF Carried, Before, Date
    <3>3. Carried(d.year + 1, 1, d.day) \in Dates
      BY <1>3, <1>4
    <3> QED
      BY <3>1, <3>2, <3>3
  <2>2. CASE d.month # 12
    <3>1. AddDate(d, 0, 1, 0) = Carried(d.year, d.month + 1, d.day)
      BY <2>2, <1>3 DEF AddDate
    <3>2. Before(d, Carried(d.year, d.month + 1, d.day))
      BY <2>2, <1>2, <1>3 DEF Carried, Before, Date
    <3>3. Carried(d.year, d.month + 1, d.day) \in Dates
      BY <2>2, <1>3, <1>4
    <3> QED
      BY <3>1, <3>2, <3>3
  <2> QED
    BY <2>1, <2>2
<1> QED
  BY <1>5, <1>6, <1>7 DEF calculateNextOccurrence

\* The days before a year, and before a month of it.
YearStart(y) == 365 * (y - 1) + (y - 1) \div 4 - (y - 1) \div 100 + (y - 1) \div 400

\* From one year to the next it is the length of the year.
LEMMA YearsAddUp ==
    ASSUME NEW y \in Nat
    PROVE  /\ YearStart(y) \in Int
           /\ YearStart(y + 1) = YearStart(y) + (IF Leap(y) THEN 366 ELSE 365)
<1>1. /\ y \div 4 = (y - 1) \div 4 + (IF y % 4 = 0 THEN 1 ELSE 0)
      /\ (y - 1) \div 4 \in Int
  OBVIOUS
<1>2. /\ y \div 100 = (y - 1) \div 100 + (IF y % 100 = 0 THEN 1 ELSE 0)
      /\ (y - 1) \div 100 \in Int
  OBVIOUS
<1>3. /\ y \div 400 = (y - 1) \div 400 + (IF y % 400 = 0 THEN 1 ELSE 0)
      /\ (y - 1) \div 400 \in Int
  OBVIOUS
<1>4. /\ y % 400 = 0 => y % 100 = 0
      /\ y % 100 = 0 => y % 4 = 0
  OBVIOUS
<1>5. (y + 1) - 1 = y
  OBVIOUS
<1>6. Leap(y) <=> (y % 4 = 0 /\ y % 100 # 0) \/ y % 400 = 0
  BY DEF Leap
<1> HIDE DEF Leap
<1> QED
  BY <1>1, <1>2, <1>3, <1>4, <1>5, <1>6 DEF YearStart

\* The days before a month of the year.
MonthStart(y, m) ==
    <<0, 31, 59, 90, 120, 151, 181, 212, 243, 273, 304, 334>>[m]
        + (IF m > 2 /\ Leap(y) THEN 1 ELSE 0)

\* From one month to the next it is the length of the month, and December ends the year.
LEMMA MonthsAddUp ==
    ASSUME NEW y, NEW m \in 1..12
    PROVE  /\ MonthStart(y, m) \in Nat
           /\ m # 12 => MonthStart(y, m + 1) = MonthStart(y, m) + MonthLength(y, m)
           /\ MonthStart(y, 12) + 31 = IF Leap(y) THEN 366 ELSE 365
           /\ MonthStart(y, 1) = 0
           /\ m \in {1, 2} => MonthStart(y, m) = 31 * (m - 1)
           /\ MonthLength(y, 12) = 31
<1> DEFINE before == <<0, 31, 59, 90, 120, 151, 181, 212, 243, 273, 304, 334>>
<1>1. /\ before[1] = 0 /\ before[2] = 31 /\ before[3] = 59 /\ before[4] = 90
      /\ before[5] = 120 /\ before[6] = 151 /\ before[7] = 181 /\ before[8] = 212
      /\ before[9] = 243 /\ before[10] = 273 /\ before[11] = 304 /\ before[12] = 334
  OBVIOUS
<1>2. m \in {1, 2, 3, 4, 5, 6, 7, 8, 9, 10, 11, 12}
  OBVIOUS
<1>3. \A k : MonthStart(y, k) = before[k] + (IF k > 2 /\ Leap(y) THEN 1 ELSE 0)
  BY DEF MonthStart
<1> HIDE DEF before
<1>4. CASE Leap(y)
  BY <1>1, <1>2, <1>3, <1>4 DEF MonthLength
<1>5. CASE ~ Leap(y)
  BY <1>1, <1>2, <1>3, <1>5 DEF MonthLength
<1> QED
  BY <1>4, <1>5

\* calculateNextOccurrence goes on by as many days as the frequency stands for, over the
\* ends of months and years and in leap years.
LEMMA NextIsWellSpaced ==
    ASSUME NEW d \in Dates, NEW f \in {"daily", "weekly", "monthly", "yearly"}
    PROVE  DayNumber(calculateNextOccurrence(d, f)) - DayNumber(d) \in Gap(f)
<1>1. /\ d = Date(d.year, d.month, d.day)
      /\ d.year \in Nat /\ d.month \in 1..12 /\ d.day \in 1..31
      /\ d.day <= MonthLength(d.year, d.month)
  BY DEF Dates, Date
<1>2. \A y, m : MonthLength(y, m) \in 28..31
  BY DEF MonthLength
\* The two lemmas once more, piece by piece.
<1>y. \A u \in Nat : YearStart(u) \in Int
  BY YearsAddUp
<1>z. \A u \in Nat : YearStart(u + 1) = YearStart(u) + (IF Leap(u) THEN 366 ELSE 365)
  BY YearsAddUp
<1>m. \A u : \A v \in 1..12 : MonthStart(u, v) \in Nat
  BY MonthsAddUp
<1>n. \A u : \A v \in 1..11 : MonthStart(u, v + 1) = MonthStart(u, v) + MonthLength(u, v)
  BY MonthsAddUp
<1>e. \A u : MonthStart(u, 12) + 31 = IF Leap(u) THEN 366 ELSE 365
  BY MonthsAddUp
<1>f. \A u : MonthStart(u, 1) = 0
  BY MonthsAddUp
<1>g. \A u : MonthLength(u, 12) = 31
  BY MonthsAddUp
<1>3. ASSUME NEW y \in Nat, NEW m \in 1..12, NEW k \in Int
      PROVE  DayNumber(Date(y, m, k)) = YearStart(y) + MonthStart(y, m) + k
  <2>1. PICK a, b : a = YearStart(y) /\ b = MonthStart(y, m)
    OBVIOUS
  <2>2. a \in Int /\ b \in Int
    BY <2>1, <1>y, <1>m
  <2>3. Date(y, m, k).year = y /\ Date(y, m, k).month = m /\ Date(y, m, k).day = k
    BY DEF Date
  <2>4. DayNumber(Date(y, m, k)) = a + b + k
    BY <2>1, <2>2, <2>3 DEF DayNumber, YearStart, MonthStart
  <2> QED
    BY <2>1, <2>4
\* A day counted on beyond the end of its month is as far away as it says.
<1>4. ASSUME NEW y \in Nat, NEW m \in 1..12, NEW k \in 1..38
      PROVE  DayNumber(Carried(y, m, k)) = YearStart(y) + MonthStart(y, m) + k
  <2>0. PICK a, b, n : a = YearStart(y) /\ b = MonthStart(y, m) /\ n = MonthLength(y, m)
    OBVIOUS
  <2>1. a \in Int /\ b \in Int /\ n \in 28..31
    BY <2>0, <1>2, <1>y, <1>m
  <2>2. CASE k <= n
    BY <2>0, <2>2, <1>3 DEF Carried
  <2>3. CASE ~ (k <= n) /\ m = 12
    <3>1. Carried(y, m, k) = Date(y + 1, 1, k - 31)
      BY <2>0, <2>3 DEF Carried
    <3>2. DayNumber(Date(y + 1, 1, k - 31)) = YearStart(y + 1) + MonthStart(y + 1, 1) + (k - 31)
      BY <1>3
    <3>3. YearStart(y + 1) = a + (b + 31)
      BY <2>0, <2>3, <1>z, <1>e
    <3>4. MonthStart(y + 1, 1) = 0
      BY <1>f
    <3>5. YearStart(y + 1) + MonthStart(y + 1, 1) + (k - 31) = a + b + k
      BY <2>1, <3>3, <3>4
    <3> QED
      BY <2>0, <3>1, <3>2, <3>5
  <2>4. CASE ~ (k <= n) /\ m # 12
    <3>1. m \in 1..11 /\ m + 1 \in 1..12 /\ k - n \in Int
      BY <2>1, <2>4
    <3>2. Carried(y, m, k) = Date(y, m + 1, k - n)
      BY <2>0, <2>4 DEF Carried
    <3>3. DayNumber(Date(y, m + 1, k - n)) = YearStart(y) + MonthStart(y, m + 1) + (k - n)
      BY <1>3, <3>1
    <3>4. MonthStart(y, m + 1) = b + n
      BY <2>0, <3>1, <1>n
    <3>5. YearStart(y) + MonthStart(y, m + 1) + (k - n) = a + b + k
      BY <2>0, <2>1, <3>4
    <3> QED
      BY <2>0, <3>2, <3>3, <3>5
  <2> QED
    BY <2>2, <2>3, <2>4
\* The date's parts, and the days before its year and its month.
<1>5. PICK y, m, k : y = d.year /\ m = d.month /\ k = d.day
  OBVIOUS
<1>6. /\ y \in Nat /\ m \in 1..12 /\ k \in 1..31 /\ d = Date(y, m, k)
      /\ k <= MonthLength(y, m)
  BY <1>1, <1>5
<1>7. PICK s, b : s = YearStart(y) /\ b = MonthStart(y, m)
  OBVIOUS
<1>8. s \in Int /\ b \in Int /\ DayNumber(d) = s + b + k
  <2>1. k \in Int
    BY <1>6
  <2>2. DayNumber(Date(y, m, k)) = YearStart(y) + MonthStart(y, m) + k
    BY <1>3, <1>6, <2>1
  <2>3. s \in Int
    BY <1>6, <1>7, <1>y
  <2>4. b \in Int
    BY <1>6, <1>7, <1>m
  <2> QED
    BY <1>6, <1>7, <2>2, <2>3, <2>4
<1>9. ASSUME NEW days \in 1..7
      PROVE  DayNumber(AddDate(d, 0, 0, days)) - DayNumber(d) = days
  <2>1. AddDate(d, 0, 0, days) = Carried(y, m, k + days)
    BY <1>5, <1>6 DEF AddDate
  <2>2. k + days \in 1..38
    BY <1>6
  <2>3. DayNumber(Carried(y, m, k + days)) = s + b + (k + days)
    BY <1>4, <1>6, <1>7, <2>2
  <2> QED
    BY <1>6, <1>8, <2>1, <2>3
<1>10. DayNumber(AddDate(d, 1, 0, 0)) - DayNumber(d) \in {365, 366}
  <2>1. AddDate(d, 1, 0, 0) = Carried(y + 1, m, k)
    BY <1>5, <1>6 DEF AddDate
  <2>2. k \in 1..38 /\ y + 1 \in Nat
    BY <1>6
  <2>3. PICK s1, b1 : s1 = YearStart(y + 1) /\ b1 = MonthStart(y + 1, m)
    OBVIOUS
  <2>4. DayNumber(Carried(y + 1, m, k)) = s1 + b1 + k
    BY <1>4, <1>6, <2>2, <2>3
  <2>5. s1 = s + (IF Leap(y) THEN 366 ELSE 365)
    BY <1>6, <1>7, <2>3, <1>z
  <2>6. Leap(y) => ~ Leap(y + 1)
    BY <1>6 DEF Leap
  <2>7. PICK c : c = <<0, 31, 59, 90, 120, 151, 181, 212, 243, 273, 304, 334>>[m]
    OBVIOUS
  <2>8. /\ b = c + (IF m > 2 /\ Leap(y) THEN 1 ELSE 0)
        /\ b1 = c + (IF m > 2 /\ Leap(y + 1) THEN 1 ELSE 0)
    BY <1>7, <2>3, <2>7 DEF MonthStart
  <2>9. c \in Int
    BY <1>6, <2>7
  <2> QED
    BY <1>6, <1>8, <2>1, <2>4, <2>5, <2>6, <2>8, <2>9
<1>11. DayNumber(AddDate(d, 0, 1, 0)) - DayNumber(d) \in 28..31
  <2>1. CASE m = 12
    <3>1. AddDate(d, 0, 1, 0) = Carried(y + 1, 1, k)
      BY <2>1, <1>5, <1>6 DEF AddDate
    <3>2. k \in 1..38 /\ y + 1 \in Nat
      BY <1>6
    <3>3. DayNumber(Carried(y + 1, 1, k)) = YearStart(y + 1) + MonthStart(y + 1, 1) + k
      BY <1>4, <3>2
    <3>4. YearStart(y + 1) = s + (b + 31)
      BY <2>1, <1>6, <1>7, <1>z, <1>e
    <3>5. MonthStart(y + 1, 1) = 0
      BY <1>f
    <3> QED
      BY <1>6, <1>8, <3>1, <3>3, <3>4, <3>5
  <2>2. CASE m # 12
    <3>1. AddDate(d, 0, 1, 0) = Carried(y, m + 1, k)
      BY <2>2, <1>5, <1>6 DEF AddDate
    <3>2. m \in 1..11 /\ m + 1 \in 1..12 /\ k \in 1..38
      BY <2>2, <1>6
    <3>3. DayNumber(Carried(y, m + 1, k)) = s + MonthStart(y, m + 1) + k
      BY <1>4, <1>6, <1>7, <3>2
    <3>4. MonthStart(y, m + 1) = b + MonthLength(y, m)
      BY <1>7, <3>2, <1>n
    <3> QED
      BY <1>2, <1>6, <1>8, <3>1, <3>3, <3>4
  <2> QED
    BY <2>1, <2>2
<1> QED
  BY <1>9, <1>10, <1>11 DEF calculateNextOccurrence, Gap

\* Dates are totally ordered.
LEMMA BeforeIsAnOrder ==
    ASSUME NEW a \in Dates, NEW b \in Dates, NEW c \in Dates
    PROVE  /\ ~ Before(a, a)
           /\ Before(a, b) /\ Before(b, c) => Before(a, c)
           /\ Before(a, b) \/ Before(b, a) \/ a = b
<1>1. /\ a = Date(a.year, a.month, a.day) /\ b = Date(b.year, b.month, b.day)
      /\ a.year \in Nat /\ a.month \in Nat /\ a.day \in Nat
      /\ b.year \in Nat /\ b.month \in Nat /\ b.day \in Nat
      /\ c.year \in Nat /\ c.month \in Nat /\ c.day \in Nat
  BY DEF Dates, Date
<1>2. a.year = b.year /\ a.month = b.month /\ a.day = b.day => a = b
  BY <1>1
<1>3. Before(a, b) \/ Before(b, a) \/ a = b
  BY <1>1, <1>2 DEF Before
<1> QED
  BY <1>1, <1>3 DEF Before

----------------------------------------------------------------------------
\* The inductive invariant

Announced(x, d) == Occurrence(x, d) \in due
Settled(x, d) == Paid(Occurrence(x, d)) \/ Occurrence(x, d) \in skipped

\* Thread t is a Pay or a Skip that has read the row of template x.
HoldsRow(t, x) ==
    /\ thr[t].at \in {"checking", "writing"}
    /\ Op(t) \in {"pay", "skip"}
    /\ Template(t) = x

\* A row that was read is one that was stored.
RowsRead ==
    \A t \in Threads : Busy(t) =>
        /\ Template(t) \in issued
        /\ At(t, "reading") => Op(t) \in {"pay", "skip"}
        /\ HoldsRow(t, Template(t)) =>
               /\ "read" \in DOMAIN thr[t] /\ thr[t].read \in Row
               /\ Announced(Template(t), thr[t].read.next)

\* A template that is being created is new, and only one request creates it.
CreatesNew ==
    \A t \in Threads : (Busy(t) /\ Op(t) = "create") =>
        /\ Template(t) \notin DOMAIN templates
        /\ \A d : ~ Announced(Template(t), d)
        /\ \A u \in Threads \ {t} :
               (Busy(u) /\ Op(u) = "create") => Template(u) # Template(t)

NextAnnounced == \A x \in DOMAIN templates : Announced(x, templates[x].next)

\* Who was not overtaken holds the row as it is.
CopiesCurrent ==
    \A t \in Threads : \A x \in DOMAIN templates :
        HoldsRow(t, x) /\ ~ thr[t].overtaken => thr[t].read = templates[x]

\* Without a race the next occurrence is the last one announced and the only one open.
UnracedInOrder ==
    \A x \in DOMAIN templates \ raced :
        /\ ~ Settled(x, templates[x].next)
        /\ \A d : Announced(x, d) /\ d # templates[x].next =>
               Before(d, templates[x].next) /\ Settled(x, d)

\* Occurrence c was settled, and what follows it was announced and is d at the latest.
FollowedUp(x, c, d, frequency) ==
    /\ Settled(x, c)
    /\ Announced(x, calculateNextOccurrence(c, frequency))
    /\ ~ Before(d, calculateNextOccurrence(c, frequency))

\* At one frequency the occurrences form a chain, even with races: what follows an
\* occurrence was announced when it was settled.
UneditedChain ==
    \A x \in DOMAIN templates \ edited :
        /\ \A t \in Threads :
               HoldsRow(t, x) => thr[t].read.frequency = templates[x].frequency
        /\ \A c, d : Announced(x, c) /\ Announced(x, d) /\ Before(c, d) =>
               FollowedUp(x, c, d, templates[x].frequency)

\* A step after which thread u has ended or is still at the same request.
Keeps(u) ==
    Busy(u)' =>
        /\ Busy(u)
        /\ thr'[u].req = thr[u].req /\ DOMAIN thr'[u] = DOMAIN thr[u]
        /\ thr'[u].at = "reading" => thr[u].at = "reading"
        /\ HoldsRow(u, Template(u))' =>
               /\ HoldsRow(u, Template(u))
               /\ thr'[u].read = thr[u].read
               /\ thr[u].overtaken => thr'[u].overtaken

IInv ==
    /\ TypeOK /\ RowsRead /\ CreatesNew /\ NextAnnounced /\ CopiesCurrent
    /\ UnracedInOrder /\ UneditedChain /\ SettledOnce /\ LinksResolve

\* The strengthened invariant of the templates, their expenses and the requests.
LEMMA IInvHolds == Spec => []IInv
<1> USE DEF Announced
<1>1. Init => IInv
  <2> SUFFICES ASSUME Init PROVE IInv
    OBVIOUS
  <2>1. TypeOK
    <3>1. expenses \in Seq([template : Templates \cup {Null}, pays : due])
      BY DEF Init
    <3>2. DOMAIN templates = {} /\ templates = [x \in DOMAIN templates |-> templates[x]]
      BY DEF Init
    <3>3. thr \in [Threads -> ThreadState]
      BY DEF Init, ThreadState
    <3> QED
      BY <3>1, <3>2, <3>3 DEF Init, TypeOK
  <2>2. RowsRead /\ CreatesNew /\ CopiesCurrent
    BY DEF Init, RowsRead, CreatesNew, CopiesCurrent, HoldsRow, Busy, Idle
  <2>3. NextAnnounced /\ UnracedInOrder /\ UneditedChain /\ SettledOnce /\ LinksResolve
    BY DEF Init, NextAnnounced, UnracedInOrder, UneditedChain, SettledOnce, LinksResolve
  <2> QED
    BY <2>1, <2>2, <2>3 DEF IInv
<1>2. IInv /\ [Next]_vars => IInv'
  <2> SUFFICES ASSUME IInv, [Next]_vars PROVE IInv'
    OBVIOUS
  <2> USE DEF IInv
  <2>0. \A t \in Threads : Busy(t) =>
            /\ thr[t].at \in {"reading", "checking", "writing"}
            /\ thr[t].req \in Request
            /\ thr[t].frozen \in BOOLEAN /\ thr[t].overtaken \in BOOLEAN
            /\ Template(t) \in Templates
    BY DEF TypeOK, ThreadState, Busy, Idle, Request, Template
  <2>a. ASSUME NEW s \in ThreadState, s.at # "idle", NEW b \in BOOLEAN,
               NEW s2 \in {[s EXCEPT !.overtaken = b], [s EXCEPT !.frozen = b]}
        PROVE  /\ s2 \in ThreadState
               /\ s2.at = s.at /\ s2.req = s.req /\ DOMAIN s2 = DOMAIN s
               /\ "read" \in DOMAIN s => s2.read = s.read
               /\ s2.overtaken \in {s.overtaken, b}
    <3> DEFINE S == [at : {"reading", "checking", "writing"}, req : Request,
                     frozen : BOOLEAN, overtaken : BOOLEAN]
               R == [at : {"checking", "writing"}, req : Request, frozen : BOOLEAN,
                     overtaken : BOOLEAN, read : Row]
    <3>1. s \in S \/ s \in R
      BY <2>a DEF ThreadState, Idle
    <3>2. CASE s \in S
      <4>1. /\ s2 \in S /\ s2.at = s.at /\ s2.req = s.req
            /\ s2.overtaken \in {s.overtaken, b}
            /\ DOMAIN s2 = DOMAIN s /\ "read" \notin DOMAIN s
        BY <3>2, <2>a
      <4> QED
        BY <4>1 DEF ThreadState
    <3>3. CASE s \in R
      <4>1. /\ s2 \in R /\ s2.at = s.at /\ s2.req = s.req /\ s2.read = s.read
            /\ s2.overtaken \in {s.overtaken, b} /\ DOMAIN s2 = DOMAIN s
        BY <3>3, <2>a
      <4> QED
        BY <4>1 DEF ThreadState
    <3> QED
      BY <3>1, <3>2, <3>3
  <2>b. /\ expenses \in [1..Len(expenses) -> [template : Templates \cup {Null}, pays : due]]
        /\ DOMAIN expenses = 1..Len(expenses) /\ Len(expenses) \in Nat
    BY LenProperties DEF TypeOK
  \* What becomes of the requests if each has ended or is still the same.
  <2>1. ASSUME \A u \in Threads : Keeps(u), issued \subseteq issued', due \subseteq due'
        PROVE  RowsRead'
    BY <2>1, <2>0 DEF RowsRead, Keeps, HoldsRow, Busy, At, Op, Template
  <2>2. ASSUME \A u \in Threads : Keeps(u),
               DOMAIN templates' \subseteq DOMAIN templates,
               \A x, d : Announced(x, d)' => Announced(x, d) \/ x \in DOMAIN templates
        PROVE  CreatesNew'
    BY <2>2 DEF CreatesNew, Keeps, Busy, Op, Template
  \* Steps that leave the tables and what is said of them alone.
  <2>3. ASSUME UNCHANGED <<templates, expenses, due, skipped, edited, raced>>,
               issued \subseteq issued', issued' \subseteq Templates,
               archived' \in BOOLEAN,
               thr' \in [Threads -> ThreadState], RowsRead', CreatesNew',
               CopiesCurrent',
               \A t \in Threads : \A x \in DOMAIN templates \ edited :
                   HoldsRow(t, x)' => thr'[t].read.frequency = templates[x].frequency
        PROVE  IInv'
    <3>1. TypeOK'
      BY <2>3 DEF TypeOK
    <3>2. NextAnnounced' /\ UnracedInOrder' /\ SettledOnce' /\ LinksResolve'
      BY <2>3 DEF NextAnnounced, UnracedInOrder, SettledOnce, LinksResolve, Settled, Paid
    <3>3. UneditedChain'
      BY <2>3 DEF UneditedChain, FollowedUp, Settled, Paid
    <3> QED
      BY <2>3, <3>1, <3>2, <3>3
  <2>4. ASSUME UNCHANGED <<templates, expenses, issued, due, skipped, edited, raced>>,
               archived' \in BOOLEAN, thr' \in [Threads -> ThreadState],
               \A u \in Threads : Keeps(u)
        PROVE  IInv'
    <3>1. RowsRead' /\ CreatesNew'
      BY <2>1, <2>2, <2>4
    <3>2. CopiesCurrent'
      BY <2>4 DEF CopiesCurrent, Keeps, HoldsRow, Busy, Op, Template
    <3>3. \A t \in Threads : \A x \in DOMAIN templates \ edited :
              HoldsRow(t, x)' => thr'[t].read.frequency = templates[x].frequency
      BY <2>4 DEF UneditedChain, Keeps, HoldsRow, Busy, Op, Template
    <3> QED
      BY <2>3, <2>4, <3>1, <3>2, <3>3 DEF TypeOK
  <2>5. ASSUME NEW t \in Threads, NEW r \in Request, Receive(t, r)
        PROVE  IInv'
    <3>1. /\ thr'[t].at \in {"reading", "checking"}
          /\ thr'[t].at = "reading" <=> r.op \in {"pay", "skip"}
          /\ thr'[t].req = r
          /\ \A u \in Threads \ {t} : thr'[u] = thr[u]
      BY <2>5 DEF Receive, TypeOK
    <3>2. /\ issued' = issued \cup {r.template}
          /\ r.op = "create" => r.template \notin issued
          /\ UNCHANGED <<templates, expenses, archived, due, skipped, edited, raced>>
      BY <2>5 DEF Receive
    <3>3. thr' \in [Threads -> ThreadState]
      BY <2>5 DEF Receive, ThreadState, TypeOK
    <3>4. RowsRead'
      BY <3>1, <3>2 DEF RowsRead, HoldsRow, Busy, At, Op, Template
    <3>5. CreatesNew'
      <4>1. \A x : x \notin issued => x \notin DOMAIN templates /\ \A d : ~ Announced(x, d)
        BY DEF TypeOK, Occurrence
      <4>2. \A u \in Threads \ {t} : Busy(u) => Template(u) \in issued
        BY DEF RowsRead
      <4> QED
        BY <4>1, <4>2, <3>1, <3>2 DEF CreatesNew, Busy, Op, Template
    <3>6. CopiesCurrent'
      BY <3>1, <3>2 DEF CopiesCurrent, HoldsRow, Op, Template
    <3>7. \A u \in Threads : \A x \in DOMAIN templates \ edited :
              HoldsRow(u, x)' => thr'[u].read.frequency = templates[x].frequency
      BY <3>1, <3>2 DEF UneditedChain, HoldsRow, Op, Template
    <3>8. r.template \in Templates
      BY DEF Request
    <3> QED
      BY <2>3, <3>2, <3>3, <3>4, <3>5, <3>6, <3>7, <3>8 DEF TypeOK
  <2>6. ASSUME NEW t \in Threads, ReadTemplate(t)
        PROVE  IInv'
    <3>1. /\ UNCHANGED <<templates, expenses, archived, issued, due, skipped, edited, raced>>
          /\ At(t, "reading")
      BY <2>6 DEF ReadTemplate
    <3>2. Busy(t) /\ Op(t) \in {"pay", "skip"} /\ Template(t) \in issued
      BY <3>1 DEF RowsRead, Busy, At
    <3>3. CASE End(t)
      <4>1. thr' \in [Threads -> ThreadState] /\ \A u \in Threads : Keeps(u)
        BY <3>3 DEF End, TypeOK, ThreadState, Keeps, HoldsRow, Busy, Idle, Op, Template
      <4> QED
        BY <3>1, <4>1, <2>4 DEF TypeOK
    <3>4. CASE ~ End(t)
      <4>1. Template(t) \in DOMAIN templates
        BY <2>6, <3>4 DEF ReadTemplate
      <4>2. thr' = [thr EXCEPT ![t] =
                [at |-> "checking", req |-> thr[t].req, frozen |-> thr[t].frozen,
                 overtaken |-> FALSE, read |-> templates[Template(t)]]]
        BY <2>6, <3>4 DEF ReadTemplate
      <4>3. thr' \in [Threads -> ThreadState]
        BY <4>1, <4>2, <3>2, <2>0 DEF TypeOK, ThreadState
      <4>4. /\ thr'[t].at = "checking" /\ thr'[t].req = thr[t].req
            /\ thr'[t].read = templates[Template(t)] /\ "read" \in DOMAIN thr'[t]
            /\ \A u \in Threads \ {t} : thr'[u] = thr[u]
        BY <4>2 DEF TypeOK
      <4>5. templates[Template(t)] \in Row /\ Announced(Template(t), templates[Template(t)].next)
        BY <4>1 DEF TypeOK, NextAnnounced
      <4>6. RowsRead'
        BY <3>1, <3>2, <4>4, <4>5 DEF RowsRead, HoldsRow, Busy, At, Op, Template
      <4>7. CreatesNew'
        BY <3>1, <3>2, <4>4 DEF CreatesNew, Busy, Op, Template
      <4>8. CopiesCurrent'
        BY <3>1, <3>2, <4>4 DEF CopiesCurrent, HoldsRow, Op, Template
      <4>9. \A u \in Threads : \A x \in DOMAIN templates \ edited :
                HoldsRow(u, x)' => thr'[u].read.frequency = templates[x].frequency
        BY <3>1, <4>4 DEF UneditedChain, HoldsRow, Op, Template
      <4> QED
        BY <2>3, <3>1, <4>3, <4>6, <4>7, <4>8, <4>9 DEF TypeOK
    <3> QED
      BY <3>3, <3>4
  <2>7. ASSUME NEW t \in Threads, CheckArchived(t)
        PROVE  IInv'
    <3>1. Busy(t) /\ thr[t].at = "checking"
      BY <2>7 DEF CheckArchived, Busy, At
    <3>2. CASE End(t)
      BY <2>7, <2>4, <3>2
         DEF CheckArchived, End, TypeOK, ThreadState, Keeps, HoldsRow, Busy, Idle, Op, Template
    <3>3. CASE thr' = [thr EXCEPT ![t].at = "writing"]
      <4>1. [thr[t] EXCEPT !.at = "writing"] \in ThreadState
        <5> DEFINE S == [at : {"reading", "checking", "writing"}, req : Request,
                         frozen : BOOLEAN, overtaken : BOOLEAN]
                   R == [at : {"checking", "writing"}, req : Request, frozen : BOOLEAN,
                         overtaken : BOOLEAN, read : Row]
        <5>1. thr[t] \in S \/ thr[t] \in R
          BY <3>1 DEF TypeOK, ThreadState, Idle
        <5>2. \A s \in S : [s EXCEPT !.at = "writing"] \in S
          OBVIOUS
        <5>3. \A s \in R : [s EXCEPT !.at = "writing"] \in R
          OBVIOUS
        <5> QED
          BY <5>1, <5>2, <5>3 DEF ThreadState
      <4>2. thr' \in [Threads -> ThreadState]
        BY <3>3, <4>1 DEF TypeOK
      <4>3. /\ thr'[t].at = "writing" /\ thr'[t].req = thr[t].req
            /\ thr'[t].overtaken = thr[t].overtaken
            /\ "read" \in DOMAIN thr[t] => thr'[t].read = thr[t].read
            /\ DOMAIN thr'[t] = DOMAIN thr[t]
            /\ \A u \in Threads \ {t} : thr'[u] = thr[u]
        BY <3>1, <3>3 DEF TypeOK, ThreadState, Idle
      <4>4. \A u \in Threads : Keeps(u)
        BY <3>1, <4>3 DEF Keeps, RowsRead, HoldsRow, Busy, Op, Template
      <4> QED
        BY <2>7, <2>4, <4>2, <4>4 DEF CheckArchived, TypeOK
    <3> QED
      BY <2>7, <3>2, <3>3 DEF CheckArchived
  <2>8. ASSUME NEW t \in Threads, GiveUp(t)
        PROVE  IInv'
    BY <2>8, <2>4
       DEF GiveUp, End, TypeOK, ThreadState, Keeps, HoldsRow, Busy, Idle, Op, Template
  <2>9. CASE Crash
    BY <2>9, <2>4 DEF Crash, TypeOK, ThreadState, Keeps, Busy, Idle
  <2>10. CASE SetGroupArchived
    <3>1. \A u \in Threads :
              thr'[u] = thr[u] \/ (Busy(u) /\ thr'[u] = [thr[u] EXCEPT !.frozen = FALSE])
      BY <2>10 DEF SetGroupArchived
    <3>2. ASSUME NEW u \in Threads
          PROVE  thr'[u] \in ThreadState /\ Keeps(u)
      <4>1. CASE thr'[u] = thr[u]
        BY <4>1 DEF TypeOK, Keeps, HoldsRow, Busy, Op, Template
      <4>2. CASE Busy(u) /\ thr'[u] = [thr[u] EXCEPT !.frozen = FALSE]
        <5>1. /\ thr'[u] \in ThreadState
              /\ thr'[u].at = thr[u].at /\ thr'[u].req = thr[u].req
              /\ DOMAIN thr'[u] = DOMAIN thr[u]
              /\ "read" \in DOMAIN thr[u] => thr'[u].read = thr[u].read
          BY <4>2, <2>a, ZenonT(30) DEF TypeOK, Busy
        <5>2. thr'[u].overtaken = thr[u].overtaken
          BY <4>2, <2>0, <2>a DEF TypeOK, Busy, ThreadState
        <5> QED
          BY <4>2, <5>1, <5>2 DEF Keeps, RowsRead, HoldsRow, Busy, Op, Template
      <4> QED
        BY <3>1, <4>1, <4>2
    <3>3. thr' = [u \in Threads |-> thr'[u]]
      BY <2>10 DEF SetGroupArchived
    <3> QED
      BY <2>10, <2>4, <3>2, <3>3 DEF SetGroupArchived, TypeOK
  \* How a request that has written ends.
  <2>11. ASSUME NEW t \in Threads, End(t)
         PROVE  /\ thr' \in [Threads -> ThreadState] /\ ~ Busy(t)'
                /\ \A u \in Threads \ {t} : thr'[u] = thr[u]
                /\ \A u \in Threads : Keeps(u)
    BY <2>11 DEF End, TypeOK, ThreadState, Keeps, HoldsRow, Busy, Idle, Op, Template
  <2>12. ASSUME NEW t \in Threads, NEW x, EndOvertaking(t, x)
         PROVE  /\ thr' \in [Threads -> ThreadState] /\ ~ Busy(t)'
                /\ \A u \in Threads : Keeps(u)
                /\ \A u \in Threads : HoldsRow(u, x)' => thr'[u].overtaken
    <3>1. ASSUME NEW u \in Threads
          PROVE  /\ thr'[u] \in ThreadState /\ Keeps(u)
                 /\ u = t => ~ Busy(u)'
                 /\ HoldsRow(u, x)' => thr'[u].overtaken
      <4>1. CASE u = t
        BY <4>1, <2>12 DEF EndOvertaking, ThreadState, Keeps, HoldsRow, Busy, Idle
      <4>2. CASE u # t /\ Busy(u) /\ Template(u) = x
        <5>1. thr'[u] = [thr[u] EXCEPT !.overtaken = TRUE]
          BY <4>2, <2>12 DEF EndOvertaking
        <5>2. /\ thr'[u] \in ThreadState
              /\ thr'[u].at = thr[u].at /\ thr'[u].req = thr[u].req
              /\ DOMAIN thr'[u] = DOMAIN thr[u]
              /\ "read" \in DOMAIN thr[u] => thr'[u].read = thr[u].read
          <6>1. thr[u] \in ThreadState /\ thr[u].at # "idle"
            BY <4>2 DEF TypeOK, Busy
          <6> QED
            BY <5>1, <6>1, <2>a, ZenonT(30)
        <5>3. thr'[u].overtaken = TRUE
          <6>1. "overtaken" \in DOMAIN thr[u]
            BY <4>2 DEF TypeOK, ThreadState, Busy, Idle
          <6> QED
            BY <5>1, <6>1
        <5> QED
          BY <4>2, <5>2, <5>3 DEF Keeps, RowsRead, HoldsRow, Busy, Op, Template
      <4>3. CASE u # t /\ ~ (Busy(u) /\ Template(u) = x)
        <5>1. thr'[u] = thr[u]
          BY <4>3, <2>12 DEF EndOvertaking
        <5> QED
          BY <4>3, <5>1 DEF TypeOK, Keeps, HoldsRow, Busy, Op, Template
      <4> QED
        BY <4>1, <4>2, <4>3
    <3>2. thr' = [u \in Threads |-> thr'[u]]
      BY <2>12 DEF EndOvertaking
    <3> QED
      BY <3>1, <3>2
  <2>13. /\ \A x, d : Settled(x, d) => Announced(x, d)
         /\ \A x, d : Announced(x, d) => x \in issued /\ d \in Dates
    <3>1. \A i \in DOMAIN expenses : expenses[i].pays \in due
      BY <2>b
    <3>2. skipped \subseteq due /\ due \subseteq [template : issued, date : Dates]
      BY DEF TypeOK
    <3>3. \A x, d : Occurrence(x, d).template = x /\ Occurrence(x, d).date = d
      BY DEF Occurrence
    <3> QED
      BY <3>1, <3>2, <3>3 DEF Settled, Paid
  <2>14. ASSUME NEW t \in Threads, Create(t)
         PROVE  IInv'
    <3>0. PICK x, start : x = Template(t) /\ start = thr[t].req.start
      OBVIOUS
    <3> USE <3>0
    <3>1. /\ x \in issued /\ x \notin DOMAIN templates
          /\ \A d : ~ Announced(x, d)
          /\ \A u \in Threads \ {t} : (Busy(u) /\ Op(u) = "create") => Template(u) # x
      BY <2>14 DEF Create, At, Busy, RowsRead, CreatesNew
    <3>2. thr[t].req.frequency \in Frequencies /\ start \in Dates
      BY <2>14, <2>0, RecurringAssumption DEF Create, At, Busy, Op, Request
    <3>3. /\ thr' \in [Threads -> ThreadState] /\ ~ Busy(t)'
          /\ \A u \in Threads \ {t} : thr'[u] = thr[u]
          /\ \A u \in Threads : Keeps(u)
      BY <2>11, <2>14 DEF Create
    <3>4. /\ UNCHANGED <<expenses, archived, issued, skipped, edited, raced>>
          /\ due' = due \cup {Occurrence(x, start)}
          /\ templates' = [y \in DOMAIN templates' |-> templates'[y]]
          /\ DOMAIN templates' = DOMAIN templates \cup {x}
          /\ templates'[x] = [frequency |-> thr[t].req.frequency, next |-> start]
          /\ \A y \in DOMAIN templates : templates'[y] = templates[y]
      BY <2>14, <3>1 DEF Create
    <3>5. /\ \A d : Announced(x, d)' <=> d = start
          /\ \A y, d : y # x => (Announced(y, d)' <=> Announced(y, d))
          /\ \A y, d : Settled(y, d)' <=> Settled(y, d)
          /\ \A d : ~ Settled(x, d)
      BY <3>1, <3>4, <2>13 DEF Occurrence, Settled, Paid
    <3>6. TypeOK'
      <4>1. due' \subseteq [template : issued, date : Dates] /\ due \subseteq due'
        BY <3>1, <3>2, <3>4 DEF TypeOK, Occurrence
      <4>2. expenses \in Seq([template : Templates \cup {Null}, pays : due'])
        <5>1. [template : Templates \cup {Null}, pays : due]
                  \subseteq [template : Templates \cup {Null}, pays : due']
          BY <4>1
        <5> QED
          BY <5>1, SeqMonotonic DEF TypeOK
      <4>3. \A y \in DOMAIN templates' : templates'[y] \in Row
        BY <3>2, <3>4 DEF TypeOK, Row
      <4> QED
        BY <3>1, <3>3, <3>4, <4>1, <4>2, <4>3 DEF TypeOK
    <3>7. RowsRead'
      BY <2>1, <3>3, <3>4
    <3>8. CreatesNew'
      <4>1. ASSUME NEW u \in Threads, (Busy(u) /\ Op(u) = "create")'
            PROVE  /\ u # t /\ thr'[u] = thr[u] /\ Busy(u) /\ Op(u) = "create"
                   /\ thr'[u].req.template # x
        BY <4>1, <3>1, <3>3 DEF Busy, Op, Template
      <4>2. ASSUME NEW u \in Threads, (Busy(u) /\ Op(u) = "create")'
            PROVE  /\ Template(u)' \notin DOMAIN templates'
                   /\ \A d : ~ Announced(Template(u), d)'
        <5>1. PICK y : y = Template(u) /\ y = Template(u)'
          BY <4>1, <4>2 DEF Template
        <5>2. y # x /\ y \notin DOMAIN templates /\ \A d : ~ Announced(y, d)
          BY <4>1, <4>2, <5>1 DEF CreatesNew, Template
        <5> QED
          BY <5>1, <5>2, <3>4, <3>5
      <4> QED
        BY <4>1, <4>2 DEF CreatesNew, Busy, Op, Template
    <3>9. NextAnnounced'
      BY <3>1, <3>4, <3>5 DEF NextAnnounced
    <3>10. \A u \in Threads : ~ HoldsRow(u, x)'
      <4>1. \A u \in Threads : ~ HoldsRow(u, x)
        BY <3>1 DEF RowsRead, HoldsRow, Busy
      <4> QED
        BY <3>3, <4>1 DEF Keeps, HoldsRow, Busy, Op, Template
    <3>11. CopiesCurrent'
      BY <3>3, <3>4, <3>10 DEF CopiesCurrent, Keeps, HoldsRow, Busy, Op, Template
    <3>12. UnracedInOrder'
      BY <3>1, <3>4, <3>5 DEF UnracedInOrder
    <3>13. UneditedChain'
      <4>1. ~ Before(start, start)
        BY <3>2, BeforeIsAnOrder
      <4>2. \A u \in Threads : \A y \in DOMAIN templates' \ edited' :
                HoldsRow(u, y)' => thr'[u].read.frequency = templates'[y].frequency
        BY <3>3, <3>4, <3>10 DEF UneditedChain, Keeps, HoldsRow, Busy, Op, Template
      <4>3. ASSUME NEW y \in DOMAIN templates' \ edited', NEW c, NEW d,
                   Announced(y, c)', Announced(y, d)', Before(c, d)
            PROVE  FollowedUp(y, c, d, templates[y].frequency)'
        <5>1. y # x
          BY <4>1, <4>3, <3>5
        <5>2. /\ y \in DOMAIN templates \ edited /\ templates'[y] = templates[y]
              /\ Announced(y, c) /\ Announced(y, d)
          BY <5>1, <4>3, <3>4, <3>5
        <5>3. FollowedUp(y, c, d, templates[y].frequency)
          BY <5>2, <4>3 DEF UneditedChain
        <5> QED
          BY <5>1, <5>2, <5>3, <3>5 DEF FollowedUp
      <4> QED
        BY <4>2, <4>3 DEF UneditedChain
    <3>14. SettledOnce' /\ LinksResolve'
      BY <3>4 DEF SettledOnce, LinksResolve
    <3> QED
      BY <3>6, <3>7, <3>8, <3>9, <3>11, <3>12, <3>13, <3>14
  <2>15. ASSUME NEW t \in Threads, Update(t)
         PROVE  IInv'
    <3>0. PICK x : x = Template(t)
      OBVIOUS
    <3> USE <3>0
    <3>1. CASE x \notin DOMAIN templates
      BY <2>15, <3>1, <2>4, <2>11 DEF Update, TypeOK
    <3>2. CASE x \in DOMAIN templates
      <4>1. /\ UNCHANGED <<expenses, archived, issued, due, skipped, raced>>
            /\ edited' = edited \cup {x}
            /\ templates' = [templates EXCEPT ![x].frequency = thr[t].req.frequency]
            /\ EndOvertaking(t, x)
        BY <2>15, <3>2 DEF Update
      <4>2. /\ thr' \in [Threads -> ThreadState]
            /\ \A u \in Threads : Keeps(u)
            /\ \A u \in Threads : HoldsRow(u, x)' => thr'[u].overtaken
        BY <2>12, <4>1
      <4>3. thr[t].req.frequency \in Frequencies
        BY <2>15, <2>0 DEF Update, At, Busy, Op, Request
      <4>4. /\ templates' = [y \in DOMAIN templates' |-> templates'[y]]
            /\ DOMAIN templates' = DOMAIN templates
            /\ templates'[x] \in Row /\ templates'[x].next = templates[x].next
            /\ \A y \in DOMAIN templates \ {x} : templates'[y] = templates[y]
        BY <3>2, <4>1, <4>3 DEF TypeOK, Row
      <4>5. TypeOK'
        BY <3>2, <4>1, <4>2, <4>4 DEF TypeOK
      <4>6. RowsRead' /\ CreatesNew'
        BY <2>1, <2>2, <4>1, <4>2, <4>4
      <4>7. NextAnnounced'
        BY <4>1, <4>4 DEF NextAnnounced
      <4>8. CopiesCurrent'
        <5> SUFFICES ASSUME NEW u \in Threads, NEW y \in DOMAIN templates,
                            HoldsRow(u, y)', ~ thr'[u].overtaken
                     PROVE  thr'[u].read = templates'[y]
          BY <4>4 DEF CopiesCurrent
        <5>1. y # x
          BY <4>2
        <5>2. /\ HoldsRow(u, y) /\ ~ thr[u].overtaken
              /\ thr'[u].read = thr[u].read
          BY <4>2 DEF Keeps, HoldsRow, Busy, Op, Template
        <5> QED
          BY <4>4, <5>1, <5>2 DEF CopiesCurrent
      <4>9. UnracedInOrder' /\ SettledOnce' /\ LinksResolve'
        BY <4>1, <4>4 DEF UnracedInOrder, SettledOnce, LinksResolve, Settled, Paid
      <4>10. UneditedChain'
        <5>1. \A u \in Threads : \A y \in DOMAIN templates' \ edited' :
                  HoldsRow(u, y)' => thr'[u].read.frequency = templates'[y].frequency
          BY <4>1, <4>2, <4>4 DEF UneditedChain, Keeps, HoldsRow, Busy, Op, Template
        <5>2. \A y \in DOMAIN templates' \ edited' :
                  y \in DOMAIN templates \ edited /\ templates'[y] = templates[y]
          BY <4>1, <4>4
        <5>3. /\ \A y, d : Announced(y, d)' <=> Announced(y, d)
              /\ \A y, d : Settled(y, d)' <=> Settled(y, d)
          BY <4>1 DEF Settled, Paid
        <5> QED
          BY <5>1, <5>2, <5>3 DEF UneditedChain, FollowedUp
      <4> QED
        BY <4>5, <4>6, <4>7, <4>8, <4>9, <4>10
    <3> QED
      BY <3>1, <3>2
  <2>16. ASSUME NEW t \in Threads, Delete(t)
         PROVE  IInv'
    <3>0. PICK x : x = Template(t)
      OBVIOUS
    <3> USE <3>0
    <3>1. /\ UNCHANGED <<archived, issued, due, skipped, edited, raced>>
          /\ templates' = [y \in DOMAIN templates' |-> templates'[y]]
          /\ DOMAIN templates' = DOMAIN templates \ {x}
          /\ \A y \in DOMAIN templates' : templates'[y] = templates[y]
      BY <2>16 DEF Delete
    <3>2. /\ expenses' = [i \in DOMAIN expenses |->
                 IF expenses[i].template = x
                 THEN [expenses[i] EXCEPT !.template = Null] ELSE expenses[i]]
          /\ End(t)
      BY <2>16 DEF Delete
    <3>3. ASSUME NEW i \in DOMAIN expenses
          PROVE  /\ expenses'[i] \in [template : Templates \cup {Null}, pays : due]
                 /\ expenses'[i].pays = expenses[i].pays
                 /\ expenses'[i].template \in DOMAIN templates' \cup {Null}
      <4>1. expenses[i] \in [template : Templates \cup {Null}, pays : due]
        BY <2>b
      <4>2. expenses[i].template \in DOMAIN templates \cup {Null}
        BY DEF LinksResolve
      <4> QED
        BY <3>1, <3>2, <4>1, <4>2
    <3>4. DOMAIN expenses' = DOMAIN expenses
      BY <3>2
    <3>5. /\ thr' \in [Threads -> ThreadState]
          /\ \A u \in Threads : Keeps(u)
      BY <2>11, <3>2
    <3>6. expenses' \in Seq([template : Templates \cup {Null}, pays : due])
      <4>1. expenses' \in [1..Len(expenses) -> [template : Templates \cup {Null}, pays : due]]
        BY <2>b, <3>2, <3>3
      <4>2. \A S : expenses' \in [1..Len(expenses) -> S] => expenses' \in Seq(S)
        BY <2>b, SeqDef
      <4> QED
        BY <4>1, <4>2
    <3>7. TypeOK'
      BY <3>1, <3>5, <3>6 DEF TypeOK
    <3>8. RowsRead' /\ CreatesNew'
      BY <2>1, <2>2, <3>1, <3>5
    <3>9. NextAnnounced'
      BY <3>1 DEF NextAnnounced
    <3>10. CopiesCurrent'
      BY <3>1, <3>5 DEF CopiesCurrent, Keeps, HoldsRow, Busy, Op, Template
    <3>11. /\ \A y, d : Announced(y, d)' <=> Announced(y, d)
           /\ \A y, d : Settled(y, d)' <=> Settled(y, d)
      BY <3>1, <3>3, <3>4 DEF Settled, Paid
    <3>12. UnracedInOrder'
      BY <3>1, <3>11 DEF UnracedInOrder
    <3>13. UneditedChain'
      <4>1. \A u \in Threads : \A y \in DOMAIN templates' \ edited' :
                HoldsRow(u, y)' => thr'[u].read.frequency = templates'[y].frequency
        BY <3>1, <3>5 DEF UneditedChain, Keeps, HoldsRow, Busy, Op, Template
      <4> QED
        BY <4>1, <3>1, <3>11 DEF UneditedChain, FollowedUp
    <3>14. SettledOnce' /\ LinksResolve'
      BY <3>1, <3>3, <3>4 DEF SettledOnce, LinksResolve
    <3> QED
      BY <3>7, <3>8, <3>9, <3>10, <3>12, <3>13, <3>14
  \* What Pay and Skip have in common, whatever became of the expense.
  <2>17. ASSUME NEW t \in Threads, NEW x, NEW o,
                x = Template(t), o = thr[t].read.next,
                At(t, "writing"), Op(t) \in {"pay", "skip"}, x \in DOMAIN templates,
                Advance(t), UNCHANGED <<archived, issued, edited>>,
                expenses' \in Seq([template : Templates \cup {Null}, pays : due]),
                skipped' \subseteq due,
                \A y, d : Settled(y, d)' <=> Settled(y, d) \/ (y = x /\ d = o),
                SettledOnce', LinksResolve'
         PROVE  IInv'
    <3>0. PICK n : n = NextOccurrence(t)
      OBVIOUS
    <3>1. /\ HoldsRow(t, x) /\ x \in issued
          /\ thr[t].read \in Row /\ o \in Dates /\ Announced(x, o)
      BY <2>17 DEF RowsRead, HoldsRow, At, Busy, Row
    <3>2. /\ n = calculateNextOccurrence(o, thr[t].read.frequency)
          /\ n \in Dates /\ Before(o, n)
      BY <2>17, <3>0, <3>1, NextIsLater, RecurringAssumption DEF NextOccurrence, Row
    <3>3. /\ templates' = [templates EXCEPT ![x].next = n]
          /\ due' = due \cup {Occurrence(x, n)}
          /\ raced' = IF thr[t].overtaken THEN raced \cup {x} ELSE raced
          /\ EndOvertaking(t, x)
      BY <2>17, <3>0 DEF Advance
    <3>4. /\ thr' \in [Threads -> ThreadState]
          /\ \A u \in Threads : Keeps(u)
          /\ \A u \in Threads : HoldsRow(u, x)' => thr'[u].overtaken
      BY <2>12, <3>3
    <3>5. /\ templates' = [y \in DOMAIN templates' |-> templates'[y]]
          /\ DOMAIN templates' = DOMAIN templates
          /\ templates'[x] \in Row /\ templates'[x].next = n
          /\ templates'[x].frequency = templates[x].frequency
          /\ \A y \in DOMAIN templates \ {x} : templates'[y] = templates[y]
      BY <2>17, <3>2, <3>3 DEF TypeOK, Row
    <3>6. \A y, d : Announced(y, d)' <=> Announced(y, d) \/ (y = x /\ d = n)
      BY <3>3 DEF Occurrence
    <3>7. TypeOK'
      <4>1. due' \subseteq [template : issued, date : Dates] /\ due \subseteq due'
        BY <3>1, <3>2, <3>3 DEF TypeOK, Occurrence
      <4>2. expenses' \in Seq([template : Templates \cup {Null}, pays : due'])
        <5>1. [template : Templates \cup {Null}, pays : due]
                  \subseteq [template : Templates \cup {Null}, pays : due']
          BY <4>1
        <5> QED
          BY <2>17, <5>1, SeqMonotonic
      <4>3. \A y \in DOMAIN templates' : templates'[y] \in Row
        BY <3>5 DEF TypeOK
      <4>4. raced' \subseteq issued
        BY <3>1, <3>3 DEF TypeOK
      <4> QED
        BY <2>17, <3>4, <3>5, <4>1, <4>2, <4>3, <4>4 DEF TypeOK
    <3>8. RowsRead' /\ CreatesNew'
      BY <2>1, <2>2, <2>17, <3>3, <3>4, <3>5, <3>6
    <3>9. NextAnnounced'
      BY <3>5, <3>6 DEF NextAnnounced
    <3>10. CopiesCurrent'
      BY <3>4, <3>5 DEF CopiesCurrent, Keeps, HoldsRow, Busy, Op, Template
    <3>11. ASSUME NEW y \in DOMAIN templates' \ raced'
           PROVE  /\ ~ Settled(y, templates[y].next)'
                  /\ \A d : Announced(y, d)' /\ d # templates'[y].next =>
                         Before(d, templates'[y].next) /\ Settled(y, d)'
      <4>1. y \in DOMAIN templates \ raced
        BY <3>3, <3>5, <3>11
      <4>2. CASE y # x
        BY <4>1, <4>2, <2>17, <3>5, <3>6 DEF UnracedInOrder
      <4>3. CASE y = x
        <5>1. thr[t].read = templates[x] /\ o = templates[x].next
          BY <4>3, <2>17, <3>1, <3>3, <3>11 DEF CopiesCurrent
        <5>2. \A d : Announced(x, d) => d = o \/ (Before(d, o) /\ Settled(x, d))
          BY <4>1, <4>3, <5>1 DEF UnracedInOrder
        <5>3. ASSUME NEW d, Announced(x, d)
              PROVE  Before(d, n) /\ d # n /\ Settled(x, d)'
          <6>1. d \in Dates
            BY <5>3, <2>13
          <6>2. Before(d, n)
            BY <5>2, <5>3, <6>1, <3>1, <3>2, BeforeIsAnOrder
          <6>3. d # n
            BY <6>1, <6>2, BeforeIsAnOrder
          <6> QED
            BY <5>2, <5>3, <6>2, <6>3, <2>17
        <5>4. ~ Settled(x, n)'
          <6>1. ~ Settled(x, n) /\ n # o
            BY <5>3, <2>13, <3>1
          <6> QED
            BY <6>1, <2>17
        <5> QED
          BY <4>3, <5>3, <5>4, <3>5, <3>6
      <4> QED
        BY <4>2, <4>3
    <3>12. UnracedInOrder'
      BY <3>11 DEF UnracedInOrder
    <3>13. ASSUME NEW y \in DOMAIN templates' \ edited', NEW c, NEW d,
                  Announced(y, c)', Announced(y, d)', Before(c, d)
           PROVE  FollowedUp(y, c, d, templates[y].frequency)'
      <4>1. PICK f : /\ f = templates[y].frequency /\ f = templates'[y].frequency
        BY <3>5, <3>13
      <4> SUFFICES FollowedUp(y, c, d, f)'
        BY <4>1 DEF FollowedUp
      <4>2. y \in DOMAIN templates \ edited
        BY <2>17, <3>5, <3>13
      <4>3. ASSUME Announced(y, c), Announced(y, d)
            PROVE  FollowedUp(y, c, d, f)'
        <5>1. FollowedUp(y, c, d, f)
          BY <4>1, <4>2, <4>3, <3>13 DEF UneditedChain
        <5> QED
          BY <5>1, <2>17, <3>6 DEF FollowedUp
      <4>4. CASE y = x /\ ~ Announced(x, n)
        <5>1. thr[t].read.frequency = f /\ n = calculateNextOccurrence(o, f)
          BY <4>1, <4>2, <4>4, <3>1, <3>2 DEF UneditedChain
        <5>2. \A e : Announced(x, e) => ~ Before(o, e)
          BY <4>1, <4>2, <4>4, <5>1, <3>1 DEF UneditedChain, FollowedUp
        <5>3. c \in Dates /\ d \in Dates
          BY <4>4, <2>13, <3>2, <3>6, <3>13
        <5>4. c # n
          <6>1. SUFFICES ASSUME c = n PROVE FALSE
            OBVIOUS
          <6>2. Before(o, d) /\ d # n
            BY <6>1, <5>3, <3>1, <3>2, <3>13, BeforeIsAnOrder
          <6> QED
            BY <6>2, <4>4, <5>2, <3>6, <3>13
        <5>5. CASE d = n
          <6>1. Announced(x, c) /\ ~ Before(o, c)
            BY <4>4, <5>2, <5>4, <3>6, <3>13
          <6>2. CASE c = o
            <7>1. Settled(x, c)' /\ Announced(x, n)' /\ ~ Before(d, n)
              BY <5>5, <6>2, <2>17, <3>2, <3>6, BeforeIsAnOrder
            <7> QED
              BY <4>4, <5>1, <6>2, <7>1 DEF FollowedUp
          <6>3. CASE Before(c, o)
            <7>1. FollowedUp(x, c, o, f)
              BY <4>1, <4>2, <4>4, <6>1, <6>3, <3>1 DEF UneditedChain
            <7>2. PICK e : e = calculateNextOccurrence(c, f)
              OBVIOUS
            <7>3. Settled(x, c) /\ Announced(x, e) /\ ~ Before(o, e) /\ e \in Dates
              BY <7>1, <7>2, <2>13 DEF FollowedUp
            <7>4. ~ Before(d, e)
              BY <5>5, <7>3, <3>1, <3>2, BeforeIsAnOrder
            <7> QED
              BY <4>4, <7>2, <7>3, <7>4, <2>17, <3>6 DEF FollowedUp
          <6> QED
            BY <5>3, <6>1, <6>2, <6>3, <3>1, BeforeIsAnOrder
        <5>6. CASE d # n
          BY <4>3, <4>4, <5>4, <5>6, <3>6, <3>13
        <5> QED
          BY <5>5, <5>6
      <4> QED
        BY <4>3, <4>4, <3>6, <3>13
    <3>14. UneditedChain'
      <4>1. \A u \in Threads : \A y \in DOMAIN templates' \ edited' :
                HoldsRow(u, y)' => thr'[u].read.frequency = templates'[y].frequency
        BY <2>17, <3>4, <3>5 DEF UneditedChain, Keeps, HoldsRow, Busy, Op, Template
      <4> QED
        BY <4>1, <3>13 DEF UneditedChain
    <3> QED
      BY <2>17, <3>7, <3>8, <3>9, <3>10, <3>12, <3>14
  <2>18. ASSUME NEW t \in Threads, Pay(t)
         PROVE  IInv'
    <3>0. PICK x, o : x = Template(t) /\ o = thr[t].read.next
      OBVIOUS
    <3>1. CASE x \notin DOMAIN templates
      BY <3>0, <3>1, <2>18, <2>4, <2>11 DEF Pay, TypeOK
    <3>2. CASE x \in DOMAIN templates
      <4>0. PICK e : e = [template |-> x, pays |-> Occurrence(x, o)]
        OBVIOUS
      <4>1. /\ At(t, "writing") /\ Op(t) \in {"pay", "skip"}
            /\ expenses' = Append(expenses, e) /\ Advance(t)
            /\ UNCHANGED <<archived, issued, skipped, edited>>
        BY <4>0, <3>0, <3>2, <2>18 DEF Pay
      <4>2. HoldsRow(t, x) /\ Announced(x, o)
        BY <4>1, <3>0 DEF RowsRead, HoldsRow, At, Busy
      <4>3. e \in [template : Templates \cup {Null}, pays : due]
        BY <4>0, <4>2, <3>2 DEF TypeOK
      <4>4. /\ expenses' \in Seq([template : Templates \cup {Null}, pays : due])
            /\ DOMAIN expenses' = 1..(Len(expenses) + 1)
            /\ \A i \in DOMAIN expenses : expenses'[i] = expenses[i]
            /\ expenses'[Len(expenses) + 1] = e
        BY <4>1, <4>3, <2>b, AppendProperties DEF TypeOK
      <4>5. \A y, d : Settled(y, d)' <=> Settled(y, d) \/ (y = x /\ d = o)
        <5>1. \A p : Paid(p)' <=> Paid(p) \/ p = Occurrence(x, o)
          BY <4>0, <4>4, <2>b DEF Paid
        <5> QED
          BY <4>1, <5>1 DEF Settled, Occurrence
      <4>6. x \in raced' \/ (~ Settled(x, o) /\ x \notin raced)
        <5>1. x \notin raced' => x \notin raced /\ ~ thr[t].overtaken
          BY <4>1, <3>0 DEF Advance
        <5>2. x \notin raced' => o = templates[x].next
          BY <5>1, <4>2, <3>0, <3>2 DEF CopiesCurrent
        <5> QED
          BY <5>1, <5>2, <3>2 DEF UnracedInOrder
      <4>7. raced \subseteq raced'
        BY <4>1 DEF Advance
      <4>8. SettledOnce'
        <5>1. ASSUME NEW y \in Templates \ raced', NEW i \in DOMAIN expenses',
                     NEW j \in DOMAIN expenses', expenses'[i].pays.template = y,
                     expenses'[i].pays = expenses'[j].pays
              PROVE  i = j
          <6>1. CASE i \in DOMAIN expenses /\ j \in DOMAIN expenses
            BY <4>4, <4>7, <5>1, <6>1 DEF SettledOnce
          <6>2. CASE i = Len(expenses) + 1 \/ j = Len(expenses) + 1
            <7>1. expenses'[i].pays = Occurrence(x, o) /\ y = x
              BY <4>0, <4>4, <5>1, <6>2 DEF Occurrence
            <7>2. \A k \in DOMAIN expenses : expenses[k].pays # Occurrence(x, o)
              BY <4>6, <5>1, <7>1 DEF Settled, Paid
            <7>3. i \notin DOMAIN expenses /\ j \notin DOMAIN expenses
              BY <4>4, <5>1, <7>1, <7>2
            <7> QED
              BY <4>4, <5>1, <7>3, <2>b
          <6> QED
            BY <4>4, <6>1, <6>2, <2>b
        <5>2. ASSUME NEW y \in Templates \ raced', NEW i \in DOMAIN expenses',
                     expenses'[i].pays.template = y
              PROVE  expenses'[i].pays \notin skipped'
          <6>1. CASE i \in DOMAIN expenses
            BY <4>1, <4>4, <4>7, <5>2, <6>1 DEF SettledOnce
          <6>2. CASE i = Len(expenses) + 1
            <7>1. expenses'[i].pays = Occurrence(x, o) /\ y = x
              BY <4>0, <4>4, <5>2, <6>2 DEF Occurrence
            <7> QED
              BY <4>1, <4>6, <5>2, <7>1 DEF Settled
          <6> QED
            BY <4>4, <6>1, <6>2, <2>b
        <5> QED
          BY <5>1, <5>2 DEF SettledOnce
      <4>9. LinksResolve'
        <5>1. DOMAIN templates' = DOMAIN templates
          BY <4>1 DEF Advance
        <5> QED
          BY <5>1, <4>0, <4>4, <3>2, <2>b DEF LinksResolve
      <4>10. skipped' \subseteq due
        BY <4>1 DEF TypeOK
      <4> QED
        BY <2>17, <3>0, <3>2, <4>1, <4>4, <4>5, <4>8, <4>9, <4>10
    <3> QED
      BY <3>1, <3>2
  <2>19. ASSUME NEW t \in Threads, Skip(t)
         PROVE  IInv'
    <3>0. PICK x, o : x = Template(t) /\ o = thr[t].read.next
      OBVIOUS
    <3>1. CASE x \notin DOMAIN templates
      BY <3>0, <3>1, <2>19, <2>4, <2>11 DEF Skip, TypeOK
    <3>2. CASE x \in DOMAIN templates
      <4>1. /\ At(t, "writing") /\ Op(t) \in {"pay", "skip"}
            /\ skipped' = skipped \cup {Occurrence(x, o)} /\ Advance(t)
            /\ UNCHANGED <<expenses, archived, issued, edited>>
        BY <3>0, <3>2, <2>19 DEF Skip
      <4>2. HoldsRow(t, x) /\ Announced(x, o)
        BY <4>1, <3>0 DEF RowsRead, HoldsRow, At, Busy
      <4>3. \A y, d : Settled(y, d)' <=> Settled(y, d) \/ (y = x /\ d = o)
        BY <4>1 DEF Settled, Paid, Occurrence
      <4>4. x \in raced' \/ (~ Settled(x, o) /\ x \notin raced)
        <5>1. x \notin raced' => x \notin raced /\ ~ thr[t].overtaken
          BY <4>1, <3>0 DEF Advance
        <5>2. x \notin raced' => o = templates[x].next
          BY <5>1, <4>2, <3>0, <3>2 DEF CopiesCurrent
        <5> QED
          BY <5>1, <5>2, <3>2 DEF UnracedInOrder
      <4>5. raced \subseteq raced'
        BY <4>1 DEF Advance
      <4>6. SettledOnce'
        <5>1. ASSUME NEW y \in Templates \ raced', NEW i \in DOMAIN expenses,
                     expenses[i].pays.template = y
              PROVE  expenses[i].pays \notin skipped'
          <6>1. expenses[i].pays \notin skipped
            BY <4>5, <5>1 DEF SettledOnce
          <6>2. expenses[i].pays # Occurrence(x, o)
            <7>1. SUFFICES ASSUME expenses[i].pays = Occurrence(x, o) PROVE FALSE
              OBVIOUS
            <7>2. y = x
              BY <5>1, <7>1 DEF Occurrence
            <7> QED
              BY <4>4, <5>1, <7>1, <7>2 DEF Settled, Paid
          <6> QED
            BY <4>1, <6>1, <6>2
        <5> QED
          BY <4>1, <4>5, <5>1 DEF SettledOnce
      <4>7. LinksResolve' /\ skipped' \subseteq due
            /\ expenses' \in Seq([template : Templates \cup {Null}, pays : due])
        BY <4>1, <4>2 DEF LinksResolve, Advance, TypeOK
      <4> QED
        BY <2>17, <3>0, <3>2, <4>1, <4>3, <4>6, <4>7
    <3> QED
      BY <3>1, <3>2
  <2>20. CASE UNCHANGED vars
    BY <2>20, <2>4 DEF vars, TypeOK, Keeps, HoldsRow, Busy, Op, Template
  <2> QED
    BY <2>5, <2>6, <2>7, <2>8, <2>9, <2>10, <2>14, <2>15, <2>16, <2>18, <2>19, <2>20
       DEF Next
<1> QED
  BY <1>1, <1>2, PTL DEF Spec

\* No expense refers to a template that is gone.
THEOREM LinksAlwaysResolve == Spec => []LinksResolve
BY IInvHolds, PTL DEF IInv

\* Without overlapping requests nobody is charged twice for one occurrence, and none is
\* both skipped and paid.
THEOREM NoneSettledTwice == Spec => []SettledOnce
BY IInvHolds, PTL DEF IInv

\* Without overlapping requests the next occurrence is the only one that is open;
\* without edits the occurrences form a chain whose links are settled in turn.  Each
\* alone is enough.
THEOREM NoneLost == Spec => []NoOccurrenceLost
<1>1. IInv => NoOccurrenceLost
  <2> SUFFICES ASSUME IInv, NEW x \in DOMAIN templates, x \notin raced \cap edited,
                      NEW d \in DatesOf(x), Before(d, templates[x].next)
               PROVE  Settled(x, d)
    BY DEF NoOccurrenceLost, Settled
  <2>1. Announced(x, d) /\ Announced(x, templates[x].next)
    BY DEF IInv, NextAnnounced, DatesOf, TypeOK, Announced, Occurrence
  <2>2. d \in Dates /\ templates[x].next \in Dates
    BY DEF IInv, TypeOK, DatesOf, Row
  <2>3. CASE x \notin raced
    <3>1. d # templates[x].next
      BY <2>2, BeforeIsAnOrder
    <3> QED
      BY <2>1, <2>3, <3>1 DEF IInv, UnracedInOrder
  <2>4. CASE x \notin edited
    BY <2>1, <2>4 DEF IInv, UneditedChain, FollowedUp
  <2> QED
    BY <2>3, <2>4
<1> QED
  BY <1>1, IInvHolds, PTL

\* The tables and the requests have their types; every occurrence is a date of the
\* calendar, and every expense pays an occurrence that was announced.
THEOREM TypeCorrect == Spec => []TypeOK
BY IInvHolds, PTL DEF IInv

\* From every date a template ever gets to, the next one is a date, and as far away as the
\* frequency says.
THEOREM WellSpacedHolds == Spec => []WellSpaced
<1>1. TypeOK => WellSpaced
  <2> SUFFICES ASSUME TypeOK, NEW o \in due, NEW f \in {"daily", "weekly", "monthly", "yearly"}
               PROVE  /\ calculateNextOccurrence(o.date, f) \in Dates
                      /\ DayNumber(calculateNextOccurrence(o.date, f)) - DayNumber(o.date)
                            \in Gap(f)
    BY DEF WellSpaced
  <2>1. o.date \in Dates
    BY DEF TypeOK
  <2> QED
    BY <2>1, NextIsLater, NextIsWellSpaced
<1> QED
  BY <1>1, TypeCorrect, PTL

\* The group of a frozen request is archived still, and so the request has not got as far
\* as to write.
Frozen == \A t \in Threads : Busy(t) /\ thr[t].frozen => archived /\ ~ At(t, "writing")

\* A request received while the group is archived changes no template and no expense,
\* unless the group has been restored in the meantime.
THEOREM FrozenSinceReceivedHolds == Spec => FrozenSinceReceived
<1> DEFINE EndsUnchanged == \A t \in Threads : (Busy(t) /\ thr[t].frozen /\ ~ Busy(t)') =>
               UNCHANGED <<templates, expenses>>
<1>1. Init => Frozen
  BY DEF Init, Frozen, Busy, Idle
<1>2. TypeOK /\ Frozen /\ [Next]_vars => Frozen' /\ EndsUnchanged
  <2> SUFFICES ASSUME TypeOK, Frozen, [Next]_vars PROVE Frozen' /\ EndsUnchanged
    OBVIOUS
  <2>a. thr \in [Threads -> ThreadState] /\ archived \in BOOLEAN
    BY DEF TypeOK
  <2>b. \A t \in Threads : Busy(t) =>
            thr[t].at \in {"reading", "checking", "writing"} /\ thr[t].frozen \in BOOLEAN
    BY <2>a DEF ThreadState, Busy, Idle
  \* What a request must be so as to be no exception to Frozen after the step.
  <2>1. ASSUME archived' = archived,
               \A u \in Threads : Busy(u)' =>
                   \/ ~ thr'[u].frozen
                   \/ archived /\ ~ At(u, "writing")'
                   \/ /\ Busy(u) /\ thr'[u].frozen = thr[u].frozen /\ thr'[u].at = thr[u].at
        PROVE  Frozen'
    BY <2>1 DEF Frozen, At
  \* A thread that writes ends alone.
  <2>2. ASSUME NEW t \in Threads, NEW x, At(t, "writing"), archived' = archived,
               End(t) \/ EndOvertaking(t, x)
        PROVE  Frozen' /\ EndsUnchanged
    <3>1. ~ thr[t].frozen /\ ~ Busy(t)'
      BY <2>2, <2>a, <2>b DEF Frozen, Busy, At, End, EndOvertaking, Idle
    <3>2. \A u \in Threads \ {t} :
              /\ thr'[u].at = thr[u].at /\ thr[u].frozen = thr'[u].frozen
      BY <2>2, <2>a, <2>b DEF End, EndOvertaking, ThreadState, Busy, Idle
    <3> QED
      BY <2>1, <2>2, <3>1, <3>2 DEF Busy
  <2>3. ASSUME NEW t \in Threads, NEW r \in Request, Receive(t, r)
        PROVE  Frozen' /\ EndsUnchanged
    BY <2>3, <2>1, <2>a DEF Receive, Frozen, Busy, At
  <2>4. ASSUME NEW t \in Threads, ReadTemplate(t)
        PROVE  Frozen' /\ EndsUnchanged
    <3>1. /\ UNCHANGED <<templates, expenses, archived>>
          /\ \/ thr'[t].at = "checking" /\ thr'[t].frozen = thr[t].frozen
             \/ thr'[t].at = "idle"
          /\ \A u \in Threads \ {t} : thr'[u] = thr[u]
          /\ Busy(t)
      BY <2>4, <2>a DEF ReadTemplate, End, Idle, At, Busy
    <3> QED
      BY <2>1, <3>1 DEF Frozen, Busy, At
  <2>5. ASSUME NEW t \in Threads, CheckArchived(t)
        PROVE  Frozen' /\ EndsUnchanged
    <3>1. /\ UNCHANGED <<templates, expenses, archived>>
          /\ \A u \in Threads \ {t} : thr'[u] = thr[u]
          /\ Busy(t)
      BY <2>5, <2>a DEF CheckArchived, End, At, Busy
    <3>2. CASE archived
      <4>1. ~ Busy(t)'
        BY <3>2, <2>5, <2>a DEF CheckArchived, End, Idle, Busy
      <4> QED
        BY <2>1, <3>1, <4>1 DEF Busy
    <3>3. CASE ~ archived
      <4>1. ~ thr[t].frozen
        BY <3>1, <3>3 DEF Frozen
      <4>2. thr'[t].frozen = thr[t].frozen
        BY <3>1, <3>3, <2>5, <2>a DEF CheckArchived, ThreadState, Busy, Idle
      <4> QED
        BY <2>1, <3>1, <4>1, <4>2 DEF Busy
    <3> QED
      BY <3>2, <3>3
  <2>6. ASSUME NEW t \in Threads, Create(t) \/ Update(t) \/ Delete(t) \/ Pay(t) \/ Skip(t)
        PROVE  Frozen' /\ EndsUnchanged
    <3>1. /\ At(t, "writing") /\ archived' = archived
          /\ End(t) \/ EndOvertaking(t, Template(t))
      BY <2>6 DEF Create, Update, Delete, Pay, Skip, Advance
    <3> QED
      BY <2>2, <3>1
  <2>7. ASSUME NEW t \in Threads, GiveUp(t)
        PROVE  Frozen' /\ EndsUnchanged
    BY <2>7, <2>1, <2>a DEF GiveUp, End, Idle, Busy, Frozen
  <2>8. ASSUME Crash
        PROVE  Frozen' /\ EndsUnchanged
    BY <2>8 DEF Crash, Idle, Busy, Frozen
  <2>9. ASSUME SetGroupArchived
        PROVE  Frozen' /\ EndsUnchanged
    <3>1. UNCHANGED <<templates, expenses>> /\ archived' = ~ archived
      BY <2>9 DEF SetGroupArchived
    <3>2. ASSUME NEW u \in Threads, Busy(u)'
          PROVE  ~ thr'[u].frozen
      BY <3>2, <2>9, <2>a, <2>b DEF SetGroupArchived, Busy, ThreadState, Idle, Frozen
    <3> QED
      BY <3>1, <3>2 DEF Frozen
  <2>10. CASE UNCHANGED vars
    BY <2>10 DEF vars, Frozen, Busy, At
  <2> QED
    BY <2>3, <2>4, <2>5, <2>6, <2>7, <2>8, <2>9, <2>10 DEF Next
<1> QED
  BY <1>1, <1>2, TypeCorrect, PTL DEF Spec, FrozenSinceReceived
=============================================================================
