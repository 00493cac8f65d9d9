-------------------------- MODULE CostWindowsProofs --------------------------
(***************************************************************************)
(* Proofs about the windows, for every year and every range of days.  The  *)
(* calendar first: what time.Date makes of a month outside the year, and   *)
(* that months begin in order, as far apart as they are long.  Everything  *)
(* after it uses only that.                                                *)
(***************************************************************************)
EXTENDS CostWindows, FiniteSetTheorems, TLAPS

-----------------------------------------------------------------------------
(* The calendar.                                                           *)

\* A year has 365 days, or 366.
LEMMA YearLength ==
    ASSUME NEW y \in Int
    PROVE  /\ DaysBeforeYear(y) \in Int
           /\ DaysBeforeYear(y + 1)
                = DaysBeforeYear(y) + 365 + (IF IsLeap(y) THEN 1 ELSE 0)
BY SMTT(30) DEF DaysBeforeYear, IsLeap

LEMMA YearsApart ==
    ASSUME NEW y \in Int, NEW z \in Int, y < z
    PROVE  DaysBeforeYear(y) + 365 <= DaysBeforeYear(z)
BY SMTT(60) DEF DaysBeforeYear

\* Where a month of a year begins, within the year.
LEMMA MonthInYear ==
    ASSUME NEW y \in Int, NEW m \in 1..12
    PROVE  /\ DaysBeforeMonth(y, m) \in 0 .. 335
           /\ m < 12 => DaysBeforeMonth(y, m + 1)
                            = DaysBeforeMonth(y, m) + DaysIn(y, m)
           /\ m = 12 => DaysBeforeMonth(y, m)
                            = 334 + (IF IsLeap(y) THEN 1 ELSE 0)
           /\ \A n \in 1..12 : m < n =>
                DaysBeforeMonth(y, m) + 28 <= DaysBeforeMonth(y, n)
           /\ DaysIn(y, m) \in 28 .. 31
<1>1. m \in {1, 2, 3, 4, 5, 6, 7, 8, 9, 10, 11, 12}
    OBVIOUS
<1>2. IsLeap(y) \in BOOLEAN
    BY DEF IsLeap
<1> HIDE DEF IsLeap
<1>. QED
    BY <1>1, <1>2 DEF DaysBeforeMonth, DaysIn

\* Both are numbers.
LEMMA DaysTyped ==
    ASSUME NEW y \in Int, NEW m \in 1..12
    PROVE  /\ DaysBeforeYear(y) \in Int
           /\ DaysBeforeMonth(y, m) \in Int
<1>1. DaysBeforeYear(y) \in Int
    BY YearLength
<1>2. DaysBeforeMonth(y, m) \in 0 .. 335
    BY MonthInYear
<1>. QED
    BY <1>1, <1>2

\* Month i counted from the start of year y is month k of year a.
LEMMA Carried ==
    ASSUME NEW y \in Int, NEW i \in Int
    PROVE  \E a \in Int, k \in 1..12 :
                /\ i = 12 * (a - y) + k
                /\ Date(y, i, 1) = DaysBeforeYear(a) + DaysBeforeMonth(a, k)
<1> DEFINE q == (i - 1) \div 12
           p == (i - 1) % 12
<1>1. q \in Int /\ p \in 0..11 /\ i - 1 = 12 * q + p
    BY SMT
<1>2. Date(y, i, 1)
        = DaysBeforeYear(y + q) + DaysBeforeMonth(y + q, p + 1) + 1 - 1
    BY DEF Date
<1> HIDE DEF q, p
<1>3. /\ y + q \in Int /\ p + 1 \in 1..12
      /\ i = 12 * ((y + q) - y) + (p + 1)
    BY <1>1
<1>4. /\ DaysBeforeYear(y + q) \in Int
      /\ DaysBeforeMonth(y + q, p + 1) \in Int
    BY <1>3, DaysTyped
<1>5. Date(y, i, 1) = DaysBeforeYear(y + q) + DaysBeforeMonth(y + q, p + 1)
    BY <1>2, <1>4
<1>. QED
    BY <1>3, <1>5

\* Months begin in order, at least 28 days apart.
LEMMA MonthsInOrder ==
    ASSUME NEW y \in Int, NEW i \in Int, NEW j \in Int, i < j
    PROVE  /\ Date(y, i, 1) \in Int
           /\ Date(y, j, 1) \in Int
           /\ Date(y, i, 1) + 28 <= Date(y, j, 1)
<1>1. PICK a \in Int, k \in 1..12 :
        /\ i = 12 * (a - y) + k
        /\ Date(y, i, 1) = DaysBeforeYear(a) + DaysBeforeMonth(a, k)
    BY Carried
<1>2. PICK b \in Int, l \in 1..12 :
        /\ j = 12 * (b - y) + l
        /\ Date(y, j, 1) = DaysBeforeYear(b) + DaysBeforeMonth(b, l)
    BY Carried
<1>3. /\ DaysBeforeMonth(a, k) \in 0 .. 335
      /\ DaysBeforeMonth(b, l) \in 0 .. 335
    BY MonthInYear
<1>4. DaysBeforeYear(a) \in Int /\ DaysBeforeYear(b) \in Int
    BY YearLength
<1>5. a < b \/ (a = b /\ k < l)
    BY <1>1, <1>2
<1>6. CASE a < b
    <2>1. DaysBeforeYear(a) + 365 <= DaysBeforeYear(b)
        BY <1>6, YearsApart
    <2>2. \A p, q \in Int : \A u, v \in 0 .. 335 :
            p + 365 <= q => p + u + 28 <= q + v
        OBVIOUS
    <2>3. DaysBeforeYear(a) + DaysBeforeMonth(a, k) + 28
            <= DaysBeforeYear(b) + DaysBeforeMonth(b, l)
        BY <1>3, <1>4, <2>1, <2>2
    <2>. QED
        BY <1>1, <1>2, <1>3, <1>4, <2>3
<1>7. CASE a = b /\ k < l
    <2>1. DaysBeforeMonth(a, k) + 28 <= DaysBeforeMonth(a, l)
        BY <1>7, MonthInYear
    <2>2. \A p \in Int : \A u, v \in 0 .. 335 : u + 28 <= v => p + u + 28 <= p + v
        OBVIOUS
    <2>3. DaysBeforeMonth(a, l) \in 0 .. 335
        BY <1>3, <1>7
    <2>4. DaysBeforeYear(a) + DaysBeforeMonth(a, k) + 28
            <= DaysBeforeYear(a) + DaysBeforeMonth(a, l)
        BY <1>3, <1>4, <2>1, <2>2, <2>3
    <2>. QED
        BY <1>1, <1>2, <1>3, <1>4, <1>7, <2>4
<1>. QED
    BY <1>5, <1>6, <1>7

\* A month of the year, and the months before the first and after the last.
LEMMA MonthStarts ==
    ASSUME NEW y \in Int
    PROVE  /\ \A k \in 1..12 :
                Date(y, k, 1) = DaysBeforeYear(y) + DaysBeforeMonth(y, k)
           /\ Date(y, 13, 1) = DaysBeforeYear(y) + DaysBeforeMonth(y, 12) + 31
           /\ Date(y, 1, 1) = Date(y, 0, 1) + 31
<1>1. ASSUME NEW k \in 1..12
      PROVE  Date(y, k, 1) = DaysBeforeYear(y) + DaysBeforeMonth(y, k)
    <2> k \in Int
        OBVIOUS
    <2>1. PICK a \in Int, l \in 1..12 :
            /\ k = 12 * (a - y) + l
            /\ Date(y, k, 1) = DaysBeforeYear(a) + DaysBeforeMonth(a, l)
        BY Carried
    <2>2. a = y /\ l = k
        BY <2>1
    <2>. QED
        BY <2>1, <2>2
<1>2. Date(y, 13, 1) = DaysBeforeYear(y + 1) + DaysBeforeMonth(y + 1, 1)
    <2>1. PICK a \in Int, l \in 1..12 :
            /\ 13 = 12 * (a - y) + l
            /\ Date(y, 13, 1) = DaysBeforeYear(a) + DaysBeforeMonth(a, l)
        BY Carried
    <2>2. a = y + 1 /\ l = 1
        BY <2>1
    <2>. QED
        BY <2>1, <2>2
<1>3. Date(y, 0, 1) = DaysBeforeYear(y - 1) + DaysBeforeMonth(y - 1, 12)
    <2>1. PICK a \in Int, l \in 1..12 :
            /\ 0 = 12 * (a - y) + l
            /\ Date(y, 0, 1) = DaysBeforeYear(a) + DaysBeforeMonth(a, l)
        BY Carried
    <2>2. a = y - 1 /\ l = 12
        BY <2>1
    <2>. QED
        BY <2>1, <2>2
<1>4. \A z \in Int : DaysBeforeMonth(z, 1) = 0
    BY DEF DaysBeforeMonth
<1>5. ASSUME NEW z \in Int
      PROVE  DaysBeforeYear(z + 1) = DaysBeforeYear(z) + DaysBeforeMonth(z, 12) + 31
    <2>1. /\ DaysBeforeYear(z) \in Int
          /\ DaysBeforeYear(z + 1)
                = DaysBeforeYear(z) + 365 + (IF IsLeap(z) THEN 1 ELSE 0)
          /\ DaysBeforeMonth(z, 12) = 334 + (IF IsLeap(z) THEN 1 ELSE 0)
        BY YearLength, MonthInYear
    <2>. QED
        BY <2>1
<1>6. /\ DaysBeforeYear(y) \in Int
      /\ DaysBeforeYear(y + 1) \in Int
      /\ DaysBeforeYear(y - 1) \in Int
      /\ DaysBeforeMonth(y, 12) \in Int
      /\ DaysBeforeMonth(y - 1, 12) \in Int
    BY DaysTyped
<1>7. Date(y, 13, 1) = DaysBeforeYear(y) + DaysBeforeMonth(y, 12) + 31
    <2>1. DaysBeforeMonth(y + 1, 1) = 0
        BY <1>4
    <2>2. DaysBeforeYear(y + 1)
            = DaysBeforeYear(y) + DaysBeforeMonth(y, 12) + 31
        BY <1>5
    <2>. QED
        BY <1>2, <1>6, <2>1, <2>2
<1>8. Date(y, 1, 1) = Date(y, 0, 1) + 31
    <2>1. DaysBeforeMonth(y, 1) = 0
        BY <1>4
    <2>2. y - 1 \in Int /\ (y - 1) + 1 = y
        OBVIOUS
    <2>3. DaysBeforeYear(y)
            = DaysBeforeYear(y - 1) + DaysBeforeMonth(y - 1, 12) + 31
        BY <1>5, <2>2
    <2>4. Date(y, 1, 1) = DaysBeforeYear(y) + 0
        BY <1>1, <2>1
    <2>. QED
        BY <1>3, <1>6, <2>3, <2>4
<1>. QED
    BY <1>1, <1>7, <1>8

\* A month begins when the one before it is over.
LEMMA MonthLength ==
    ASSUME NEW y \in Int, NEW m \in 1..12
    PROVE  /\ Date(y, m + 1, 1) = Date(y, m, 1) + DaysIn(y, m)
           /\ Date(y, m, 1) = Date(y, m - 1, 1)
                + DaysIn(y, IF m = 1 THEN 12 ELSE m - 1)
<1>1. ASSUME NEW i \in 1..11
      PROVE  Date(y, i + 1, 1) = Date(y, i, 1) + DaysIn(y, i)
    <2>1. /\ Date(y, i + 1, 1) = DaysBeforeYear(y) + DaysBeforeMonth(y, i + 1)
          /\ Date(y, i, 1) = DaysBeforeYear(y) + DaysBeforeMonth(y, i)
        BY MonthStarts
    <2>2. DaysBeforeMonth(y, i + 1) = DaysBeforeMonth(y, i) + DaysIn(y, i)
        BY MonthInYear
    <2>3. DaysIn(y, i) \in 28 .. 31
        BY MonthInYear
    <2>4. /\ DaysBeforeYear(y) \in Int
          /\ DaysBeforeMonth(y, i) \in Int
        <3>1. i \in 1..12
            OBVIOUS
        <3>. QED
            BY <3>1, DaysTyped
    <2>. QED
        BY <2>1, <2>2, <2>3, <2>4
<1>2. DaysIn(y, 12) = 31
    BY DEF DaysIn
<1>3. Date(y, 13, 1) = Date(y, 12, 1) + 31
    BY MonthStarts
<1>4. CASE m = 12
    <2>1. Date(y, 12, 1) = Date(y, 11, 1) + DaysIn(y, 11)
        BY <1>1
    <2>. QED
        BY <1>2, <1>3, <1>4, <2>1
<1>5. CASE m = 1
    <2>1. Date(y, 1, 1) = Date(y, 0, 1) + 31
        BY MonthStarts
    <2>2. Date(y, 2, 1) = Date(y, 1, 1) + DaysIn(y, 1)
        BY <1>1
    <2>. QED
        BY <1>2, <1>5, <2>1, <2>2
<1>6. CASE m \in 2..11
    <2>1. m - 1 \in 1..11 /\ (m - 1) + 1 = m /\ m # 1 /\ m \in 1..11
        BY <1>6
    <2>2. Date(y, m, 1) = Date(y, m - 1, 1) + DaysIn(y, m - 1)
        BY <1>1, <2>1
    <2>. QED
        BY <1>1, <2>1, <2>2
<1>. QED
    BY <1>4, <1>5, <1>6

-----------------------------------------------------------------------------
(* Today, and what has been asked today.                                   *)

LastMonth == IF today.m = 1 THEN 12 ELSE today.m - 1

TypeOK ==
    /\ today \in [y : Nat, m : 1..12, d : Nat]
    /\ today.d \in 1 .. DaysIn(today.y, today.m)

\* The windows on record are those of a request that came today.
AskedToday ==
    \/ asked = << >>
    \/ asked = Summary
    \/ \E days \in DayRanges :
        asked = Daily(NormalDaily(days)) \/ asked = Monthly(NormalMonthly(days))

WindowsInv == TypeOK /\ AskedToday

\* The next day is one of the calendar.
LEMMA TomorrowTyped ==
    ASSUME TypeOK, Tomorrow
    PROVE  TypeOK'
<1>1. /\ today.y \in Nat /\ today.m \in 1..12 /\ today.d \in Nat
      /\ today.d >= 1 /\ today.d <= DaysIn(today.y, today.m)
    BY MonthInYear DEF TypeOK
<1>2. \A y \in Nat, m \in 1..12 : DaysIn(y, m) \in 28 .. 31
    <2>1. \A y \in Nat : y \in Int
        OBVIOUS
    <2>. QED
        BY <2>1, MonthInYear
<1>3. CASE ~ MonthOver
    <2>1. today' = [today EXCEPT !.d = @ + 1]
        BY <1>3 DEF Tomorrow
    <2>2. /\ today' \in [y : Nat, m : 1..12, d : Nat]
          /\ today'.y = today.y /\ today'.m = today.m /\ today'.d = today.d + 1
        BY <1>1, <2>1 DEF TypeOK
    <2>3. today.d < DaysIn(today.y, today.m)
        BY <1>1, <1>2, <1>3 DEF MonthOver
    <2>4. DaysIn(today.y, today.m) \in 28 .. 31
        BY <1>1, <1>2
    <2>5. today.d + 1 \in 1 .. DaysIn(today.y, today.m)
        BY <1>1, <2>3, <2>4
    <2>. QED
        BY <2>2, <2>5 DEF TypeOK
<1>4. CASE MonthOver /\ today.m < 12
    <2>1. today' = [today EXCEPT !.m = @ + 1, !.d = 1]
        BY <1>4 DEF Tomorrow
    <2>2. /\ today' \in [y : Nat, m : 1..12, d : Nat]
          /\ today'.d = 1
        <3>1. today.m + 1 \in 1..12
            BY <1>1, <1>4
        <3>. QED
            BY <1>1, <2>1, <3>1 DEF TypeOK
    <2>3. DaysIn(today'.y, today'.m) \in 28 .. 31
        BY <1>2, <2>2
    <2>. QED
        BY <2>2, <2>3 DEF TypeOK
<1>5. CASE MonthOver /\ ~ (today.m < 12)
    <2>1. today' = [y |-> today.y + 1, m |-> 1, d |-> 1]
        BY <1>5 DEF Tomorrow
    <2>2. /\ today' \in [y : Nat, m : 1..12, d : Nat]
          /\ today'.d = 1
        BY <1>1, <2>1
    <2>3. DaysIn(today'.y, today'.m) \in 28 .. 31
        BY <1>2, <2>2
    <2>. QED
        BY <2>2, <2>3 DEF TypeOK
<1>. QED
    BY <1>3, <1>4, <1>5

LEMMA WindowsInvCorrect == Spec => []WindowsInv
<1>1. Init => WindowsInv
    <2> SUFFICES ASSUME Init
                 PROVE  WindowsInv
        OBVIOUS
    <2>1. today = [y |-> FirstYear, m |-> 1, d |-> 1] /\ FirstYear \in Nat
        BY WindowsAssumption DEF Init
    <2>2. DaysIn(FirstYear, 1) = 31
        BY DEF DaysIn
    <2>. QED
        BY <2>1, <2>2 DEF Init, WindowsInv, TypeOK, AskedToday
<1>2. WindowsInv /\ [Next]_vars => WindowsInv'
    <2> SUFFICES ASSUME WindowsInv, [Next]_vars
                 PROVE  WindowsInv'
        OBVIOUS
    <2>1. CASE Tomorrow
        BY <2>1, TomorrowTyped DEF WindowsInv, AskedToday, Tomorrow
    <2>2. ASSUME UNCHANGED today
          PROVE  /\ TypeOK'
                 /\ Summary' = Summary
                 /\ \A days : Daily(days)' = Daily(days)
                 /\ \A days : Monthly(days)' = Monthly(days)
        BY <2>2 DEF WindowsInv, TypeOK, Summary, Daily, Monthly, Previous,
            Forecast, Window, DayOffset, MonthStart, Now
    <2>3. CASE AskSummary
        BY <2>2, <2>3 DEF AskSummary, WindowsInv, AskedToday
    <2>4. ASSUME NEW days \in DayRanges, AskDaily(days) \/ AskMonthly(days)
          PROVE  WindowsInv'
        <3>1. \/ asked' = Daily(NormalDaily(days))'
              \/ asked' = Monthly(NormalMonthly(days))'
            BY <2>2, <2>4 DEF AskDaily, AskMonthly
        <3>. QED
            BY <2>2, <2>4, <3>1 DEF AskDaily, AskMonthly, WindowsInv, AskedToday
    <2>5. CASE UNCHANGED vars
        <3>1. UNCHANGED today /\ UNCHANGED asked
            BY <2>5 DEF vars
        <3>. QED
            BY <2>2, <3>1 DEF WindowsInv, AskedToday
    <2>. QED
        BY <2>1, <2>3, <2>4, <2>5 DEF Next
<1>. QED
    BY <1>1, <1>2, PTL DEF Spec

\* Where the months around today begin, and what day it is.
LEMMA Today ==
    ASSUME TypeOK
    PROVE  /\ \A n \in Int : MonthStart(n) \in Int
           /\ \A n, k \in Int : n < k => MonthStart(n) + 28 <= MonthStart(k)
           /\ today.d \in Int /\ 1 <= today.d
           /\ today.d <= DaysIn(today.y, today.m)
           /\ Now = MonthStart(0) + today.d - 1
           /\ MonthStart(1) = MonthStart(0) + DaysIn(today.y, today.m)
           /\ MonthStart(0) = MonthStart(-1) + DaysIn(today.y, LastMonth)
           /\ DaysIn(today.y, today.m) \in 28 .. 31
           /\ DaysIn(today.y, LastMonth) \in 28 .. 31
<1>1. /\ today.y \in Int /\ today.m \in 1..12 /\ today.m \in Int
      /\ today.d \in Nat /\ today.d \in 1 .. DaysIn(today.y, today.m)
    BY DEF TypeOK
<1>2. /\ DaysIn(today.y, today.m) \in 28 .. 31
      /\ LastMonth \in 1..12
    BY <1>1, MonthInYear DEF LastMonth
<1>3. DaysIn(today.y, LastMonth) \in 28 .. 31
    BY <1>1, <1>2, MonthInYear
<1>4. /\ Date(today.y, today.m + 1, 1)
            = Date(today.y, today.m, 1) + DaysIn(today.y, today.m)
      /\ Date(today.y, today.m, 1)
            = Date(today.y, today.m - 1, 1) + DaysIn(today.y, LastMonth)
    BY <1>1, MonthLength DEF LastMonth
<1>5. ASSUME NEW n \in Int
      PROVE  /\ today.m + n \in Int
             /\ MonthStart(n) = Date(today.y, today.m + n, 1)
    BY <1>1 DEF MonthStart
<1>6. ASSUME NEW n \in Int, NEW k \in Int, n < k
      PROVE  /\ MonthStart(n) \in Int
             /\ MonthStart(n) + 28 <= MonthStart(k)
    <2>1. today.m + n < today.m + k
        BY <1>1, <1>6
    <2>2. /\ Date(today.y, today.m + n, 1) \in Int
          /\ Date(today.y, today.m + n, 1) + 28 <= Date(today.y, today.m + k, 1)
        BY <1>1, <1>5, <2>1, MonthsInOrder
    <2>. QED
        BY <1>5, <2>2
<1>7. ASSUME NEW n \in Int
      PROVE  MonthStart(n) \in Int
    <2>1. n + 1 \in Int /\ n < n + 1
        OBVIOUS
    <2>. QED
        BY <1>6, <2>1
<1>8. /\ today.m + 0 = today.m
      /\ today.m + (-1) = today.m - 1
    BY <1>1
<1>9. /\ MonthStart(1) = MonthStart(0) + DaysIn(today.y, today.m)
      /\ MonthStart(0) = MonthStart(-1) + DaysIn(today.y, LastMonth)
    BY <1>4, <1>5, <1>8
<1>10. Now = MonthStart(0) + today.d - 1
    <2>1. \E z \in Int : /\ Now = z + today.d - 1
                         /\ MonthStart(0) = z + 1 - 1
        <3>1. PICK a \in Int, k \in 1..12 :
                /\ a = today.y + (today.m - 1) \div 12
                /\ k = ((today.m - 1) % 12) + 1
            BY <1>1
        <3>2. DaysBeforeYear(a) + DaysBeforeMonth(a, k) \in Int
            <4>1. DaysBeforeYear(a) \in Int /\ DaysBeforeMonth(a, k) \in Int
                BY DaysTyped
            <4>. QED
                BY <4>1
        <3>3. /\ Now = DaysBeforeYear(a) + DaysBeforeMonth(a, k) + today.d - 1
              /\ Date(today.y, today.m, 1)
                    = DaysBeforeYear(a) + DaysBeforeMonth(a, k) + 1 - 1
            BY <3>1 DEF Now, Date
        <3>. QED
            BY <1>5, <1>8, <3>2, <3>3
    <2>. QED
        BY <1>1, <2>1
<1>. QED
    BY <1>1, <1>2, <1>3, <1>6, <1>7, <1>9, <1>10

\* The bounds of the windows.
LEMMA SummaryBounds ==
    ASSUME TypeOK
    PROVE  /\ DOMAIN Summary = {"current", "previous", "forecast"}
           /\ Summary.current.from = MonthStart(0)
           /\ Summary.current.to = MonthStart(0) + today.d - 1
           /\ Summary.previous.from = MonthStart(-1)
           /\ Summary.previous.to = MonthStart(-1) + today.d - 1
           /\ Summary.forecast.from = MonthStart(0) + today.d - 1
           /\ Summary.forecast.to = MonthStart(1)
<1>1. /\ Now = MonthStart(0) + today.d - 1
      /\ MonthStart(0) \in Int /\ MonthStart(-1) \in Int /\ today.d \in Int
    BY Today
<1>2. DayOffset = today.d - 1
    BY <1>1 DEF DayOffset
<1>3. MonthStart(-1) + DayOffset = MonthStart(-1) + today.d - 1
    BY <1>1, <1>2
<1>. QED
    BY <1>1, <1>3 DEF Summary, Previous, Forecast, Window

\* The clamps of normalize.
LEMMA ClampedDays ==
    ASSUME NEW days \in Nat
    PROVE  /\ NormalDaily(days) \in 2 .. 365
           /\ NormalMonthly(days) \in 30 .. 390
           /\ NormalMonthly(days) \div 30 \in 1 .. 13
<1>1. NormalDaily(days) \in 2 .. 365
    BY DEF NormalDaily
<1>2. NormalMonthly(days) \in 30 .. 390
    BY DEF NormalMonthly
<1>3. \A n \in 30 .. 390 : n \div 30 \in 1 .. 13
    BY SMT
<1>. QED
    BY <1>1, <1>2, <1>3

LEMMA ChartBounds ==
    ASSUME TypeOK, NEW days \in DayRanges
    PROVE  /\ DOMAIN Daily(NormalDaily(days)) = {"daily"}
           /\ DOMAIN Monthly(NormalMonthly(days)) = {"monthly"}
           /\ Length(Daily(NormalDaily(days)).daily) > 0
           /\ \E first \in -12 .. 0 :
                /\ first = -(NormalMonthly(days) \div 30 - 1)
                /\ Monthly(NormalMonthly(days)).monthly
                        = Window(MonthStart(first), Now)
<1>1. days \in Nat
    BY WindowsAssumption
<1>2. DOMAIN Daily(NormalDaily(days)) = {"daily"}
    BY DEF Daily
<1>3. DOMAIN Monthly(NormalMonthly(days)) = {"monthly"}
    BY DEF Monthly
<1>4. Length(Daily(NormalDaily(days)).daily) > 0
    <2>1. Length(Daily(NormalDaily(days)).daily)
            = Now - (Now - NormalDaily(days))
        BY DEF Length, Daily, Window
    <2>2. NormalDaily(days) \in 2 .. 365
        BY <1>1, ClampedDays
    <2>3. Now \in Int
        BY Today
    <2>. QED
        BY <2>1, <2>2, <2>3
<1>5. Monthly(NormalMonthly(days)).monthly
        = Window(MonthStart(-(NormalMonthly(days) \div 30 - 1)), Now)
    BY DEF Monthly
<1>6. -(NormalMonthly(days) \div 30 - 1) \in -12 .. 0
    <2>1. NormalMonthly(days) \div 30 \in 1 .. 13
        BY <1>1, ClampedDays
    <2>2. \A n \in 1 .. 13 : -(n - 1) \in -12 .. 0
        OBVIOUS
    <2>. QED
        BY <2>1, <2>2
<1>. QED
    BY <1>2, <1>3, <1>4, <1>5, <1>6

-----------------------------------------------------------------------------
(* The windows of the summary, and the empty ones.                         *)

\* On every day of any calendar month to date and forecast tile the month, and
\* the window they are compared with is as long as the month to date and leaves
\* last month at the end of a March only.
THEOREM SummaryWindowsCorrect == Spec => []SummaryWindows
<1>1. WindowsInv => SummaryWindows
    <2> SUFFICES ASSUME WindowsInv
                 PROVE  SummaryWindows
        OBVIOUS
    <2> USE DEF Is
    <2>1. CASE asked = Summary
        <3> DEFINE start == MonthStart(0)
                   before == MonthStart(-1)
                   next == MonthStart(1)
                   days == DaysIn(today.y, today.m)
                   daysBefore == DaysIn(today.y, LastMonth)
        <3>1. /\ start \in Int /\ before \in Int /\ next \in Int
              /\ today.d \in Int /\ 1 <= today.d /\ today.d <= days
              /\ next = start + days
              /\ start = before + daysBefore
              /\ days \in 28 .. 31 /\ daysBefore \in 28 .. 31
            BY Today DEF WindowsInv
        <3>2. /\ asked.current.from = start
              /\ asked.current.to = start + today.d - 1
              /\ asked.previous.from = before
              /\ asked.previous.to = before + today.d - 1
              /\ asked.forecast.from = start + today.d - 1
              /\ asked.forecast.to = next
            BY <2>1, SummaryBounds DEF WindowsInv
        <3>3. today.m = 3 /\ today.d - 1 > DaysIn(today.y, 2)
                <=> today.d - 1 > daysBefore
            <4>1. today.m \in {1, 2, 3, 4, 5, 6, 7, 8, 9, 10, 11, 12}
                BY DEF WindowsInv, TypeOK
            <4>2. today.m # 3 => days - 1 <= daysBefore
                BY <4>1 DEF DaysIn, LastMonth
            <4>3. today.m = 3 => daysBefore = DaysIn(today.y, 2)
                BY DEF LastMonth
            <4> HIDE DEF days, daysBefore
            <4>. QED
                BY <3>1, <4>2, <4>3
        <3>4. DaysIn(today.y, IF today.m = 1 THEN 12 ELSE today.m - 1)
                = daysBefore
            BY DEF LastMonth
        <3> HIDE DEF start, before, next, days, daysBefore
        <3>5. MonthTiled
            BY <3>1, <3>2 DEF MonthTiled, Length, days
        <3>6. PreviousSpillsOnlyInMarch
            BY <3>1, <3>2, <3>3, <3>4 DEF PreviousSpillsOnlyInMarch, Length
        <3>. QED
            BY <3>5, <3>6 DEF SummaryWindows
    <2>2. CASE DOMAIN asked \subseteq {"daily", "monthly"}
        BY <2>2 DEF SummaryWindows, MonthTiled, PreviousSpillsOnlyInMarch
    <2>3. asked = Summary \/ DOMAIN asked \subseteq {"daily", "monthly"}
        BY ChartBounds DEF WindowsInv, AskedToday
    <2>. QED
        BY <2>1, <2>2, <2>3
<1>. QED
    BY <1>1, WindowsInvCorrect, PTL

\* Only on the first of a month is a window empty, and a chart's only when it
\* spans one month.
THEOREM EmptyOnlyOnTheFirstCorrect == Spec => []EmptyOnlyOnTheFirst
<1>1. WindowsInv => EmptyOnlyOnTheFirst
    <2> SUFFICES ASSUME WindowsInv, NEW request \in DOMAIN asked,
                        Length(asked[request]) <= 0
                 PROVE  /\ today.d = 1
                        /\ request = "monthly" => asked.monthly.from = Now
        BY DEF EmptyOnlyOnTheFirst
    <2>1. /\ \A n \in Int : MonthStart(n) \in Int
          /\ today.d \in Int /\ 1 <= today.d
          /\ today.d <= DaysIn(today.y, today.m)
          /\ DaysIn(today.y, today.m) \in 28 .. 31
          /\ Now = MonthStart(0) + today.d - 1
          /\ MonthStart(1) = MonthStart(0) + DaysIn(today.y, today.m)
        BY Today DEF WindowsInv
    <2>2. CASE asked = Summary
        <3>1. /\ request \in {"current", "previous", "forecast"}
              /\ asked.current.from = MonthStart(0)
              /\ asked.current.to = MonthStart(0) + today.d - 1
              /\ asked.previous.from = MonthStart(-1)
              /\ asked.previous.to = MonthStart(-1) + today.d - 1
              /\ asked.forecast.from = MonthStart(0) + today.d - 1
              /\ asked.forecast.to = MonthStart(1)
            BY <2>2, SummaryBounds DEF WindowsInv
        <3>2. MonthStart(0) \in Int /\ MonthStart(-1) \in Int
            BY <2>1
        <3>. QED
            BY <2>1, <3>1, <3>2 DEF Length
    <2>3. ASSUME NEW days \in DayRanges, asked = Daily(NormalDaily(days))
          PROVE  FALSE
        <3>1. request = "daily" /\ Length(asked.daily) > 0
            BY <2>3, ChartBounds DEF WindowsInv
        <3>2. Length(asked.daily) \in Int
            <4>1. NormalDaily(days) \in 2 .. 365 /\ Now \in Int
                BY <2>1, ClampedDays, WindowsAssumption
            <4>. QED
                BY <2>3, <4>1 DEF Length, Daily, Window
        <3>. QED
            BY <3>1, <3>2
    <2>4. ASSUME NEW days \in DayRanges, asked = Monthly(NormalMonthly(days))
          PROVE  /\ today.d = 1
                 /\ asked.monthly.from = Now
        <3>1. PICK first \in -12 .. 0 :
                asked.monthly = Window(MonthStart(first), Now)
            BY <2>4, ChartBounds DEF WindowsInv
        <3>2. /\ request = "monthly"
              /\ asked.monthly.from = MonthStart(first)
              /\ asked.monthly.to = Now
            BY <2>4, <3>1, ChartBounds DEF WindowsInv, Window
        <3>3. Now <= MonthStart(first)
            <4>1. MonthStart(first) \in Int /\ Now \in Int
                BY <2>1
            <4>. QED
                BY <3>2, <4>1 DEF Length
        <3>4. first = 0
            <4> SUFFICES ASSUME first # 0
                         PROVE  FALSE
                OBVIOUS
            <4>1. first < 0 /\ first \in Int
                OBVIOUS
            <4>2. MonthStart(first) + 28 <= MonthStart(0)
                BY <4>1, Today DEF WindowsInv
            <4>3. MonthStart(first) \in Int /\ MonthStart(0) \in Int
                BY <2>1
            <4>. QED
                BY <2>1, <3>3, <4>2, <4>3
        <3>. QED
            <4>1. MonthStart(0) \in Int
                BY <2>1
            <4>. QED
                BY <2>1, <3>2, <3>3, <3>4, <4>1
    <2>5. CASE asked = << >>
        BY <2>5
    <2>. QED
        BY <2>2, <2>3, <2>4, <2>5 DEF WindowsInv, AskedToday
<1>. QED
    BY <1>1, WindowsInvCorrect, PTL

-----------------------------------------------------------------------------
(* The demo client's months.                                               *)

Touched(w) ==
    {n \in MonthsAround : MonthStart(n + 1) > w.from /\ MonthStart(n) < w.to}

Period(w, n) ==
    Window(IF MonthStart(n) > w.from THEN MonthStart(n) ELSE w.from,
           IF MonthStart(n + 1) > w.to THEN w.to ELSE MonthStart(n + 1))

\* A window as this program asks for them: it starts in month first, and where
\* that month starts if it is empty, and is over by the end of this month.
Usual(w, first) ==
    /\ w = Window(w.from, w.to)
    /\ w.from \in Int /\ w.to \in Int
    /\ first \in -12 .. 0
    /\ MonthStart(first) <= w.from /\ w.from < MonthStart(first + 1)
    /\ w.from <= w.to /\ w.to <= MonthStart(1)
    /\ w.from = w.to => w.from = MonthStart(first)

LEMMA PeriodsOfTouched ==
    ASSUME NEW w
    PROVE  DemoPeriods(w) = {Period(w, n) : n \in Touched(w)}
BY DEF DemoPeriods, Touched, Period

\* Months that begin in order can be told by where they begin.
LEMMA Earlier ==
    ASSUME TypeOK, NEW n \in Int, NEW k \in Int
    PROVE  /\ MonthStart(n) \in Int /\ MonthStart(k) \in Int
           /\ MonthStart(n) < MonthStart(k) => n < k
           /\ n < k => MonthStart(n) < MonthStart(k)
<1>1. MonthStart(n) \in Int /\ MonthStart(k) \in Int
    BY Today
<1>2. ASSUME n < k
      PROVE  MonthStart(n) < MonthStart(k)
    <2>1. MonthStart(n) + 28 <= MonthStart(k)
        BY <1>2, Today
    <2>. QED
        BY <1>1, <2>1
<1>3. ASSUME k < n
      PROVE  MonthStart(k) < MonthStart(n)
    <2>1. MonthStart(k) + 28 <= MonthStart(n)
        BY <1>3, Today
    <2>. QED
        BY <1>1, <2>1
<1>. QED
    BY <1>1, <1>2, <1>3

\* Where the period of a touched month lies.
LEMMA PeriodPlace ==
    ASSUME TypeOK, NEW w, NEW first, Usual(w, first), NEW n \in Touched(w)
    PROVE  /\ n \in Int /\ first <= n /\ n <= 0
           /\ Period(w, n).from
                = IF n = first THEN w.from ELSE MonthStart(n)
           /\ Period(w, n).to
                = IF MonthStart(n + 1) > w.to THEN w.to ELSE MonthStart(n + 1)
           /\ w.from <= Period(w, n).from
           /\ Period(w, n).from < Period(w, n).to
           /\ Period(w, n).to <= w.to
<1>1. /\ n \in Int /\ n + 1 \in Int /\ first \in Int /\ first + 1 \in Int
      /\ w.from \in Int /\ w.to \in Int
      /\ MonthStart(n + 1) > w.from /\ MonthStart(n) < w.to
    BY DEF Touched, MonthsAround, Usual
<1>2. /\ MonthStart(n) \in Int /\ MonthStart(n + 1) \in Int
      /\ MonthStart(n) < MonthStart(n + 1)
      /\ MonthStart(first) \in Int /\ MonthStart(first + 1) \in Int
      /\ MonthStart(1) \in Int
    BY <1>1, Earlier
<1>3. first <= n
    <2>1. MonthStart(first) < MonthStart(n + 1)
        BY <1>1, <1>2 DEF Usual
    <2>2. first < n + 1
        BY <1>1, <2>1, Earlier
    <2>. QED
        BY <1>1, <2>2
<1>4. n <= 0
    <2>1. MonthStart(n) < MonthStart(1)
        BY <1>1, <1>2 DEF Usual
    <2>2. n < 1
        BY <1>1, <2>1, Earlier
    <2>. QED
        BY <1>1, <2>2
<1>5. n # first => MonthStart(n) > w.from
    <2> SUFFICES ASSUME n # first
                 PROVE  MonthStart(n) > w.from
        OBVIOUS
    <2>1. first + 1 <= n
        BY <1>1, <1>3
    <2>2. n = first + 1 \/ MonthStart(first + 1) < MonthStart(n)
        BY <1>1, <2>1, Earlier
    <2>. QED
        BY <1>1, <1>2, <2>2 DEF Usual
<1>6. w.from < w.to
    <2> SUFFICES ASSUME w.from = w.to
                 PROVE  FALSE
        BY <1>1 DEF Usual
    <2>1. w.from = MonthStart(first)
        BY DEF Usual
    <2>2. MonthStart(n) < MonthStart(first)
        BY <1>1, <2>1
    <2>3. n < first
        BY <1>1, <2>2, Earlier
    <2>. QED
        BY <1>1, <1>3, <2>3
<1>7. /\ Period(w, n).from
            = IF MonthStart(n) > w.from THEN MonthStart(n) ELSE w.from
      /\ Period(w, n).to
            = IF MonthStart(n + 1) > w.to THEN w.to ELSE MonthStart(n + 1)
    BY DEF Period, Window
<1>8. n = first => ~ (MonthStart(n) > w.from)
    BY <1>1, <1>2 DEF Usual
<1>9. Period(w, n).from = IF n = first THEN w.from ELSE MonthStart(n)
    BY <1>5, <1>7, <1>8
<1>. QED
    BY <1>1, <1>2, <1>3, <1>4, <1>5, <1>6, <1>7, <1>9

\* The property of the demo's periods, of one window.
Tiles(w) ==
    LET periods == DemoPeriods(w)
    IN  /\ \A p \in periods : w.from <= p.from /\ p.from < p.to /\ p.to <= w.to
        /\ w.from < w.to => \E p \in periods : p.from = w.from
        /\ \A p \in periods :
            p.to = w.to \/ Cardinality({q \in periods : q.from = p.to}) = 1

LEMMA UsualTiles ==
    ASSUME TypeOK, NEW w, NEW first, Usual(w, first)
    PROVE  Tiles(w)
<1> DEFINE P == {Period(w, n) : n \in Touched(w)}
<1>1. DemoPeriods(w) = P
    BY PeriodsOfTouched
<1>2. ASSUME NEW p \in P
      PROVE  w.from <= p.from /\ p.from < p.to /\ p.to <= w.to
    BY <1>2, PeriodPlace
<1>3. ASSUME w.from < w.to
      PROVE  \E p \in P : p.from = w.from
    <2>1. first \in MonthsAround /\ first \in Int
        BY DEF Usual, MonthsAround
    <2>2. MonthStart(first) \in Int
        BY <2>1, Earlier
    <2>3. first \in Touched(w)
        BY <1>3, <2>1, <2>2 DEF Usual, Touched
    <2>4. Period(w, first) \in P /\ Period(w, first).from = w.from
        BY <2>3, PeriodPlace
    <2>. QED
        BY <2>4
<1>4. ASSUME NEW p \in P, p.to # w.to
      PROVE  Cardinality({q \in P : q.from = p.to}) = 1
    <2>1. PICK n \in Touched(w) : p = Period(w, n)
        OBVIOUS
    <2>2. /\ n \in Int /\ first <= n /\ n <= 0
          /\ p.to = MonthStart(n + 1) /\ ~ (MonthStart(n + 1) > w.to)
        BY <1>4, <2>1, PeriodPlace
    <2>3. /\ first \in Int /\ n + 1 \in Int /\ n + 2 \in Int
          /\ w.from \in Int /\ w.to \in Int
          /\ first >= -12
        BY <2>2 DEF Usual
    <2>4. /\ MonthStart(n + 1) \in Int /\ MonthStart(n + 2) \in Int
          /\ MonthStart(n + 1) < MonthStart(n + 2)
        <3>1. n + 1 < n + 2
            BY <2>2
        <3>. QED
            BY <2>3, <3>1, Earlier
    <2>5. MonthStart(n + 1) > w.from
        BY <2>1 DEF Touched
    <2>6. n + 1 \in Touched(w)
        <3>1. n + 1 \in MonthsAround
            BY <2>2, <2>3 DEF MonthsAround
        <3>2. (n + 1) + 1 = n + 2
            BY <2>2
        <3>3. MonthStart(n + 1) < w.to
            BY <1>4, <2>2, <2>3, <2>4
        <3>. QED
            BY <2>3, <2>4, <2>5, <3>1, <3>2, <3>3 DEF Touched
    <2>7. Period(w, n + 1).from = p.to
        <3>1. n + 1 # first
            BY <2>2, <2>3
        <3>. QED
            BY <2>2, <2>6, <3>1, PeriodPlace
    <2>8. ASSUME NEW q \in P, q.from = p.to
          PROVE  q = Period(w, n + 1)
        <3>1. PICK k \in Touched(w) : q = Period(w, k)
            OBVIOUS
        <3>2. /\ k \in Int
              /\ q.from = IF k = first THEN w.from ELSE MonthStart(k)
            BY <3>1, PeriodPlace
        <3>3. k # first
            BY <2>2, <2>3, <2>4, <2>5, <2>8, <3>2
        <3>4. MonthStart(k) = MonthStart(n + 1)
            BY <2>2, <2>8, <3>2, <3>3
        <3>5. MonthStart(k) \in Int
            BY <3>2, Earlier
        <3>6. ~ (k < n + 1) /\ ~ (n + 1 < k)
            BY <2>3, <2>4, <3>2, <3>4, <3>5, Earlier
        <3>7. k = n + 1
            BY <2>3, <3>2, <3>6
        <3>. QED
            BY <3>1, <3>7
    <2>9. {q \in P : q.from = p.to} = {Period(w, n + 1)}
        BY <2>6, <2>7, <2>8
    <2>. QED
        BY <2>9, FS_Singleton
<1>. QED
    BY <1>1, <1>2, <1>3, <1>4 DEF Tiles

\* The windows that are asked for are usual ones.
LEMMA AskedUsual ==
    ASSUME WindowsInv, NEW request \in DOMAIN asked \ {"daily"}
    PROVE  \E first \in -12 .. 0 :
            /\ Usual(asked[request], first)
            /\ request = "monthly" =>
                \E days \in DayRanges :
                    /\ first = -(NormalMonthly(days) \div 30 - 1)
                    /\ asked = Monthly(NormalMonthly(days))
                    /\ asked.monthly = Window(MonthStart(first), Now)
<1> TypeOK
    BY DEF WindowsInv
<1>1. /\ today.d \in Int /\ 1 <= today.d
      /\ today.d <= DaysIn(today.y, today.m)
      /\ DaysIn(today.y, today.m) \in 28 .. 31
      /\ DaysIn(today.y, LastMonth) \in 28 .. 31
      /\ Now = MonthStart(0) + today.d - 1
      /\ MonthStart(1) = MonthStart(0) + DaysIn(today.y, today.m)
      /\ MonthStart(0) = MonthStart(-1) + DaysIn(today.y, LastMonth)
    BY Today
<1>2. /\ MonthStart(0) \in Int /\ MonthStart(-1) \in Int /\ MonthStart(1) \in Int
      /\ Now \in Int
    BY <1>1, Today
<1>3. CASE asked = Summary
    <2>1. /\ request \in {"current", "previous", "forecast"}
          /\ asked.current = Window(MonthStart(0), MonthStart(0) + today.d - 1)
          /\ asked.previous
                = Window(MonthStart(-1), MonthStart(-1) + today.d - 1)
          /\ asked.forecast = Window(MonthStart(0) + today.d - 1, MonthStart(1))
        BY <1>3, SummaryBounds DEF Summary, Previous, Forecast, Window
    <2>2. Usual(asked.current, 0)
        BY <1>1, <1>2, <2>1 DEF Usual, Window
    <2>3. Usual(asked.previous, -1)
        BY <1>1, <1>2, <2>1 DEF Usual, Window
    <2>4. Usual(asked.forecast, 0)
        BY <1>1, <1>2, <2>1 DEF Usual, Window
    <2>. QED
        BY <2>1, <2>2, <2>3, <2>4
<1>4. ASSUME NEW days \in DayRanges, asked = Monthly(NormalMonthly(days))
      PROVE  \E first \in -12 .. 0 :
                /\ request = "monthly"
                /\ first = -(NormalMonthly(days) \div 30 - 1)
                /\ asked.monthly = Window(MonthStart(first), Now)
                /\ Usual(asked.monthly, first)
    <2>1. PICK first \in -12 .. 0 :
            /\ first = -(NormalMonthly(days) \div 30 - 1)
            /\ asked.monthly = Window(MonthStart(first), Now)
        BY <1>4, ChartBounds
    <2>2. first \in Int /\ first + 1 \in Int
        OBVIOUS
    <2>3. /\ MonthStart(first) \in Int /\ MonthStart(first + 1) \in Int
          /\ MonthStart(first) < MonthStart(first + 1)
        BY <2>2, Earlier
    <2>4. first = 0 \/ MonthStart(first) < MonthStart(0)
        <3>1. first = 0 \/ first < 0
            OBVIOUS
        <3>. QED
            BY <2>2, <3>1, Earlier
    <2>5. Usual(asked.monthly, first)
        BY <1>1, <1>2, <2>1, <2>3, <2>4 DEF Usual, Window
    <2>6. request = "monthly"
        BY <1>4, ChartBounds
    <2>. QED
        BY <2>1, <2>5, <2>6
<1>5. ASSUME NEW days \in DayRanges, asked = Daily(NormalDaily(days))
      PROVE  FALSE
    BY <1>5, ChartBounds
<1>6. asked # << >>
    OBVIOUS
<1>. QED
    BY <1>3, <1>4, <1>5, <1>6 DEF WindowsInv, AskedToday

\* Whatever month a window of the program starts in, the demo's monthly periods
\* cut it without gap or overlap.
THEOREM DemoTilesWindowCorrect == Spec => []DemoTilesWindow
<1>1. WindowsInv => DemoTilesWindow
    <2> SUFFICES ASSUME WindowsInv, NEW request \in DOMAIN asked \ {"daily"}
                 PROVE  Tiles(asked[request])
        BY DEF DemoTilesWindow, Tiles
    <2>. QED
        BY AskedUsual, UsualTiles DEF WindowsInv
<1>. QED
    BY <1>1, WindowsInvCorrect, PTL

\* A set of as many things as an interval has numbers.
LEMMA AsManyAsNumbers ==
    ASSUME NEW a \in Int, NEW b \in Int, NEW f, DOMAIN f = a .. b,
           \A i, j \in a .. b : f[i] = f[j] => i = j
    PROVE  Cardinality({f[i] : i \in a .. b}) = IF a > b THEN 0 ELSE b - a + 1
<1> DEFINE T == {f[i] : i \in a .. b}
           g == [i \in a .. b |-> f[i]]
<1>1. g \in Bijection(a .. b, T)
    BY DEF Bijection, Injection, Surjection, IsInjective
<1>2. ExistsBijection(a .. b, T)
    BY <1>1 DEF ExistsBijection
<1>3. /\ IsFiniteSet(a .. b)
      /\ Cardinality(a .. b) = IF a > b THEN 0 ELSE b - a + 1
    BY FS_Interval
<1>. QED
    BY <1>2, <1>3, FS_Bijection

\* A monthly chart has a point for every month asked for, the running one
\* included once it has a day.
THEOREM MonthlyPointsCorrect == Spec => []MonthlyPoints
<1>1. WindowsInv => MonthlyPoints
    <2> SUFFICES ASSUME WindowsInv, "monthly" \in DOMAIN asked
                 PROVE  \E days \in DayRanges :
                    /\ asked = Monthly(NormalMonthly(days))
                    /\ Cardinality(DemoPeriods(asked.monthly))
                          = NormalMonthly(days) \div 30
                                - (IF today.d = 1 THEN 1 ELSE 0)
        BY DEF MonthlyPoints, Is
    <2> TypeOK
        BY DEF WindowsInv
    <2>1. PICK first \in -12 .. 0, days \in DayRanges :
            /\ Usual(asked.monthly, first)
            /\ first = -(NormalMonthly(days) \div 30 - 1)
            /\ asked = Monthly(NormalMonthly(days))
            /\ asked.monthly = Window(MonthStart(first), Now)
        <3>1. "monthly" \in DOMAIN asked \ {"daily"}
            OBVIOUS
        <3>. QED
            BY <3>1, AskedUsual
    <2> DEFINE w == asked.monthly
               last == IF today.d = 1 THEN -1 ELSE 0
               f == [n \in first .. last |-> Period(w, n)]
    <2>2. /\ w.from = MonthStart(first) /\ w.to = Now
          /\ Usual(w, first)
        BY <2>1 DEF Window
    <2>3. /\ first \in Int /\ first >= -12 /\ last \in Int /\ last <= 0
        OBVIOUS
    <2>4. /\ today.d \in Int /\ 1 <= today.d
          /\ Now = MonthStart(0) + today.d - 1
          /\ MonthStart(0) \in Int
        BY Today
    <2> HIDE DEF w
    <2>5. Touched(w) = first .. last
        <3>1. ASSUME NEW n \in Touched(w)
              PROVE  n \in first .. last
            <4>1. n \in Int /\ first <= n /\ n <= 0
                BY <2>2, PeriodPlace
            <4>2. n = 0 => today.d # 1
                BY <2>2, <2>4 DEF Touched
            <4>. QED
                BY <2>3, <4>1, <4>2
        <3>2. ASSUME NEW n \in first .. last
              PROVE  n \in Touched(w)
            <4>1. /\ n \in Int /\ n + 1 \in Int /\ first < n + 1 /\ n <= last
                  /\ n \in MonthsAround
                BY <2>3 DEF MonthsAround
            <4>2. MonthStart(n + 1) > MonthStart(first)
                <5>1. MonthStart(first) < MonthStart(n + 1)
                    BY <2>3, <4>1, Earlier
                <5>2. MonthStart(first) \in Int /\ MonthStart(n + 1) \in Int
                    BY <2>3, <4>1, Earlier
                <5>. QED
                    BY <5>1, <5>2
            <4>3. MonthStart(n) < Now
                <5>1. MonthStart(n) \in Int
                    BY <4>1, Earlier
                <5>2. n = 0 \/ MonthStart(n) < MonthStart(0)
                    BY <2>3, <4>1, Earlier
                <5>3. n = 0 => today.d > 1
                    BY <2>4, <4>1
                <5>. QED
                    BY <2>4, <5>1, <5>2, <5>3
            <4>. QED
                BY <2>2, <4>1, <4>2, <4>3 DEF Touched
        <3>. QED
            BY <3>1, <3>2
    <2>6. DemoPeriods(w) = {f[n] : n \in first .. last}
        BY <2>5, PeriodsOfTouched
    <2>7. ASSUME NEW i \in first .. last, NEW j \in first .. last, f[i] = f[j]
          PROVE  i = j
        <3>1. /\ i \in Touched(w) /\ j \in Touched(w)
              /\ Period(w, i) = Period(w, j)
            BY <2>5, <2>7
        <3>2. /\ i \in Int /\ j \in Int
              /\ Period(w, i).from = IF i = first THEN w.from ELSE MonthStart(i)
              /\ Period(w, j).from = IF j = first THEN w.from ELSE MonthStart(j)
            BY <2>2, <3>1, PeriodPlace
        <3>3. MonthStart(i) = MonthStart(j)
            BY <2>2, <3>1, <3>2
        <3>4. MonthStart(i) \in Int
            BY <3>2, Earlier
        <3>5. ~ (i < j) /\ ~ (j < i)
            BY <3>2, <3>3, <3>4, Earlier
        <3>. QED
            BY <3>2, <3>5
    <2>8. Cardinality(DemoPeriods(w))
            = IF first > last THEN 0 ELSE last - first + 1
        <3>1. DOMAIN f = first .. last
            OBVIOUS
        <3>2. \A i, j \in first .. last : f[i] = f[j] => i = j
            BY <2>7
        <3> HIDE DEF f, last
        <3>3. Cardinality({f[n] : n \in first .. last})
                = IF first > last THEN 0 ELSE last - first + 1
            BY <2>3, <3>1, <3>2, AsManyAsNumbers
        <3>. QED
            BY <2>6, <3>3
    <2>9. NormalMonthly(days) \div 30 \in 1 .. 13
        BY ClampedDays, WindowsAssumption
    <2>10. Cardinality(DemoPeriods(w))
            = NormalMonthly(days) \div 30 - (IF today.d = 1 THEN 1 ELSE 0)
        <3> DEFINE months == NormalMonthly(days) \div 30
        <3>1. months \in 1 .. 13 /\ first = -(months - 1)
            BY <2>1, <2>9
        <3> HIDE DEF months
        <3>. QED
            BY <2>8, <3>1 DEF months
    <2>. QED
        BY <2>1, <2>10 DEF w
<1>. QED
    BY <1>1, WindowsInvCorrect, PTL
=============================================================================
