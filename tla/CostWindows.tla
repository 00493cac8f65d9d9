----------------------------- MODULE CostWindows -----------------------------
(***************************************************************************)
(* The date windows costwatch asks Cost Explorer for: fetchSummary         *)
(* (internal/costs/summary.go:30-67), fetchCosts (service.go:127-143), and *)
(* what the demo client answers for a monthly window (demo.go:146-154).    *)
(*                                                                         *)
(* A day is a number and a window is [from, to) in days: the code formats  *)
(* every bound but the hourly ones as a date, so hours play no part.  The  *)
(* clock walks through the calendar, and on any day any request may come.  *)
(***************************************************************************)
EXTENDS Integers, FiniteSets

CONSTANTS
    FirstYear, LastYear,  \* bound on the clock
    DayRanges             \* the values of Query.Days that are asked for

ASSUME WindowsAssumption ==
    /\ FirstYear \in Nat
    /\ LastYear \in Nat
    /\ FirstYear <= LastYear
    /\ DayRanges \subseteq Nat

VARIABLES
    today,   \* s.now() as a civil date [y, m, d]
    asked    \* the windows of the last request, by name; none at first

vars == <<today, asked>>

-----------------------------------------------------------------------------
(* The calendar: Go's time.Date and AddDate.                               *)

IsLeap(y) == y % 4 = 0 /\ (y % 100 # 0 \/ y % 400 = 0)

DaysIn(y, m) ==
    IF m = 2 THEN (IF IsLeap(y) THEN 29 ELSE 28)
    ELSE IF m \in {4, 6, 9, 11} THEN 30 ELSE 31

DaysBeforeYear(y) ==
    365 * y + (y + 3) \div 4 - (y + 99) \div 100 + (y + 399) \div 400

DaysBeforeMonth(y, m) ==
    <<0, 31, 59, 90, 120, 151, 181, 212, 243, 273, 304, 334>>[m]
        + (IF m > 2 /\ IsLeap(y) THEN 1 ELSE 0)

\* time.Date(y, m, d): a month outside 1..12 carries into the year and a day
\* outside the month carries into the neighbouring months.  AddDate is Date of
\* the sums.
Date(y, m, d) ==
    LET yy == y + (m - 1) \div 12
        mm == ((m - 1) % 12) + 1
    IN  DaysBeforeYear(yy) + DaysBeforeMonth(yy, mm) + d - 1

Now == Date(today.y, today.m, today.d)

\* The first day of the month that lies n months after this one.
MonthStart(n) == Date(today.y, today.m + n, 1)

-----------------------------------------------------------------------------
(* The windows.                                                            *)

Window(from, to) == [from |-> from, to |-> to]
Length(w) == w.to - w.from

DayOffsetInclusive == Now - MonthStart(0) + 1  \* mutant

\* dayOffset: the whole days since the month began.
DayOffset == Now - MonthStart(0)

\* [prevStart, prevEnd): the first day of last month and as many days of it as
\* have passed of this one.
Previous == Window(MonthStart(-1), MonthStart(-1) + DayOffset)

ForecastWhole == Window(MonthStart(0), MonthStart(1))  \* mutant
Forecast == Window(Now, MonthStart(1))

Summary == [current |-> Window(MonthStart(0), Now),
            previous |-> Previous,
            forecast |-> Forecast]

Daily(days) == [daily |-> Window(Now - days, Now)]

MonthlyOneMore(days) ==  \* mutant: months where the code has months-1
    [monthly |-> Window(MonthStart(-(days \div 30)), Now)]

Monthly(days) == [monthly |-> Window(MonthStart(-(days \div 30 - 1)), Now)]

NormalDailyUnclamped(days) ==  \* mutant: no lower clamp
    IF days > 365 THEN 365 ELSE IF days = 1 THEN 30 ELSE days

\* The bounds that normalize puts on Query.Days (service.go:103-113).
NormalDaily(days) ==
    LET clamped == IF days < 1 THEN 1 ELSE IF days > 365 THEN 365 ELSE days
    IN  IF clamped = 1 THEN 30 ELSE clamped

NormalMonthly(days) == IF days < 30 THEN 30 ELSE IF days > 390 THEN 390 ELSE days

\* The periods the demo client emits for a monthly window: for each calendar
\* month that begins before the window ends, from the month of its start on,
\* the part of the month inside the window.
MonthsAround == -15 .. 2  \* every month a window here can touch

DemoPeriodsWhole(w) ==  \* mutant: periods not clipped to the window's end
    {Window(IF MonthStart(n) > w.from THEN MonthStart(n) ELSE w.from,
            MonthStart(n + 1)) :
        n \in {i \in MonthsAround :
                MonthStart(i + 1) > w.from /\ MonthStart(i) < w.to}}

DemoPeriods(w) ==
    {Window(IF MonthStart(n) > w.from THEN MonthStart(n) ELSE w.from,
            IF MonthStart(n + 1) > w.to THEN w.to ELSE MonthStart(n + 1)) :
        n \in {i \in MonthsAround :
                MonthStart(i + 1) > w.from /\ MonthStart(i) < w.to}}

-----------------------------------------------------------------------------
\* Whether a day is the last of its month.
MonthOver == today.d >= DaysIn(today.y, today.m)

Init ==
    /\ today = [y |-> FirstYear, m |-> 1, d |-> 1]
    /\ asked = << >>

Tomorrow ==
    /\ today' = IF ~ MonthOver
                THEN [today EXCEPT !.d = @ + 1]
                ELSE IF today.m < 12
                THEN [today EXCEPT !.m = @ + 1, !.d = 1]
                ELSE [y |-> today.y + 1, m |-> 1, d |-> 1]
    /\ today'.y <= LastYear
    /\ asked' = << >>

AskSummary ==
    /\ asked' = Summary
    /\ UNCHANGED today

AskDaily(days) ==
    /\ asked' = Daily(NormalDaily(days))
    /\ UNCHANGED today

AskMonthly(days) ==
    /\ asked' = Monthly(NormalMonthly(days))
    /\ UNCHANGED today

Next ==
    \/ Tomorrow
    \/ AskSummary
    \/ \E days \in DayRanges : AskDaily(days) \/ AskMonthly(days)

Spec == Init /\ [][Next]_vars

-----------------------------------------------------------------------------
(* Properties.                                                             *)

Is(request) == request \in DOMAIN asked

\* Month to date and forecast tile the current month: the tiles of the
\* Overview neither count a day twice nor leave one out (summary.go:38, 60-67).
MonthTiled ==
    Is("current") =>
        /\ asked.current.to = asked.forecast.from
        /\ Length(asked.current) + Length(asked.forecast)
              = DaysIn(today.y, today.m)
        /\ Length(asked.forecast) > 0

\* The comparison window starts with last month, is as long as the month to
\* date, and runs into the current month only on the last days of a March,
\* which February cannot match (summary.go:33-35).
PreviousSpillsOnlyInMarch ==
    Is("previous") =>
        /\ Length(asked.previous) = Length(asked.current)
        /\ asked.previous.from + DaysIn(today.y, IF today.m = 1 THEN 12 ELSE today.m - 1)
              = asked.current.from
        /\ asked.previous.to > asked.current.from <=>
              today.m = 3 /\ today.d - 1 > DaysIn(today.y, 2)

\* The three windows of the summary fit together on every day of the calendar.
SummaryWindows == MonthTiled /\ PreviousSpillsOnlyInMarch

\* "MTD vs same window last month" (types.go:69), "the same window last month"
\* (summary.go:74): the comparison window lies in last month, so no day is
\* counted on both sides of the delta.
SameWindowLastMonth ==
    Is("previous") => asked.previous.to <= asked.current.from

\* A request asks for an empty window, which Cost Explorer rejects and the
\* demo answers with nothing, on the first of a month only, and a chart only
\* when it spans one month (service.go:138-142).
EmptyOnlyOnTheFirst ==
    \A request \in DOMAIN asked :
        Length(asked[request]) <= 0 =>
            today.d = 1 /\ (request = "monthly" => asked.monthly.from = Now)

\* A monthly chart has a point for every month asked for, the running one
\* included; on the first of a month, when that one has no days yet, one less
\* (service.go:139-142).
MonthlyPoints ==
    Is("monthly") =>
        \E days \in DayRanges :
            LET months == NormalMonthly(days) \div 30
            IN  /\ asked = Monthly(NormalMonthly(days))
                /\ Cardinality(DemoPeriods(asked.monthly))
                      = months - (IF today.d = 1 THEN 1 ELSE 0)

\* The demo's monthly periods cut a window without gap or overlap: their
\* lengths add up and no two start together, so costs in demo mode are
\* proportional to the days asked for (demo.go:146-154).
DemoTilesWindow ==
    \A request \in DOMAIN asked \ {"daily"} :
        LET w == asked[request]
            periods == DemoPeriods(w)
        IN  /\ \A p \in periods : w.from <= p.from /\ p.from < p.to /\ p.to <= w.to
            /\ w.from < w.to => \E p \in periods : p.from = w.from
            /\ \A p \in periods :
                p.to = w.to \/ Cardinality({q \in periods : q.from = p.to}) = 1
=============================================================================
