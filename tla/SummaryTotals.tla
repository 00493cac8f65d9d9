---------------------------- MODULE SummaryTotals ----------------------------
(***************************************************************************)
(* What fetchSummary makes of two usage reports (internal/costs/           *)
(* summary.go:38-95, 114-137): byService adds the rows of each report up   *)
(* per service, over however many periods and pages they are spread; the   *)
(* maps are ranged over for the totals and for the movers, in an order of  *)
(* Go's choosing; the movers are sorted, with ties in any order, and cut.  *)
(*                                                                         *)
(* RowAmounts are integers: float rounding, and DeltaPct, are left out.    *)
(***************************************************************************)
EXTENDS Integers, FiniteSets, Sequences, SequencesExt

CONSTANTS
    Services,
    RowAmounts, \* what a row may say, credits included
    MaxRows,    \* bound on the rows of one report
    MaxMovers   \* 5 in the code

ASSUME TotalsAssumption ==
    /\ RowAmounts \subseteq Int
    /\ MaxRows \in Nat /\ MaxMovers \in Nat \ {0}

Reports == {"current", "previous"}

VARIABLES
    step,    \* "current" and "previous" while read, "totals", "movers", "done"
    rows,    \* history: the rows of each report, in the order they came
    totals,  \* the maps byService returns
    left,    \* the services that each range over a map has still to visit
    sum,     \* monthToDate and prevMonthToDate
    movers   \* TopMovers

totalsVars == <<step, rows, totals, left, sum, movers>>

EmptyMap == [s \in {} |-> 0]
Get(map, s) == IF s \in DOMAIN map THEN map[s] ELSE 0
AbsOf(v) == IF v < 0 THEN -v ELSE v

TotalsInit ==
    /\ step = "current"
    /\ rows = [b \in Reports |-> << >>]
    /\ totals = [b \in Reports |-> EmptyMap]
    /\ left = [b \in Reports |-> {}]
    /\ sum = [b \in Reports |-> 0]
    /\ movers = << >>

-----------------------------------------------------------------------------
(* byService.                                                              *)

PutLast(map, s, v) ==  \* mutant: = instead of +=
    [t \in DOMAIN map \cup {s} |-> IF t = s THEN v ELSE map[t]]

\* totals[s] += v
Put(map, s, v) ==
    [t \in DOMAIN map \cup {s} |-> IF t = s THEN Get(map, s) + v ELSE map[t]]

\* A row of whichever page and period the loop has come to.
ReadRow(s, v) ==
    /\ step \in Reports
    /\ Len(rows[step]) < MaxRows
    /\ rows' = [rows EXCEPT ![step] = Append(@, [service |-> s, amount |-> v])]
    /\ totals' = [totals EXCEPT ![step] = Put(@, s, v)]
    /\ UNCHANGED <<step, left, sum, movers>>

\* The rows are over.
ReportOver ==
    /\ step \in Reports
    /\ step' = IF step = "current" THEN "previous" ELSE "totals"
    /\ left' = [left EXCEPT ![step] = DOMAIN totals[step]]
    /\ UNCHANGED <<rows, totals, sum, movers>>

-----------------------------------------------------------------------------
(* fetchSummary.                                                           *)

\* for _, v := range current, then previous.
AddUp(b, s) ==
    /\ step = "totals"
    /\ b = "previous" => left["current"] = {}
    /\ s \in left[b]
    /\ sum' = [sum EXCEPT ![b] = @ + totals[b][s]]
    /\ left' = [left EXCEPT ![b] = @ \ {s}]
    /\ UNCHANGED <<step, rows, totals, movers>>

SeenCurrent == DOMAIN totals["current"]  \* mutant: the second range is missing

\* The services of either report.
Seen == DOMAIN totals["current"] \cup DOMAIN totals["previous"]

Mover(s) ==
    [service |-> s,
     delta |-> Get(totals["current"], s) - Get(totals["previous"], s)]

LargerSigned(m, n) == m.delta > n.delta  \* mutant: abs is missing

\* The less function of sort.Slice.
Larger(m, n) == AbsOf(m.delta) > AbsOf(n.delta)

\* Every order sort.Slice may leave: it is not stable, and what it starts from
\* is the random order of a map.
Orders(set) ==
    {q \in SetToSeqs(set) :
        \A i, j \in 1..Len(q) : i < j => ~ Larger(q[j], q[i])}

\* TopMovers[:5]
Cut(q) == IF Len(q) > MaxMovers THEN SubSeq(q, 1, MaxMovers) ELSE q

FindMovers ==
    /\ step = "totals"
    /\ \A b \in Reports : left[b] = {}
    /\ step' = "done"
    /\ \E q \in Orders({Mover(s) : s \in Seen}) : movers' = Cut(q)
    /\ UNCHANGED <<rows, totals, left, sum>>

TotalsNext ==
    \/ \E s \in Services, v \in RowAmounts : ReadRow(s, v)
    \/ ReportOver
    \/ \E b \in Reports, s \in Services : AddUp(b, s)
    \/ FindMovers

TotalsSpec == TotalsInit /\ [][TotalsNext]_totalsVars

-----------------------------------------------------------------------------
(* Properties.                                                             *)

Done == step = "done"

\* What the rows of a report say of one service, and of all.
Reported(b, s) ==
    SumFunction([i \in DOMAIN rows[b] |->
        IF rows[b][i].service = s THEN rows[b][i].amount ELSE 0])
ReportedAll(b) == SumFunction([i \in DOMAIN rows[b] |-> rows[b][i].amount])

Shown == {movers[i].service : i \in 1..Len(movers)}
Change(s) == Reported("current", s) - Reported("previous", s)

\* When nothing is cut the movers explain the change: their deltas add up to
\* the difference of the two tiles, which hold everything that was billed,
\* services that came or went included, however the rows of a service are
\* spread over periods and pages and in whatever order the maps are ranged over
\* (summary.go:47-53, 75-89, 119-131).
MoversExplainTheChange ==
    Done =>
        /\ \A b \in Reports : sum[b] = ReportedAll(b)
        /\ Cardinality(Seen) <= MaxMovers =>
            sum["current"] - sum["previous"]
                = SumFunction([i \in DOMAIN movers |-> movers[i].delta])

\* The table shows the largest changes in either direction, largest first, each
\* service once: one that is not shown changed no more than any that is
\* (summary.go:90-95).
LargestChangesShown ==
    Done =>
        /\ \A i \in 1..Len(movers) :
            movers[i].delta = Change(movers[i].service)
        /\ Len(movers) = Cardinality(Shown)
        /\ \A i \in 1 .. Len(movers) - 1 :
            AbsOf(movers[i].delta) >= AbsOf(movers[i + 1].delta)
        /\ Len(movers) < MaxMovers => \A s \in Services \ Shown : Change(s) = 0
        /\ \A s \in Services \ Shown, t \in Shown :
            AbsOf(Change(s)) <= AbsOf(Change(t))
=============================================================================
