--------------------------- MODULE SeriesAggregate ---------------------------
(***************************************************************************)
(* Service.aggregate (internal/costs/aggregate.go): the results of all     *)
(* pages, period by period and group by group, become one series per group *)
(* aligned with the list of periods; groups past maxGroups fold into one.  *)
(*                                                                         *)
(* Each period reports a group at most once, in any order, and leaves out  *)
(* groups that cost nothing.  Amounts are integers, credits negative.      *)
(* Periods without a start and groups without a usable amount are skipped  *)
(* by the code (lines 15-17, 22-33) and change nothing.                    *)
(***************************************************************************)
EXTENDS Integers, Sequences, FiniteSets, Functions

CONSTANTS
    Keys,        \* group keys
    Other,       \* the key of the group that the tail folds into
    Amounts,     \* the amounts a group may report
    MaxPeriods,  \* bound on the periods of a result
    MaxGroups    \* maxGroups, 12 in the code

ASSUME AggregateAssumption ==
    /\ Other \notin Keys
    /\ Amounts \subseteq Int
    /\ MaxPeriods \in Nat
    /\ MaxGroups \in Nat

VARIABLES
    times,    \* len(series.Times)
    groups,   \* series.Groups: sequence of [key, values, total]
    total,    \* series.Total
    done,     \* aggregate has returned
    reported  \* history: what each period reported, as key -> amount

vars == <<times, groups, total, done, reported>>

Init ==
    /\ times = 0
    /\ groups = << >>
    /\ total = 0
    /\ done = FALSE
    /\ reported = << >>

Zeros(n) == [t \in 1..n |-> 0]

\* values with zeros up to n periods; longer ones are left alone.
Pad(values, n) == values \o Zeros(n - Len(values))

\* A period with a start: series.Times grows.
NextPeriod ==
    /\ ~ done
    /\ times < MaxPeriods
    /\ times' = times + 1
    /\ reported' = Append(reported, [k \in {} |-> 0])
    /\ UNCHANGED <<groups, total, done>>

ReportUnpadded(g, amount) ==  \* mutant: no zeros for the periods missed
    [g EXCEPT !.values = Append(@, amount), !.total = @ + amount]

\* A group after it reports amount in the current period: zeros for the
\* periods it was missing from, then the amount.
Report(g, amount) ==
    [g EXCEPT !.values = Append(Pad(@, times - 1), amount),
              !.total = @ + amount]

\* groupIdx: where the group of key k is, if it has been seen.
IndexOf(k) == {i \in DOMAIN groups : groups[i].key = k}

\* One group of the current period.  A key seen for the first time gets a new
\* group at the end (groupIdx).
AddGroup(k, amount) ==
    /\ ~ done
    /\ times > 0
    /\ k \notin DOMAIN reported[times]
    /\ reported' = [reported EXCEPT ![times] =
                        [l \in DOMAIN @ \cup {k} |->
                            IF l = k THEN amount ELSE @[l]]]
    /\ \/ \E i \in IndexOf(k) :
            groups' = [groups EXCEPT ![i] = Report(@, amount)]
       \/ /\ IndexOf(k) = {}
          /\ groups' = Append(groups,
                Report([key |-> k, values |-> << >>, total |-> 0], amount))
    /\ UNCHANGED <<times, total, done>>

-----------------------------------------------------------------------------
(* After the last period (lines 52-75).                                    *)

\* Trailing zeros for every group.
Filled == [i \in DOMAIN groups |-> [groups[i] EXCEPT !.values = Pad(@, times)]]

\* sort.SliceStable, by total, largest first: where a group comes in gs is the
\* number of groups that must come before it.
BeforeAscending(gs, i, j) ==  \* mutant: the comparison reversed
    gs[i].total < gs[j].total \/ (gs[i].total = gs[j].total /\ i < j)

Before(gs, i, j) ==
    gs[i].total > gs[j].total \/ (gs[i].total = gs[j].total /\ i < j)

Sorted(gs) ==
    [n \in DOMAIN gs |->
        gs[CHOOSE i \in DOMAIN gs :
            Cardinality({j \in DOMAIN gs : Before(gs, j, i)}) = n - 1]]

\* The groups past MaxGroups become one, the sum of them all.
FoldOneShort(gs) ==  \* mutant: one group falls between the two slices
    IF Len(gs) <= MaxGroups THEN gs
    ELSE LET tail == (MaxGroups + 2)..Len(gs)
         IN  Append(SubSeq(gs, 1, MaxGroups),
                [key |-> Other,
                 values |-> [t \in 1..times |->
                                SumFunction([i \in tail |-> gs[i].values[t]])],
                 total |-> SumFunction([i \in tail |-> gs[i].total])])

Fold(gs) ==
    IF Len(gs) <= MaxGroups THEN gs
    ELSE LET tail == (MaxGroups + 1)..Len(gs)
         IN  Append(SubSeq(gs, 1, MaxGroups),
                [key |-> Other,
                 values |-> [t \in 1..times |->
                                SumFunction([i \in tail |-> gs[i].values[t]])],
                 total |-> SumFunction([i \in tail |-> gs[i].total])])

GrandTotal == SumFunction([i \in DOMAIN groups |-> groups[i].total])

Finish ==
    /\ ~ done
    /\ groups' = Fold(Sorted(Filled))
    /\ total' = GrandTotal
    /\ done' = TRUE
    /\ UNCHANGED <<times, reported>>

Next ==
    \/ NextPeriod
    \/ \E k \in Keys, amount \in Amounts : AddGroup(k, amount)
    \/ Finish

Spec == Init /\ [][Next]_vars

-----------------------------------------------------------------------------
(* Properties.                                                             *)

\* The reference: what key k cost in period t, and over all periods.
Cost(k, t) == IF k \in DOMAIN reported[t] THEN reported[t][k] ELSE 0
CostOf(k) == SumFunction([t \in 1..times |-> Cost(k, t)])
ReportedKeys == UNION {DOMAIN reported[t] : t \in 1..times}

\* Every series lines up with the periods, whatever periods its group was
\* missing from, and a group that keeps its own name shows exactly what it
\* reported: each amount at its own period, zero where it reported none, and
\* their sum as its total (aggregate.go:44-56).
GroupsExact ==
    done =>
        /\ \A i \in DOMAIN groups : DOMAIN groups[i].values = 1..times
        /\ \A i \in DOMAIN groups : groups[i].key # Other =>
            /\ \A t \in 1..times : groups[i].values[t] = Cost(groups[i].key, t)
            /\ groups[i].total = CostOf(groups[i].key)

\* Sorting and folding lose no money: in every period the drawn groups add up
\* to what was reported, and so do the totals (aggregate.go:57, 64-73).
CostConserved ==
    done =>
        /\ \A t \in 1..times :
            SumFunction([i \in DOMAIN groups |-> groups[i].values[t]])
                = SumFunction([k \in ReportedKeys |-> Cost(k, t)])
        /\ total = SumFunction([k \in ReportedKeys |-> CostOf(k)])
        /\ total = SumFunction([i \in DOMAIN groups |-> groups[i].total])

\* "caps distinct series" (service.go:14-16): the largest groups keep their
\* names, largest first and each once; all others, and only when there are
\* more than MaxGroups, are in Other, at the end.
LargestKeepTheirNames ==
    done =>
        LET named == {i \in DOMAIN groups : groups[i].key # Other}
            names == {groups[i].key : i \in named}
        IN  /\ Cardinality(names) = Cardinality(named)
            /\ names \subseteq ReportedKeys
            /\ \A i, j \in named : i < j => groups[i].total >= groups[j].total
            /\ \A k \in ReportedKeys \ names, l \in names :
                CostOf(k) <= CostOf(l)
            /\ IF Cardinality(ReportedKeys) <= MaxGroups
               THEN names = ReportedKeys /\ Len(groups) = Cardinality(names)
               ELSE /\ Cardinality(names) = MaxGroups
                    /\ Len(groups) = MaxGroups + 1
                    /\ groups[MaxGroups + 1].key = Other
=============================================================================
