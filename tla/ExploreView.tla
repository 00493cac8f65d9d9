----------------------------- MODULE ExploreView -----------------------------
(***************************************************************************)
(* The Explore view of the costwatch front end (views/Explore.tsx:32-101): *)
(* three filters, one effect that fetches what they ask for, and the `live'*)
(* flag by which an answer that comes too late is dropped.                 *)
(*                                                                         *)
(* A pick, the render that commits its filters and the effect of that      *)
(* commit are one step, for React flushes the effects of a click before it *)
(* returns to the event loop.  What the effect and the answers set is      *)
(* queued, and committed by a later render: in between the user sees, and  *)
(* may export, the new filters with the old answer.  Answers come in any   *)
(* order, or never while no fairness is assumed, and may be errors.        *)
(***************************************************************************)
EXTENDS Naturals, Sequences

CONSTANTS
    Granularities,  \* what the tabs offer
    GroupBys,       \* what the first menu offers
    Ranges,         \* RANGES: the days offered for each granularity, in order
    Start,          \* the filters of a fresh view
    MaxFetches      \* bound on the fetches of a session

ASSUME ViewAssumption ==
    /\ Ranges \in [Granularities -> Seq(Nat)]
    /\ \A g \in Granularities : Ranges[g] # << >>
    /\ Start \in [granularity : Granularities, groupBy : GroupBys, days : Nat]
    /\ \E i \in DOMAIN Ranges[Start.granularity] :
        Start.days = Ranges[Start.granularity][i]
    /\ MaxFetches \in Nat \ {0}

VARIABLES
    mounted,    \* the view is on screen
    filter,     \* granularity, groupBy and days, as committed
    fetches,    \* every fetch so far: its filters, its live flag, if it is pending
    shown,      \* series and error as committed: the fetches they are of, 0 for null
    queued,     \* series and error once the queued updates are rendered
    showTable,  \* the table is chosen over the chart
    csv         \* the last file exported: its name, the fetch whose answer it
                \* holds, and if an update was queued at the time (history)

vars == <<mounted, filter, fetches, shown, queued, showTable, csv>>

Nothing == [series |-> 0, error |-> 0]

Offered(g) == {Ranges[g][i] : i \in DOMAIN Ranges[g]}

Fetch(f) == [asked |-> f, live |-> TRUE, pending |-> TRUE]

\* costwatch-<granularity>-<groupBy>.csv
FileName(f) == <<f.granularity, f.groupBy>>

\* The cleanup of the last effect.
Silenced == [i \in DOMAIN fetches |-> [fetches[i] EXCEPT !.live = FALSE]]

Init ==
    /\ mounted = TRUE
    /\ filter = Start
    /\ fetches = <<Fetch(Start)>>
    /\ shown = Nothing
    /\ queued = Nothing
    /\ showTable = FALSE
    /\ csv = [named |-> FileName(Start), fetch |-> 0, early |-> FALSE]

RefetchCleansUpLast(f) ==  \* mutant: the cleanup runs after the new effect
    /\ Len(fetches) < MaxFetches
    /\ filter' = f
    /\ fetches' = Append(Silenced, [Fetch(f) EXCEPT !.live = FALSE])
    /\ queued' = Nothing

\* Filters that changed are committed: cleanup of the old effect, then the new
\* one, whose setSeries(null) and setError(null) are queued.
Refetch(f) ==
    /\ Len(fetches) < MaxFetches
    /\ filter' = f
    /\ fetches' = Append(Silenced, Fetch(f))
    /\ queued' = Nothing

Pick(f) ==
    /\ mounted
    /\ f # filter
    /\ Refetch(f)
    /\ UNCHANGED <<mounted, shown, showTable, csv>>

PickGranularityOnly(g) ==  \* mutant: days are left as they were
    Pick([filter EXCEPT !.granularity = g])

\* pickGranularity also picks the longest range that is offered for it.
PickGranularity(g) ==
    Pick([filter EXCEPT !.granularity = g, !.days = Ranges[g][Len(Ranges[g])]])

PickGroupBy(b) == Pick([filter EXCEPT !.groupBy = b])

PickDays(d) ==
    /\ d \in Offered(filter.granularity)
    /\ Pick([filter EXCEPT !.days = d])

LiveAlways(i) == mounted  \* mutant: the flag is not looked at
Live(i) == fetches[i].live

\* A fetch comes back; only a live one sets series or error.
Answer(i) ==
    /\ fetches[i].pending
    /\ fetches' = [fetches EXCEPT ![i].pending = FALSE]
    /\ \/ ~ Live(i) /\ UNCHANGED queued
       \/ Live(i) /\ queued' = [queued EXCEPT !.series = i]
       \/ Live(i) /\ queued' = [queued EXCEPT !.error = i]
    /\ UNCHANGED <<mounted, filter, shown, showTable, csv>>

\* React renders the queued updates and commits them.
Render ==
    /\ queued # shown
    /\ shown' = queued
    /\ UNCHANGED <<mounted, filter, fetches, queued, showTable, csv>>

ToggleTable ==
    /\ mounted
    /\ showTable' = ~ showTable
    /\ UNCHANGED <<mounted, filter, fetches, shown, queued, csv>>

\* Another tab: the effect is cleaned up, the state is gone.
Leave ==
    /\ mounted
    /\ mounted' = FALSE
    /\ fetches' = Silenced
    /\ shown' = Nothing
    /\ queued' = Nothing
    /\ showTable' = FALSE
    /\ UNCHANGED <<filter, csv>>

\* And back: a fresh view.
Return ==
    /\ ~ mounted
    /\ mounted' = TRUE
    /\ Refetch(Start)
    /\ UNCHANGED <<shown, showTable, csv>>

\* The button of the last commit: it names the file after the filters of that
\* commit and fills it from its series.
ExportCsv ==
    /\ mounted
    /\ shown.series # 0
    /\ csv' = [named |-> FileName(filter), fetch |-> shown.series,
               early |-> queued # shown]
    /\ UNCHANGED <<mounted, filter, fetches, shown, queued, showTable>>

\* What the user, the server and React do.
ViewNext ==
    \/ \E g \in Granularities : PickGranularity(g)
    \/ \E b \in GroupBys : PickGroupBy(b)
    \/ \E d \in UNION {Offered(g) : g \in Granularities} : PickDays(d)
    \/ \E i \in DOMAIN fetches : Answer(i)
    \/ Render
    \/ ToggleTable
    \/ Leave
    \/ Return
    \/ ExportCsv

-----------------------------------------------------------------------------
(* Properties.                                                             *)

\* Fetch i answers what the filters on screen ask.
Current(i) == fetches[i].asked = filter

\* Once what is queued has been rendered, the chart shows what the filters say,
\* and so does an error, however fast the filters are changed and in whatever
\* order the answers come (Explore.tsx:40-50).  An error, which the view renders
\* first, never hides an answer (Explore.tsx:103), in no commit.  An exported
\* file holds what its name says, unless it was exported between the commit of
\* a pick and the render that clears the old answer (Explore.tsx:57-65, 98).
ShownAsAsked ==
    /\ shown = queued =>
        \A i \in {shown.series, shown.error} \ {0} : Current(i)
    /\ shown.series = 0 \/ shown.error = 0
    /\ csv.fetch # 0 /\ ~ csv.early => FileName(fetches[csv.fetch].asked) = csv.named

\* No question leaves the browser with a range its menu does not offer, which
\* the server would clamp without a word while the menu shows something else
\* (Explore.tsx:52-55; service.go:103-113).
OnlyOfferedRanges ==
    \A i \in DOMAIN fetches :
        fetches[i].asked.days \in Offered(fetches[i].asked.granularity)

\* The skeleton and the old answer go away: an answer to the filters comes on
\* screen, or the view is left.
LoadingEnds ==
    mounted ~>
        (~ mounted \/ \E i \in {shown.series, shown.error} \ {0} : Current(i))
=============================================================================
