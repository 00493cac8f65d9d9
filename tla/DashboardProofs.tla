--------------------------- MODULE DashboardProofs ---------------------------
(***************************************************************************)
(* Proofs about the Explore view, for any menus and any number of fetches: *)
(* the live flag is what keeps an answer that comes too late off the       *)
(* screen.  And about the colours: a key keeps the one it is given.        *)
(***************************************************************************)
EXTENDS Dashboard, FiniteSetTheorems, TLAPS

Filters == [granularity : Granularities, groupBy : GroupBys, days : Nat]
OfferedFilters == {f \in Filters : f.days \in Offered(f.granularity)}
Fetches == [asked : OfferedFilters, live : BOOLEAN, pending : BOOLEAN]

TypeOK ==
    /\ mounted \in BOOLEAN
    /\ filter \in OfferedFilters
    /\ fetches \in Seq(Fetches)
    /\ shown \in [series : 0 .. Len(fetches), error : 0 .. Len(fetches)]
    /\ queued \in [series : 0 .. Len(fetches), error : 0 .. Len(fetches)]
    /\ csv \in [named : {FileName(f) : f \in Filters},
                fetch : 0 .. Len(fetches), early : BOOLEAN]

\* Fetch i is live and has been answered.
Settled(i) == i # 0 => fetches[i].live /\ ~ fetches[i].pending

\* Only the last fetch is live, it asks for what the filters say, and what is
\* queued is its answer: what is shown may still be an older one.
LiveInv ==
    /\ \A i \in DOMAIN fetches :
        fetches[i].live => i = Len(fetches) /\ fetches[i].asked = filter
    /\ Settled(queued.series)
    /\ Settled(queued.error)
    /\ queued.series = 0 \/ queued.error = 0
    /\ shown.series = 0 \/ shown.error = 0
    /\ csv.fetch # 0 /\ ~ csv.early => FileName(fetches[csv.fetch].asked) = csv.named

ViewInv == TypeOK /\ LiveInv

\* Silencing a fetch and answering it change one flag.
LEMMA FlagsTyped ==
    ASSUME NEW x \in Fetches
    PROVE  /\ [x EXCEPT !.live = FALSE] \in Fetches
           /\ ~ [x EXCEPT !.live = FALSE].live
           /\ [x EXCEPT !.live = FALSE].asked = x.asked
           /\ [x EXCEPT !.pending = FALSE] \in Fetches
           /\ ~ [x EXCEPT !.pending = FALSE].pending
           /\ [x EXCEPT !.pending = FALSE].live = x.live
           /\ [x EXCEPT !.pending = FALSE].asked = x.asked
BY DEF Fetches

\* A fetch for a filter that is offered is a fetch, and so is a silenced one.
LEMMA FetchTyped ==
    ASSUME TypeOK, NEW f \in OfferedFilters
    PROVE  /\ Fetch(f) \in Fetches
           /\ Silenced \in Seq(Fetches)
           /\ Len(Silenced) = Len(fetches)
           /\ \A i \in DOMAIN fetches :
                ~ Silenced[i].live /\ Silenced[i].asked = fetches[i].asked
<1>1. Fetch(f) \in Fetches
    BY DEF Fetch, Fetches
<1>2. fetches \in Seq(Fetches) /\ DOMAIN fetches = 1 .. Len(fetches)
    BY DEF TypeOK
<1>3. \A i \in DOMAIN fetches :
        /\ [fetches[i] EXCEPT !.live = FALSE] \in Fetches
        /\ ~ [fetches[i] EXCEPT !.live = FALSE].live
        /\ [fetches[i] EXCEPT !.live = FALSE].asked = fetches[i].asked
    <2> SUFFICES ASSUME NEW i \in DOMAIN fetches
                 PROVE  /\ [fetches[i] EXCEPT !.live = FALSE] \in Fetches
                        /\ ~ [fetches[i] EXCEPT !.live = FALSE].live
                        /\ [fetches[i] EXCEPT !.live = FALSE].asked
                            = fetches[i].asked
        OBVIOUS
    <2>1. fetches[i] \in Fetches
        BY <1>2
    <2>. QED
        BY <2>1, FlagsTyped
<1>4. Silenced \in [1 .. Len(fetches) -> Fetches]
    BY <1>2, <1>3 DEF Silenced
<1>5. Silenced \in Seq(Fetches) /\ Len(Silenced) = Len(fetches)
    BY <1>2, <1>4
<1>6. \A i \in DOMAIN fetches :
        ~ Silenced[i].live /\ Silenced[i].asked = fetches[i].asked
    BY <1>2, <1>3 DEF Silenced
<1>. QED
    BY <1>1, <1>5, <1>6

\* A fetch that replaces the others leaves one live fetch, for the new filter,
\* and nothing queued.
LEMMA RefetchKept ==
    ASSUME ViewInv, NEW f \in OfferedFilters, Refetch(f), mounted' \in BOOLEAN,
           UNCHANGED <<shown, csv>>
    PROVE  ViewInv'
<1>1. TypeOK /\ LiveInv
    BY DEF ViewInv
<1>2. /\ fetches \in Seq(Fetches) /\ DOMAIN fetches = 1 .. Len(fetches)
      /\ Len(fetches) \in Nat
      /\ shown \in [series : 0 .. Len(fetches), error : 0 .. Len(fetches)]
      /\ csv \in [named : {FileName(x) : x \in Filters},
                  fetch : 0 .. Len(fetches), early : BOOLEAN]
    BY <1>1 DEF TypeOK
<1>3. /\ Fetch(f) \in Fetches
      /\ Silenced \in Seq(Fetches)
      /\ Len(Silenced) = Len(fetches)
      /\ \A i \in DOMAIN fetches :
            ~ Silenced[i].live /\ Silenced[i].asked = fetches[i].asked
    BY <1>1, FetchTyped
<1>4. /\ fetches' = Append(Silenced, Fetch(f)) /\ filter' = f
      /\ queued' = Nothing /\ shown' = shown /\ csv' = csv
    BY DEF Refetch
<1>5. /\ fetches' \in Seq(Fetches) /\ Len(fetches') = Len(fetches) + 1
      /\ DOMAIN fetches' = 1 .. Len(fetches) + 1
      /\ fetches'[Len(fetches) + 1] = Fetch(f)
      /\ \A i \in 1 .. Len(fetches) : fetches'[i] = Silenced[i]
    BY <1>2, <1>3, <1>4
<1>6. TypeOK'
    <2>1. shown' \in [series : 0 .. Len(fetches'), error : 0 .. Len(fetches')]
        BY <1>2, <1>4, <1>5
    <2>2. queued' \in [series : 0 .. Len(fetches'), error : 0 .. Len(fetches')]
        BY <1>2, <1>4, <1>5 DEF Nothing
    <2>3. csv' \in [named : {FileName(x) : x \in Filters},
                    fetch : 0 .. Len(fetches'), early : BOOLEAN]
        BY <1>2, <1>4, <1>5
    <2>. QED
        BY <1>4, <1>5, <2>1, <2>2, <2>3 DEF TypeOK
<1>7. \A i \in DOMAIN fetches' :
        fetches'[i].live => i = Len(fetches') /\ fetches'[i].asked = f
    BY <1>2, <1>3, <1>5 DEF Fetch
<1>8. csv.fetch # 0 /\ ~ csv.early
        => FileName(fetches'[csv.fetch].asked) = csv.named
    <2>1. csv.fetch # 0 => fetches'[csv.fetch].asked = fetches[csv.fetch].asked
        BY <1>2, <1>3, <1>5
    <2>. QED
        BY <1>1, <2>1 DEF LiveInv, FileName
<1>9. LiveInv'
    BY <1>1, <1>4, <1>7, <1>8 DEF LiveInv, Settled, Nothing, FileName
<1>. QED
    BY <1>6, <1>9 DEF ViewInv

\* Only a live fetch queues anything, and it was not answered before.
LEMMA AnswerKept ==
    ASSUME ViewInv, NEW i \in DOMAIN fetches, Answer(i)
    PROVE  ViewInv'
<1>1. TypeOK /\ LiveInv
    BY DEF ViewInv
<1>2. /\ fetches \in Seq(Fetches) /\ DOMAIN fetches = 1 .. Len(fetches)
      /\ Len(fetches) \in Nat /\ i \in 1 .. Len(fetches)
      /\ queued \in [series : 0 .. Len(fetches), error : 0 .. Len(fetches)]
      /\ csv \in [named : {FileName(x) : x \in Filters},
                  fetch : 0 .. Len(fetches), early : BOOLEAN]
    BY <1>1 DEF TypeOK
<1>3. /\ fetches[i].pending
      /\ fetches' = [fetches EXCEPT ![i].pending = FALSE]
      /\ mounted' = mounted /\ filter' = filter /\ csv' = csv /\ shown' = shown
    BY DEF Answer
<1>4. /\ [fetches[i] EXCEPT !.pending = FALSE] \in Fetches
      /\ ~ [fetches[i] EXCEPT !.pending = FALSE].pending
      /\ [fetches[i] EXCEPT !.pending = FALSE].live = fetches[i].live
      /\ [fetches[i] EXCEPT !.pending = FALSE].asked = fetches[i].asked
    <2>1. fetches[i] \in Fetches
        BY <1>2
    <2>. QED
        BY <2>1, FlagsTyped
<1>5. /\ fetches' \in Seq(Fetches) /\ Len(fetches') = Len(fetches)
      /\ DOMAIN fetches' = DOMAIN fetches
    BY <1>2, <1>3, <1>4
<1>6. /\ fetches'[i] = [fetches[i] EXCEPT !.pending = FALSE]
      /\ \A j \in DOMAIN fetches : j # i => fetches'[j] = fetches[j]
    BY <1>2, <1>3
<1>7. /\ \A j \in DOMAIN fetches : /\ fetches'[j].live = fetches[j].live
                                  /\ fetches'[j].asked = fetches[j].asked
      /\ ~ fetches'[i].pending
    BY <1>2, <1>4, <1>6
<1>8. queued.series # 0
        => queued.series # i /\ fetches'[queued.series] = fetches[queued.series]
    BY <1>1, <1>2, <1>3, <1>6 DEF LiveInv, Settled
<1>9. queued.error # 0
        => queued.error # i /\ fetches'[queued.error] = fetches[queued.error]
    BY <1>1, <1>2, <1>3, <1>6 DEF LiveInv, Settled
<1>10. Live(i) => queued.series = 0 /\ queued.error = 0
    BY <1>1, <1>2, <1>8, <1>9 DEF LiveInv, Settled, Live
<1>11. \/ queued' = queued
       \/ Live(i) /\ queued' = [series |-> i, error |-> 0]
       \/ Live(i) /\ queued' = [series |-> 0, error |-> i]
    BY <1>2, <1>10 DEF Answer
<1>12. TypeOK'
    <2>1. queued' \in [series : 0 .. Len(fetches'), error : 0 .. Len(fetches')]
        BY <1>2, <1>5, <1>11
    <2>. QED
        BY <1>1, <1>3, <1>5, <2>1 DEF TypeOK
<1>13. \A j \in DOMAIN fetches' :
        fetches'[j].live => j = Len(fetches') /\ fetches'[j].asked = filter'
    BY <1>1, <1>3, <1>5, <1>7 DEF LiveInv
<1>14. csv.fetch # 0 /\ ~ csv.early
        => FileName(fetches'[csv.fetch].asked) = csv.named
    <2>1. csv.fetch # 0 => fetches'[csv.fetch].asked = fetches[csv.fetch].asked
        BY <1>2, <1>7
    <2>. QED
        BY <1>1, <2>1 DEF LiveInv, FileName
<1>15. /\ Settled(queued.series)' /\ Settled(queued.error)'
       /\ queued'.series = 0 \/ queued'.error = 0
    <2>1. CASE queued' = queued
        BY <1>1, <1>8, <1>9, <2>1 DEF LiveInv, Settled
    <2>2. CASE Live(i) /\ queued' \in {[series |-> i, error |-> 0],
                                       [series |-> 0, error |-> i]}
        BY <1>7, <2>2 DEF Settled, Live
    <2>. QED
        BY <1>11, <2>1, <2>2
<1>16. LiveInv'
    BY <1>1, <1>3, <1>13, <1>14, <1>15 DEF LiveInv, FileName
<1>. QED
    BY <1>12, <1>16 DEF ViewInv

\* Every pick asks for a range that the menu of its granularity offers.
LEMMA PicksOffered ==
    ASSUME TypeOK
    PROVE  /\ \A g \in Granularities :
                [filter EXCEPT !.granularity = g,
                               !.days = Ranges[g][Len(Ranges[g])]]
                    \in OfferedFilters
           /\ \A b \in GroupBys :
                [filter EXCEPT !.groupBy = b] \in OfferedFilters
           /\ \A d \in Offered(filter.granularity) :
                [filter EXCEPT !.days = d] \in OfferedFilters
           /\ Start \in OfferedFilters
<1>1. /\ filter \in Filters /\ filter.days \in Offered(filter.granularity)
      /\ filter.granularity \in Granularities
    BY DEF TypeOK, OfferedFilters, Filters
<1>2. \A g \in Granularities :
        Ranges[g] \in Seq(Nat) /\ Len(Ranges[g]) \in DOMAIN Ranges[g]
    <2> SUFFICES ASSUME NEW g \in Granularities
                 PROVE  /\ Ranges[g] \in Seq(Nat)
                        /\ Len(Ranges[g]) \in DOMAIN Ranges[g]
        OBVIOUS
    <2>1. Ranges[g] \in Seq(Nat) /\ Ranges[g] # << >>
        BY ViewAssumption
    <2>. QED
        BY <2>1
<1>3. ASSUME NEW g \in Granularities
      PROVE  Offered(g) \subseteq Nat /\ Ranges[g][Len(Ranges[g])] \in Offered(g)
    BY <1>2, <1>3 DEF Offered
<1>4. ASSUME NEW g \in Granularities
      PROVE  [filter EXCEPT !.granularity = g,
                            !.days = Ranges[g][Len(Ranges[g])]]
                \in OfferedFilters
    BY <1>1, <1>3 DEF OfferedFilters, Filters
<1>5. ASSUME NEW b \in GroupBys
      PROVE  [filter EXCEPT !.groupBy = b] \in OfferedFilters
    BY <1>1 DEF OfferedFilters, Filters
<1>6. ASSUME NEW d \in Offered(filter.granularity)
      PROVE  [filter EXCEPT !.days = d] \in OfferedFilters
    BY <1>1, <1>3 DEF OfferedFilters, Filters
<1>7. Start \in OfferedFilters
    BY ViewAssumption DEF OfferedFilters, Filters, Offered
<1>. QED
    BY <1>4, <1>5, <1>6, <1>7

\* ViewInv is inductive: what is drawn does not matter to it.
LEMMA ViewStep == ViewInv /\ [DashboardNext]_dashboardVars => ViewInv'
<1> SUFFICES ASSUME ViewInv, [DashboardNext]_dashboardVars
             PROVE  ViewInv'
    OBVIOUS
<1>t. TypeOK /\ LiveInv
    BY DEF ViewInv
<1>1. ASSUME NEW i \in DOMAIN fetches, Answer(i)
      PROVE  ViewInv'
    BY <1>1, AnswerKept
<1>2. ASSUME UNCHANGED <<filter, fetches, shown, queued, csv>>,
             mounted' \in BOOLEAN
      PROVE  ViewInv'
    <2>1. TypeOK'
        BY <1>2, <1>t DEF TypeOK
    <2>2. LiveInv'
        BY <1>2, <1>t DEF LiveInv, Settled
    <2>. QED
        BY <2>1, <2>2 DEF ViewInv
<1>3. ASSUME NEW f \in OfferedFilters, Pick(f)
      PROVE  ViewInv'
    BY <1>3, <1>t, RefetchKept DEF Pick, TypeOK
<1>4. ASSUME NEW g \in Granularities, PickGranularity(g)
      PROVE  ViewInv'
    BY <1>3, <1>4, <1>t, PicksOffered DEF PickGranularity
<1>5. ASSUME NEW b \in GroupBys, PickGroupBy(b)
      PROVE  ViewInv'
    BY <1>3, <1>5, <1>t, PicksOffered DEF PickGroupBy
<1>6. ASSUME NEW d, PickDays(d)
      PROVE  ViewInv'
    BY <1>3, <1>6, <1>t, PicksOffered DEF PickDays
<1>7. CASE Leave
    <2>1. /\ fetches' = Silenced /\ mounted' = FALSE
          /\ shown' = Nothing /\ queued' = Nothing
          /\ filter' = filter /\ csv' = csv
        BY <1>7 DEF Leave
    <2>2. filter \in OfferedFilters
        BY <1>t DEF TypeOK
    <2>3. /\ Silenced \in Seq(Fetches)
          /\ Len(Silenced) = Len(fetches)
          /\ \A i \in DOMAIN fetches :
                ~ Silenced[i].live /\ Silenced[i].asked = fetches[i].asked
        BY <1>t, <2>2, FetchTyped
    <2>4. /\ DOMAIN fetches = 1 .. Len(fetches) /\ Len(fetches) \in Nat
          /\ DOMAIN Silenced = 1 .. Len(fetches)
          /\ csv \in [named : {FileName(x) : x \in Filters},
                      fetch : 0 .. Len(fetches), early : BOOLEAN]
        BY <1>t, <2>3 DEF TypeOK
    <2>5. TypeOK'
        <3>1. Len(fetches') = Len(fetches) /\ fetches' \in Seq(Fetches)
            BY <2>1, <2>3
        <3>2. mounted' \in BOOLEAN /\ filter' \in OfferedFilters
            BY <2>1, <2>2
        <3>3. Nothing \in [series : 0 .. Len(fetches'),
                           error : 0 .. Len(fetches')]
            BY <2>4, <3>1 DEF Nothing
        <3>4. csv' \in [named : {FileName(x) : x \in Filters},
                        fetch : 0 .. Len(fetches'), early : BOOLEAN]
            BY <2>1, <2>4, <3>1
        <3>. QED
            BY <2>1, <3>1, <3>2, <3>3, <3>4 DEF TypeOK
    <2>6. csv.fetch # 0 => fetches'[csv.fetch].asked = fetches[csv.fetch].asked
        BY <2>1, <2>3, <2>4
    <2>7. LiveInv'
        BY <1>t, <2>1, <2>3, <2>4, <2>6 DEF LiveInv, Settled, Nothing, FileName
    <2>. QED
        BY <2>5, <2>7 DEF ViewInv
<1>8. CASE Return
    BY <1>8, <1>t, PicksOffered, RefetchKept DEF Return
<1>9. CASE Render
    <2>1. /\ shown' = queued
          /\ UNCHANGED <<mounted, filter, fetches, queued, csv>>
        BY <1>9 DEF Render
    <2>2. TypeOK'
        BY <1>t, <2>1 DEF TypeOK
    <2>3. LiveInv'
        BY <1>t, <2>1 DEF LiveInv, Settled
    <2>. QED
        BY <2>2, <2>3 DEF ViewInv
<1>10. CASE ToggleTable
    BY <1>2, <1>10, <1>t DEF ToggleTable, TypeOK
<1>11. CASE ExportCsv
    <2>1. /\ csv' = [named |-> FileName(filter), fetch |-> shown.series,
                     early |-> queued # shown]
          /\ shown.series # 0
          /\ UNCHANGED <<mounted, filter, fetches, shown, queued>>
        BY <1>11 DEF ExportCsv
    <2>2. TypeOK'
        <3>1. csv' \in [named : {FileName(x) : x \in Filters},
                        fetch : 0 .. Len(fetches), early : BOOLEAN]
            BY <1>t, <2>1 DEF TypeOK, OfferedFilters
        <3>. QED
            BY <1>t, <2>1, <3>1 DEF TypeOK
    <2>3. queued = shown => fetches[shown.series].asked = filter
        BY <1>t, <2>1 DEF TypeOK, LiveInv, Settled
    <2>4. LiveInv'
        BY <1>t, <2>1, <2>3 DEF LiveInv, Settled, FileName
    <2>. QED
        BY <2>2, <2>4 DEF ViewInv
<1>12. CASE UNCHANGED vars
    BY <1>2, <1>12, <1>t DEF vars, TypeOK
<1>13. CASE ViewNext
    BY <1>1, <1>4, <1>5, <1>6, <1>7, <1>8, <1>9, <1>10, <1>11, <1>13
        DEF ViewNext
<1>. QED
    BY <1>12, <1>13 DEF DashboardNext, DrawElsewhere, dashboardVars

\* A fresh view has one fetch, which is live.
LEMMA ViewStart == DashboardInit => ViewInv
<1> SUFFICES ASSUME Init
             PROVE  ViewInv
    BY DEF DashboardInit
<1>1. Start \in OfferedFilters
    BY ViewAssumption DEF OfferedFilters, Filters, Offered
<1>2. Fetch(Start) \in Fetches
    BY <1>1 DEF Fetch, Fetches
<1>3. fetches = <<Fetch(Start)>> /\ fetches \in Seq(Fetches) /\ Len(fetches) = 1
    BY <1>2 DEF Init
<1>4. TypeOK
    <2>1. FileName(Start) \in {FileName(f) : f \in Filters}
        BY <1>1 DEF OfferedFilters
    <2>. QED
        BY <1>1, <1>3, <2>1 DEF Init, TypeOK, Nothing
<1>5. LiveInv
    BY <1>3 DEF Init, LiveInv, Settled, Fetch, Nothing
<1>. QED
    BY <1>4, <1>5 DEF ViewInv

\* ViewInv is an invariant of the session.
LEMMA ViewInvCorrect == DashboardSpec => []ViewInv
BY ViewStart, ViewStep, PTL DEF DashboardSpec

\* However fast the filters change and in whatever order the answers come, the
\* chart and an error show what the filters asked for once what is queued has
\* been rendered, and so does a file that was not exported before that.
THEOREM ShownAsAskedCorrect == DashboardSpec => []ShownAsAsked
<1>1. ViewInv => ShownAsAsked
    <2> SUFFICES ASSUME ViewInv
                 PROVE  ShownAsAsked
        OBVIOUS
    <2>1. /\ Len(fetches) \in Nat /\ DOMAIN fetches = 1 .. Len(fetches)
          /\ queued.series \in 0 .. Len(fetches)
          /\ queued.error \in 0 .. Len(fetches)
        BY DEF ViewInv, TypeOK
    <2>2. \A i \in {queued.series, queued.error} \ {0} : Current(i)
        BY <2>1 DEF ViewInv, LiveInv, Settled, Current
    <2>. QED
        BY <2>2 DEF ViewInv, LiveInv, ShownAsAsked
<1>. QED
    BY <1>1, ViewInvCorrect, PTL

\* Whatever is picked in whatever order, every question is for a range that the
\* menu of its granularity offers.
THEOREM OnlyOfferedRangesCorrect == DashboardSpec => []OnlyOfferedRanges
<1>1. ViewInv => OnlyOfferedRanges
    <2> SUFFICES ASSUME ViewInv, NEW i \in DOMAIN fetches
                 PROVE  fetches[i].asked.days
                            \in Offered(fetches[i].asked.granularity)
        BY DEF OnlyOfferedRanges
    <2>1. fetches[i] \in Fetches
        BY DEF ViewInv, TypeOK
    <2>. QED
        BY <2>1 DEF Fetches, OfferedFilters
<1>. QED
    BY <1>1, ViewInvCorrect, PTL


-----------------------------------------------------------------------------
(***************************************************************************)
(* Colours.  A chart folds Assign over its keys, so a property of the      *)
(* session's map that Assign keeps holds after the chart.  What a fold is, *)
(* and that it exists, is shown first: the library defines it by a         *)
(* function on sets of positions that takes the last position off.         *)
(***************************************************************************)

\* A set of naturals has a least element.
LEMMA LeastNat ==
    ASSUME NEW T, T \subseteq Nat, T # {}
    PROVE  \E x \in T : \A y \in T : x <= y
<1>1. IsWellFoundedOn(OpToRel(<, Nat), Nat)
    BY NatLessThanWellFounded
<1>2. PICK x \in T : \A y \in T : ~ (<<y, x>> \in OpToRel(<, Nat))
    BY <1>1, WFMin
<1>3. \A y \in T : ~ (y < x)
    BY <1>2 DEF OpToRel
<1>. QED
    BY <1>3

\* The last of some positions of a chart is one of them.
LEMMA LastPosition ==
    ASSUME NEW m \in Nat, NEW s \in SUBSET (1..m), s # {}
    PROVE  Max(s) \in s
<1> DEFINE T == {m - x : x \in s}
<1>1. \A x \in s : x \in Int /\ m - x \in Nat
    OBVIOUS
<1>2. T \subseteq Nat
    BY <1>1
<1>3. T # {}
    <2>1. PICK x : x \in s
        OBVIOUS
    <2>2. m - x \in T
        BY <2>1
    <2>. QED
        BY <2>2
<1>4. PICK d \in T : \A y \in T : d <= y
    BY <1>2, <1>3, LeastNat
<1>5. PICK x \in s : d = m - x
    BY <1>4
<1>6. \A y \in s : m - x <= m - y
    BY <1>4, <1>5
<1>7. \A y \in s : x >= y
    BY <1>1, <1>6
<1>. QED
    BY <1>7 DEF Max

\* A key that is drawn first gets the next slot; one that was drawn before
\* leaves the map alone.
Kept(base, map) ==
    /\ DOMAIN base \subseteq DOMAIN map
    /\ \A k \in DOMAIN base : map[k] = base[k]

Distinct(map) ==
    /\ IsFiniteSet(DOMAIN map)
    /\ Cardinality(DOMAIN map) <= Slots =>
        /\ \A k \in DOMAIN map : map[k] \in 0 .. Cardinality(DOMAIN map) - 1
        /\ \A k, l \in DOMAIN map : map[k] = map[l] => k = l

Coloured(base, map) == Kept(base, map) /\ Distinct(map)

\* One key more leaves the colours there are alone and gets one of its own.
LEMMA AssignColours ==
    ASSUME NEW base, NEW map, NEW k, Coloured(base, map)
    PROVE  Coloured(base, Assign(map, k))
<1>1. CASE k \in DOMAIN map
    BY <1>1 DEF Assign
<1>2. CASE k \notin DOMAIN map
    <2> DEFINE n == Cardinality(DOMAIN map)
               new == Assign(map, k)
    <2>1. /\ DOMAIN new = DOMAIN map \cup {k}
          /\ new[k] = n % Slots
          /\ \A l \in DOMAIN map : new[l] = map[l]
        BY <1>2 DEF Assign
    <2>2. /\ IsFiniteSet(DOMAIN new)
          /\ Cardinality(DOMAIN new) = n + 1
          /\ n \in Nat
        BY <1>2, <2>1, FS_AddElement, FS_CardinalityType DEF Coloured, Distinct
    <2>3. Kept(base, new)
        BY <1>2, <2>1 DEF Coloured, Kept
    <2>4. ASSUME n + 1 <= Slots
          PROVE  /\ \A l \in DOMAIN new : new[l] \in 0 .. n
                 /\ \A i, j \in DOMAIN new : new[i] = new[j] => i = j
        <3>1. n % Slots = n
            BY <2>2, <2>4, ColorsAssumption
        <3>2. /\ \A l \in DOMAIN map : map[l] \in 0 .. n - 1
              /\ \A i, j \in DOMAIN map : map[i] = map[j] => i = j
            BY <2>2, <2>4, ColorsAssumption DEF Coloured, Distinct
        <3> HIDE DEF new, n
        <3>3. new[k] = n /\ n \notin 0 .. n - 1
            BY <2>1, <2>2, <3>1
        <3>. QED
            BY <2>1, <2>2, <3>2, <3>3
    <2>. QED
        BY <2>2, <2>3, <2>4 DEF Coloured, Distinct
<1>. QED
    BY <1>1, <1>2

\* The step of the library's fold at one set of positions.
FoldStep(f, base, chart, s) ==
    IF s = {} THEN base ELSE Assign(f[s \ {Max(s)}], chart[Max(s)])

IsFold(f, base, chart) ==
    f = [s \in SUBSET DOMAIN chart |-> FoldStep(f, base, chart, s)]

LEMMA FoldLeftIsAFold ==
    ASSUME NEW base, NEW chart
    PROVE  FoldLeft(Assign, base, chart)
              = (CHOOSE f : IsFold(f, base, chart))[DOMAIN chart]
BY DEF FoldLeft, MapThenFoldSet, IsFold, FoldStep

\* Up to n positions the fold can be built,
Foldable(n, base, chart) ==
    \E f : \A s \in SUBSET DOMAIN chart :
        Cardinality(s) <= n => f[s] = FoldStep(f, base, chart, s)

LEMMA OneMorePosition ==
    ASSUME NEW m \in Nat, NEW chart, DOMAIN chart = 1..m,
           NEW base, NEW n \in Nat, Foldable(n, base, chart)
    PROVE  Foldable(n + 1, base, chart)
<1> DEFINE D == DOMAIN chart
<1>1. PICK f : \A s \in SUBSET D :
                Cardinality(s) <= n => f[s] = FoldStep(f, base, chart, s)
    BY DEF Foldable
<1> DEFINE g == [s \in SUBSET D |->
                    IF Cardinality(s) <= n THEN f[s]
                    ELSE FoldStep(f, base, chart, s)]
<1>2. ASSUME NEW s \in SUBSET D, Cardinality(s) <= n + 1
      PROVE  g[s] = FoldStep(g, base, chart, s)
    <2>1. g[s] = FoldStep(f, base, chart, s)
        BY <1>1
    <2>2. CASE s = {}
        BY <2>1, <2>2 DEF FoldStep
    <2>3. CASE s # {}
        <3> DEFINE rest == s \ {Max(s)}
        <3>1. Max(s) \in s
            BY <2>3, LastPosition
        <3>2. IsFiniteSet(s)
            BY FS_Interval, FS_Subset
        <3>3. Cardinality(rest) = Cardinality(s) - 1 /\ Cardinality(s) \in Nat
            BY <3>1, <3>2, FS_RemoveElement, FS_CardinalityType
        <3>4. rest \in SUBSET D /\ Cardinality(rest) <= n
            BY <1>2, <3>3
        <3>5. g[rest] = f[rest]
            BY <3>4
        <3>. QED
            BY <2>1, <2>3, <3>5 DEF FoldStep
    <2>. QED
        BY <2>2, <2>3
<1>. QED
    BY <1>2 DEF Foldable

LEMMA FoldExists ==
    ASSUME NEW m \in Nat, NEW chart, DOMAIN chart = 1..m, NEW base
    PROVE  \E f : IsFold(f, base, chart)
<1> DEFINE D == DOMAIN chart
           T == {n \in Nat : ~ Foldable(n, base, chart)}
<1>1. \A s \in SUBSET D :
        /\ IsFiniteSet(s)
        /\ Cardinality(s) \in Nat
        /\ Cardinality(s) <= m
    <2>1. IsFiniteSet(D) /\ Cardinality(D) = m
        BY FS_Interval
    <2>. QED
        BY <2>1, FS_Subset, FS_CardinalityType
<1>2. Foldable(0, base, chart)
    <2> DEFINE f == [s \in SUBSET D |-> base]
    <2>1. \A s \in SUBSET D : Cardinality(s) <= 0 => s = {}
        BY <1>1, FS_EmptySet
    <2>2. \A s \in SUBSET D :
            Cardinality(s) <= 0 => f[s] = FoldStep(f, base, chart, s)
        BY <2>1 DEF FoldStep
    <2>. QED
        BY <2>2 DEF Foldable
<1>3. T = {}
    <2> SUFFICES ASSUME T # {}
                 PROVE  FALSE
        OBVIOUS
    <2>1. PICK n \in T : \A y \in T : n <= y
        BY LeastNat
    <2>2. n # 0
        BY <1>2, <2>1
    <2>3. n - 1 \in Nat /\ n - 1 \notin T
        BY <2>1, <2>2
    <2>4. Foldable((n - 1) + 1, base, chart)
        BY <2>3, OneMorePosition
    <2>. QED
        BY <2>1, <2>4
<1>4. PICK f : \A s \in SUBSET D : f[s] = FoldStep(f, base, chart, s)
    BY <1>1, <1>3 DEF Foldable
<1> DEFINE g == [s \in SUBSET D |-> f[s]]
<1>5. \A s \in SUBSET D : g[s] = FoldStep(g, base, chart, s)
    BY <1>4 DEF FoldStep
<1>6. IsFold(g, base, chart)
    BY <1>5 DEF IsFold
<1>. QED
    BY <1>6

\* A chart leaves the colours there are alone and gives its new keys others.
LEMMA ChartColours ==
    ASSUME NEW base, Distinct(base), NEW chart \in Charts
    PROVE  Coloured(base, FoldLeft(Assign, base, chart))
<1>1. PICK m \in Nat : chart \in [1..m -> Keys]
    BY DEF Charts, SeqOf
<1> DEFINE D == DOMAIN chart
<1>2. D = 1..m
    BY <1>1
<1>3. PICK f : IsFold(f, base, chart)
                /\ FoldLeft(Assign, base, chart) = f[D]
    BY <1>2, FoldExists, FoldLeftIsAFold
<1>4. \A s \in SUBSET D : f[s] = FoldStep(f, base, chart, s)
    BY <1>3 DEF IsFold
<1>5. \A s \in SUBSET D : IsFiniteSet(s) /\ Cardinality(s) \in Nat
    <2>1. IsFiniteSet(D)
        BY <1>2, FS_Interval
    <2>. QED
        BY <2>1, FS_Subset, FS_CardinalityType
<1> DEFINE Bad == {s \in SUBSET D : ~ Coloured(base, f[s])}
           T == {Cardinality(s) : s \in Bad}
<1>6. Bad = {}
    <2> SUFFICES ASSUME Bad # {}
                 PROVE  FALSE
        OBVIOUS
    <2>1. T \subseteq Nat
        BY <1>5
    <2>2. T # {}
        OBVIOUS
    <2>3. PICK n \in T : \A y \in T : n <= y
        BY <2>1, <2>2, LeastNat
    <2>4. PICK s \in Bad : n = Cardinality(s)
        BY <2>3
    <2>5. f[s] = FoldStep(f, base, chart, s)
        BY <1>4
    <2>6. CASE s = {}
        BY <2>4, <2>5, <2>6 DEF FoldStep, Coloured, Kept
    <2>7. CASE s # {}
        <3> DEFINE rest == s \ {Max(s)}
        <3>1. Max(s) \in s
            BY <1>2, <2>7, LastPosition
        <3>2. Cardinality(rest) = n - 1
            BY <1>5, <2>4, <3>1, FS_RemoveElement
        <3>3. Cardinality(rest) \notin T
            BY <2>1, <2>3, <3>2
        <3>4. Coloured(base, f[rest])
            BY <3>3
        <3>5. f[s] = Assign(f[rest], chart[Max(s)])
            BY <2>5, <2>7 DEF FoldStep
        <3>. QED
            BY <2>4, <3>4, <3>5, AssignColours
    <2>. QED
        BY <2>6, <2>7
<1>. QED
    BY <1>3, <1>6

\* The colours the session has given out are distinct while the slots last.
LEMMA ColoursDistinct == DashboardSpec => []Distinct(slotByKey)
<1>1. DashboardInit => Distinct(slotByKey)
    BY FS_EmptySet DEF DashboardInit, ColorsInit, Distinct
<1>2. Distinct(slotByKey) /\ [DashboardNext]_dashboardVars
        => Distinct(slotByKey)'
    <2> SUFFICES ASSUME Distinct(slotByKey), [DashboardNext]_dashboardVars
                 PROVE  Distinct(slotByKey)'
        OBVIOUS
    <2>1. CASE \E chart \in Charts : DrawChart(chart)
        BY <2>1, ChartColours DEF DrawChart, Coloured
    <2>2. CASE UNCHANGED slotByKey
        BY <2>2 DEF Distinct
    <2>. QED
        BY <2>1, <2>2 DEF DashboardNext, Draw, DrawElsewhere, dashboardVars
<1>. QED
    BY <1>1, <1>2, PTL DEF DashboardSpec

\* Whatever the views draw in whatever order, a key keeps its colour, and no
\* two look alike while there are slots for all that were seen.
THEOREM ColorFollowsEntityCorrect == DashboardSpec => ColorFollowsEntity
<1> DEFINE Follows ==
        LET known == DOMAIN slotByKey
            seen == DOMAIN slotByKey'
        IN  /\ known \subseteq seen
            /\ \A k \in known : slotByKey'[k] = slotByKey[k]
            /\ Cardinality(seen) <= Slots =>
                \A k, l \in seen : slotByKey'[k] = slotByKey'[l] => k = l
<1>1. Distinct(slotByKey) /\ [DashboardNext]_dashboardVars
        => [Follows]_slotByKey
    <2> SUFFICES ASSUME Distinct(slotByKey), [DashboardNext]_dashboardVars,
                        slotByKey' # slotByKey
                 PROVE  Follows
        OBVIOUS
    <2>1. PICK chart \in Charts : DrawChart(chart)
        BY DEF DashboardNext, Draw, DrawElsewhere, dashboardVars
    <2>2. Coloured(slotByKey, slotByKey')
        BY <2>1, ChartColours DEF DrawChart
    <2>. QED
        BY <2>2 DEF Coloured, Kept, Distinct
<1>. QED
    BY <1>1, ColoursDistinct, PTL DEF DashboardSpec, ColorFollowsEntity
=============================================================================
