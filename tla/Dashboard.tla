------------------------------ MODULE Dashboard ------------------------------
(***************************************************************************)
(* The costwatch front end in a session: the Explore view with the charts  *)
(* it draws.  The map of colours outlives the views, so what Overview and  *)
(* Resources draw while Explore is not on screen colours it as well.       *)
(***************************************************************************)
EXTENDS ExploreView, SeriesColors

VARIABLE
    drawn  \* the fetch whose answer was last drawn as a chart, 0 for none

dashboardVars == <<vars, slotByKey, drawn>>

DashboardInit == Init /\ ColorsInit /\ drawn = 0

\* StackedExplore is rendered: there is an answer, no error, and no table.
ChartOnScreen == shown.series # 0 /\ shown.error = 0 /\ ~ showTable

\* What a commit draws.  A chart that is drawn again has its colours already.
Draw ==
    IF ChartOnScreen' /\ shown'.series # drawn
    THEN /\ drawn' = shown'.series
         /\ \E chart \in Charts : DrawChart(chart)
    ELSE UNCHANGED <<slotByKey, drawn>>

\* Another view draws its charts.
DrawElsewhere ==
    /\ ~ mounted
    /\ \E chart \in Charts : DrawChart(chart)
    /\ UNCHANGED <<vars, drawn>>

DashboardNext ==
    \/ ViewNext /\ Draw
    \/ DrawElsewhere

DashboardSpec == DashboardInit /\ [][DashboardNext]_dashboardVars

\* fetch settles: the server answers or the browser gives up.  React renders
\* what is queued.
FairDashboardSpec ==
    /\ DashboardSpec
    /\ \A i \in 1..MaxFetches :
        WF_dashboardVars(i \in DOMAIN fetches /\ Answer(i) /\ Draw)
    /\ WF_dashboardVars(Render /\ Draw)
=============================================================================
