----------------------------- MODULE MCDashboard -----------------------------
(* The ranges of Explore.tsx:15-30 for TLC, with two of the five groupings.    *)
EXTENDS Dashboard

MCRanges == [g \in Granularities |->
    CASE g = "HOURLY" -> <<1, 3, 14>>
      [] g = "DAILY" -> <<14, 30, 90>>
      [] g = "MONTHLY" -> <<180, 390>>]

MCStart == [granularity |-> "DAILY", groupBy |-> "SERVICE", days |-> 30]
=============================================================================
