---------------------------- MODULE MCCostWindows ----------------------------
(* Four years of CostWindows, one of them a leap year, for TLC.  *)
EXTENDS CostWindows

\* Outside, at and inside the clamps of normalize, and the ranges the Explore
\* view offers (views/Explore.tsx:14-30).
MCDayRanges == {0, 1, 14, 30, 59, 90, 180, 390, 400}
=============================================================================
