-------------------------- MODULE MCSeriesAggregate --------------------------
(* Small results for SeriesAggregate: a credit and a charge, three keys.  *)
EXTENDS SeriesAggregate

MCAmounts == {-1, 2}
=============================================================================
