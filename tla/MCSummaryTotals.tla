--------------------------- MODULE MCSummaryTotals ---------------------------
(* Small reports for SummaryTotals: charges of two sizes and a credit.  *)
EXTENDS SummaryTotals

MCAmounts == {-3, 1, 2}
=============================================================================
