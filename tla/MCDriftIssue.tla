----------------------------- MODULE MCDriftIssue -----------------------------
(* Two of the three environments for TLC.  *)
EXTENDS DriftIssue

MCMatrix == <<"dev", "prod">>
=============================================================================
