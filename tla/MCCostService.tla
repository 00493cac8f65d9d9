---------------------------- MODULE MCCostService ----------------------------
(* Small instances of CostService for TLC: what a client may ask, the cache   *)
(* keys that follow from it, and what Cost Explorer may answer.               *)
EXTENDS CostService

Q(granularity, groupBy, days) ==
    [granularity |-> granularity, groupBy |-> groupBy, days |-> days]

\* The summary; two spellings of one daily question; the two kinds that need
\* the opt-in, one that differs from the daily question in its grouping only and
\* one by a tag that is allowed, with days to clamp; and two that are refused.
MCQuestions ==
    {Overview, Q("", "", 1), Q("DAILY", "SERVICE", 30),
     Q("DAILY", "RESOURCE_ID", 30), Q("HOURLY", "TAG:team", 30),
     Q("MONTHLY", "TAG:other", 30),
     Q("DAILY", "", Malformed)}

MCKeys == {Key(Normal(q)) : q \in {p \in Questions : Accepted(p)}}

E(cause, says) == [cause |-> cause, says |-> says]

\* The errors one expects, and texts that mislead: an opt-in error that speaks of
\* something unsupported as well, and upstream errors that speak of what costwatch
\* looks for.
MCErrors ==
    {E("optin", {"hourly", "unsupported"}), E("denied", {"denied"}),
     E("cancelled", {}), E("upstream", {}), E("upstream", {"unsupported"}),
     E("upstream", {"hourly"})}
=============================================================================
