--------------------------- MODULE CacheRegister ---------------------------
(***************************************************************************)
(* What CostCache promises, with the cache hidden.  Each key is a register *)
(* that holds the newest data bought for it.  A request takes effect at    *)
(* one instant between its call and its return: it either buys, together   *)
(* with any requests that wait for the same key, or reads the register, or *)
(* fails.  So there is no order of lookups, flights, wake-ups and stores   *)
(* in which two requests see the purchases of a key in different orders.   *)
(***************************************************************************)
EXTENDS Naturals

CONSTANTS
    Requests,
    Keys,
    NoKey,
    None,      \* nothing decided yet
    Ok(_),     \* the answer that carries the data of an instant
    Failures   \* the answers that carry none

VARIABLES
    now,       \* the clock
    bought,    \* the answer that carries the newest data bought for each key,
               \* None at first
    asks,      \* the key each request asks for
    decided    \* the answer each request will return

vars == <<now, bought, asks, decided>>

Init ==
    /\ now = 0
    /\ bought = [k \in Keys |-> None]
    /\ asks = [r \in Requests |-> NoKey]
    /\ decided = [r \in Requests |-> None]

Pending(k) == {r \in Requests : asks[r] = k /\ decided[r] = None}

Decide(rs, result) ==
    decided' = [r \in Requests |-> IF r \in rs THEN result ELSE decided[r]]

Ask(r, k) ==
    /\ asks[r] = NoKey
    /\ asks' = [asks EXCEPT ![r] = k]
    /\ UNCHANGED <<now, bought, decided>>

\* One purchase of k answers the pending requests rs.
Buy(k, rs) ==
    /\ bought' = [bought EXCEPT ![k] = Ok(now)]
    /\ Decide(rs, Ok(now))
    /\ UNCHANGED <<now, asks>>

\* One failure answers the pending requests rs.
Fail(k, rs) ==
    /\ \E failure \in Failures : Decide(rs, failure)
    /\ UNCHANGED <<now, bought, asks>>

\* A request reads what was bought last.
Read(r) ==
    /\ asks[r] # NoKey
    /\ decided[r] = None
    /\ bought[asks[r]] # None
    /\ Decide({r}, bought[asks[r]])
    /\ UNCHANGED <<now, bought, asks>>

Tick ==
    /\ now' = now + 1
    /\ UNCHANGED <<bought, asks, decided>>

Next ==
    \/ \E r \in Requests, k \in Keys : Ask(r, k)
    \/ \E k \in Keys : \E rs \in (SUBSET Pending(k)) \ {{}} :
        Buy(k, rs) \/ Fail(k, rs)
    \/ \E r \in Requests : Read(r)
    \/ Tick

Spec == Init /\ [][Next]_vars
=============================================================================
