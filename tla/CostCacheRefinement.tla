------------------------- MODULE CostCacheRefinement -------------------------
(***************************************************************************)
(* CostCache implements CacheRegister.  A leader and its waiters decide    *)
(* together, when fn returns; a request that joins a flight whose fn has   *)
(* already returned decides when it joins; a hit decides when it captures  *)
(* the entry.  The later steps (counters, close, store, wake) are          *)
(* invisible.                                                              *)
(***************************************************************************)
EXTENDS CostCache

\* The answer a request is committed to, long before it may return it.
decided ==
    [r \in Requests |->
        IF pc[r] = "done" THEN answer[r]
        ELSE IF call[r] # NoRequest THEN outcome[call[r]]
        ELSE outcome[r]]

\* What requests for a key are committed to, of data.
SoldOf(k) ==
    {decided[r] : r \in {q \in Requests :
                            key[q] = k /\ decided[q].kind = "ok"}}

\* The newest data of a key that anyone is committed to.
newestSold ==
    [k \in Keys |->
        IF SoldOf(k) = {} THEN None
        ELSE CHOOSE newest \in SoldOf(k) :
                \A a \in SoldOf(k) : a.asOf <= newest.asOf]

Register == INSTANCE CacheRegister WITH
    bought <- newestSold, asks <- key,
    Failures <- {Err("failed"), Err("cancelled")}

\* Every behaviour of the cache is one of the register's.
ImplementsRegister == Register!Spec
=============================================================================
