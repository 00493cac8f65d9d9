-------------------------- MODULE CostServiceProofs --------------------------
(***************************************************************************)
(* Proofs about CostCache and CostService, for any requests, keys,         *)
(* lifetime, cap and questions.                                            *)
(*                                                                         *)
(* First the cache: typing, its safety, and that it implements a register. *)
(* Then the service: with its cache it implements the cache alone, so all  *)
(* that is proved about CostCache holds there; the rest follows what a     *)
(* fetch has bought, from its first page to the status codes of everyone   *)
(* who is answered from it.                                                *)
(***************************************************************************)
EXTENDS CostService, CostCacheRefinement, FiniteSetTheorems, SequenceTheorems,
    TLAPS

-----------------------------------------------------------------------------
(* Typing.                                                                 *)

\* A step of a goroutine inside do keeps every type.
LEMMA DoTyping ==
    ASSUME TypeOK, NEW r \in Requests, Do(r)
    PROVE  TypeOK'
<1> USE CacheAssumption
<1>1. CASE Bypass(r)
    BY <1>1 DEF TypeOK, Bypass, Goto, PCs, cacheVars, PartialFn
<1>2. CASE Hit(r)
    BY <1>2 DEF TypeOK, Hit, Fresh, Goto, PCs, cacheVars, PartialFn, Outcome,
        Ok, Entry
<1>3. CASE CountHit(r)
    BY <1>3 DEF TypeOK, CountHit, Return, Goto, PCs, cacheVars, PartialFn
<1>4. CASE Join(r)
    BY <1>4 DEF TypeOK, Join, Registered, Goto, PCs, cacheVars, PartialFn
<1>5. CASE Lead(r)
    <2>1. key[r] \in Keys
        BY <1>5 DEF TypeOK, Lead
    <2>. QED
        BY <1>5, <2>1 DEF TypeOK, Lead, Goto, PCs, PartialFn
<1>6. CASE CountMiss(r)
    BY <1>6 DEF TypeOK, CountMiss, Goto, PCs, cacheVars, PartialFn
<1>7. CASE FetchReturns(r)
    <2>1. FnResults(r) \subseteq Outcome
        BY DEF TypeOK, FnResults, Outcome, Ok, Err
    <2>. QED
        BY <1>7, <2>1 DEF TypeOK, FetchReturns, Goto, PCs, cacheVars, PartialFn
<1>8. CASE DirectReturns(r)
    <2>1. FnResults(r) \subseteq Outcome
        BY DEF TypeOK, FnResults, Outcome, Ok, Err
    <2>. QED
        BY <1>8, <2>1 DEF TypeOK, DirectReturns, Return, Goto, PCs, cacheVars,
            PartialFn
<1>9. CASE FetchPanics(r)
    BY <1>9 DEF TypeOK, FetchPanics, Goto, PCs, cacheVars, PartialFn
<1>10. CASE Close(r)
    BY <1>10 DEF TypeOK, Close, Goto, PCs, PartialFn
<1>11. CASE Wake(r)
    BY <1>11 DEF TypeOK, Wake, Return, Goto, PCs, cacheVars, PartialFn
<1>12. CASE StoreFailed(r)
    BY <1>12 DEF TypeOK, StoreFailed, Return, Goto, PCs, PartialFn, Restrict
<1>13. CASE StoreOk(r)
    <2>1. key[r] \in Keys
        BY <1>13 DEF TypeOK, StoreOk
    <2>2. PICK kept \in SUBSET DOMAIN entries :
            entries' = [k \in kept \cup {key[r]} |->
                           IF k = key[r]
                           THEN [asOf |-> outcome[r].asOf, exp |-> Expiry]
                           ELSE entries[k]]
        BY <1>13 DEF StoreOk
    <2>3. [asOf |-> outcome[r].asOf, exp |-> Expiry] \in Entry
        BY DEF TypeOK, Entry, Outcome, Expiry
    <2>4. PartialFn(entries, Keys, Entry)'
        BY <2>1, <2>2, <2>3 DEF TypeOK, PartialFn
    <2>5. PartialFn(inflight, Keys, Requests)'
        BY <1>13 DEF TypeOK, StoreOk, PartialFn, Restrict
    <2>. QED
        BY <1>13, <2>4, <2>5 DEF TypeOK, StoreOk, Return, Goto, PCs
<1>. QED
    BY <1>1, <1>2, <1>3, <1>4, <1>5, <1>6, <1>7, <1>8, <1>9, <1>10, <1>11,
        <1>12, <1>13 DEF Do

\* Every variable keeps its type.
THEOREM TypeCorrect == Spec => []TypeOK
<1>1. Init => TypeOK
    BY CacheAssumption DEF Init, TypeOK, PartialFn, Entry, Outcome, None, PCs
<1>2. TypeOK /\ [Next]_vars => TypeOK'
    <2> SUFFICES ASSUME TypeOK, [Next]_vars
                 PROVE  TypeOK'
        OBVIOUS
    <2>1. ASSUME NEW r \in Requests, NEW k \in Keys, Begin(r, k)
          PROVE  TypeOK'
        <3>1. Answered(k) \subseteq Nat
            BY DEF TypeOK, Answered, Outcome
        <3>. QED
            BY <2>1, <3>1 DEF TypeOK, Begin, Goto, PCs, cacheVars, PartialFn
    <2>2. ASSUME NEW r \in Requests, Do(r)
          PROVE  TypeOK'
        BY <2>2, DoTyping
    <2>3. ASSUME NEW r \in Requests, ClientGone(r)
          PROVE  TypeOK'
        BY <2>3 DEF TypeOK, ClientGone, cacheVars, PartialFn
    <2>4. CASE Tick
        BY <2>4 DEF TypeOK, Tick, cacheVars, PartialFn
    <2>5. CASE UNCHANGED vars
        BY <2>5 DEF TypeOK, vars, cacheVars, PartialFn
    <2>. QED
        BY <2>1, <2>2, <2>3, <2>4, <2>5 DEF Next
<1>. QED
    BY <1>1, <1>2, PTL DEF Spec

-----------------------------------------------------------------------------
(* Single flight.                                                          *)

\* A step inside do keeps registry and flights in agreement.
LEMMA DoRegistry ==
    ASSUME TypeOK, RegistryExact, NEW r \in Requests, Do(r)
    PROVE  RegistryExact'
<1> USE DEF TypeOK, PartialFn, RegistryExact, Flying, Goto, PCs
<1>1. CASE Bypass(r)
    BY <1>1 DEF Bypass, cacheVars
<1>2. CASE Hit(r)
    BY <1>2 DEF Hit, cacheVars
<1>3. CASE CountHit(r)
    BY <1>3 DEF CountHit, Return, cacheVars
<1>4. CASE Join(r)
    BY <1>4 DEF Join, cacheVars
<1>5. CASE Lead(r)
    \* No flight of this key was registered, so none was in the air.
    BY <1>5 DEF Lead, Registered
<1>6. CASE CountMiss(r)
    BY <1>6 DEF CountMiss, cacheVars
<1>7. CASE FetchReturns(r)
    BY <1>7 DEF FetchReturns, cacheVars
<1>8. CASE DirectReturns(r)
    BY <1>8 DEF DirectReturns, Return, cacheVars
<1>9. CASE FetchPanics(r)
    BY <1>9 DEF FetchPanics, cacheVars
<1>10. CASE Close(r)
    BY <1>10 DEF Close
<1>11. CASE Wake(r)
    BY <1>11 DEF Wake, Return, cacheVars
<1>12. CASE StoreFailed(r)
    BY <1>12 DEF StoreFailed, Return, Restrict
<1>13. CASE StoreOk(r)
    BY <1>13 DEF StoreOk, Return, Restrict
<1>. QED
    BY <1>1, <1>2, <1>3, <1>4, <1>5, <1>6, <1>7, <1>8, <1>9, <1>10, <1>11,
        <1>12, <1>13 DEF Do

\* The registry holds exactly the flights in the air (and those a panic of fn
\* has wedged).
THEOREM RegistryCorrect == Spec => []RegistryExact
<1>1. Init => RegistryExact
    BY DEF Init, RegistryExact, Flying
<1>2. TypeOK /\ RegistryExact /\ [Next]_vars => RegistryExact'
    <2> SUFFICES ASSUME TypeOK, RegistryExact, [Next]_vars
                 PROVE  RegistryExact'
        OBVIOUS
    <2> USE DEF TypeOK, PartialFn, RegistryExact, Flying
    <2>1. ASSUME NEW r \in Requests, NEW k \in Keys, Begin(r, k)
          PROVE  RegistryExact'
        BY <2>1 DEF Begin, Goto, cacheVars
    <2>2. ASSUME NEW r \in Requests, Do(r)
          PROVE  RegistryExact'
        BY <2>2, DoRegistry
    <2>3. ASSUME NEW r \in Requests, ClientGone(r)
          PROVE  RegistryExact'
        BY <2>3 DEF ClientGone, cacheVars
    <2>4. CASE Tick
        BY <2>4 DEF Tick, cacheVars
    <2>5. CASE UNCHANGED vars
        BY <2>5 DEF vars, cacheVars
    <2>. QED
        BY <2>1, <2>2, <2>3, <2>4, <2>5 DEF Next
<1>. QED
    BY <1>1, <1>2, TypeCorrect, PTL DEF Spec

\* However the requests interleave, no two buy the same key at the same time.
THEOREM SingleFlightCorrect == Spec => []SingleFlight
<1>1. RegistryExact => SingleFlight
    BY DEF RegistryExact, SingleFlight
<1>. QED
    BY <1>1, RegistryCorrect, PTL

-----------------------------------------------------------------------------
(* No purchase while the cached value could be served.                     *)

\* A step inside do never leaves a flight beside a fresh entry of its key: a
\* flight starts only without one, and only the flight itself stores one.
LEMMA DoNoPurchase ==
    ASSUME TypeOK, RegistryExact, NoPurchaseWhileFresh,
           NEW r \in Requests, Do(r)
    PROVE  NoPurchaseWhileFresh'
<1> USE DEF TypeOK, PartialFn, NoPurchaseWhileFresh, Flying, Goto, PCs
<1>1. CASE Bypass(r)
    BY <1>1 DEF Bypass, cacheVars
<1>2. CASE Hit(r)
    BY <1>2 DEF Hit, cacheVars
<1>3. CASE CountHit(r)
    BY <1>3 DEF CountHit, Return, cacheVars
<1>4. CASE Join(r)
    BY <1>4 DEF Join, cacheVars
<1>5. CASE Lead(r)
    <2>1. key[r] \in DOMAIN entries => entries[key[r]].exp <= now
        BY <1>5 DEF Lead, Fresh, Entry
    <2>. QED
        BY <1>5, <2>1 DEF Lead
<1>6. CASE CountMiss(r)
    BY <1>6 DEF CountMiss, cacheVars
<1>7. CASE FetchReturns(r)
    BY <1>7 DEF FetchReturns, cacheVars
<1>8. CASE DirectReturns(r)
    BY <1>8 DEF DirectReturns, Return, cacheVars
<1>9. CASE FetchPanics(r)
    BY <1>9 DEF FetchPanics, cacheVars
<1>10. CASE Close(r)
    BY <1>10 DEF Close
<1>11. CASE Wake(r)
    BY <1>11 DEF Wake, Return, cacheVars
<1>12. CASE StoreFailed(r)
    BY <1>12 DEF StoreFailed, Return
<1>13. CASE StoreOk(r)
    \* The only new entry is that of r, the only flyer of its key, and r lands.
    <2>1. PICK kept \in SUBSET DOMAIN entries :
            entries' = [k \in kept \cup {key[r]} |->
                           IF k = key[r]
                           THEN [asOf |-> outcome[r].asOf, exp |-> Expiry]
                           ELSE entries[k]]
        BY <1>13 DEF StoreOk
    <2>2. \A q \in Requests : Flying(q)' => Flying(q) /\ q # r
        BY <1>13 DEF StoreOk, Return
    <2>3. \A q \in Requests : Flying(q)' => key[q] # key[r]
        BY <1>13, <2>2 DEF StoreOk, RegistryExact
    <2>4. now' = now /\ key' = key
        BY <1>13 DEF StoreOk
    <2>. QED
        BY <2>1, <2>2, <2>3, <2>4
<1>. QED
    BY <1>1, <1>2, <1>3, <1>4, <1>5, <1>6, <1>7, <1>8, <1>9, <1>10, <1>11,
        <1>12, <1>13 DEF Do

\* Nobody pays for a key whose cached value could still be served.
THEOREM NoPurchaseWhileFreshCorrect == Spec => []NoPurchaseWhileFresh
<1>1. Init => NoPurchaseWhileFresh
    BY DEF Init, NoPurchaseWhileFresh, Flying
<1>2. TypeOK /\ RegistryExact /\ NoPurchaseWhileFresh /\ [Next]_vars
        => NoPurchaseWhileFresh'
    <2> SUFFICES ASSUME TypeOK, RegistryExact, NoPurchaseWhileFresh,
                        [Next]_vars
                 PROVE  NoPurchaseWhileFresh'
        OBVIOUS
    <2> USE DEF TypeOK, PartialFn, NoPurchaseWhileFresh, Flying
    <2>1. ASSUME NEW r \in Requests, NEW k \in Keys, Begin(r, k)
          PROVE  NoPurchaseWhileFresh'
        BY <2>1 DEF Begin, Goto, cacheVars
    <2>2. ASSUME NEW r \in Requests, Do(r)
          PROVE  NoPurchaseWhileFresh'
        BY <2>2, DoNoPurchase
    <2>3. ASSUME NEW r \in Requests, ClientGone(r)
          PROVE  NoPurchaseWhileFresh'
        BY <2>3 DEF ClientGone, cacheVars
    <2>4. CASE Tick
        BY <2>4 DEF Tick, cacheVars, Entry
    <2>5. CASE UNCHANGED vars
        BY <2>5 DEF vars, cacheVars
    <2>. QED
        BY <2>1, <2>2, <2>3, <2>4, <2>5 DEF Next
<1>. QED
    BY <1>1, <1>2, TypeCorrect, RegistryCorrect, PTL DEF Spec

-----------------------------------------------------------------------------
(* The cap, and what is dropped to hold it.                                *)

\* The map is finite, so that it has a size: the inductive form of the cap.
CapInv == IsFiniteSet(DOMAIN entries) /\ CapHolds

\* Every step but a successful store leaves the map alone.
LEMMA OnlyStoreOkWrites ==
    ASSUME [Next]_vars, entries' # entries
    PROVE  \E r \in Requests : StoreOk(r)
<1>1. ASSUME NEW r \in Requests, Do(r), ~ StoreOk(r)
      PROVE  entries' = entries
    BY <1>1 DEF Do, Bypass, Hit, CountHit, Join, Lead, CountMiss,
        FetchReturns, DirectReturns, FetchPanics, Close, Wake, StoreFailed,
        cacheVars
<1>2. ASSUME NEW r \in Requests, NEW k \in Keys, Begin(r, k)
      PROVE  entries' = entries
    BY <1>2 DEF Begin, cacheVars
<1>3. ASSUME NEW r \in Requests, ClientGone(r)
      PROVE  entries' = entries
    BY <1>3 DEF ClientGone, cacheVars
<1>4. Tick \/ UNCHANGED vars => entries' = entries
    BY DEF Tick, vars, cacheVars
<1>. QED
    BY <1>1, <1>2, <1>3, <1>4 DEF Next

\* The map stays finite and under its cap: finiteness makes the cap inductive.
THEOREM CapInvCorrect == Spec => []CapInv
<1>1. Init => CapInv
    BY FS_EmptySet, CacheAssumption DEF Init, CapInv, CapHolds
<1>2. CapInv /\ [Next]_vars => CapInv'
    <2> SUFFICES ASSUME CapInv, [Next]_vars
                 PROVE  CapInv'
        OBVIOUS
    <2>1. CASE entries' = entries
        BY <2>1 DEF CapInv, CapHolds
    <2>2. CASE entries' # entries
        <3>1. PICK r \in Requests : StoreOk(r)
            BY <2>2, OnlyStoreOkWrites
        <3>2. PICK kept \in SUBSET DOMAIN entries :
                Swept(kept) /\ DOMAIN entries' = kept \cup {key[r]}
            BY <3>1 DEF StoreOk
        <3>3. IsFiniteSet(kept) /\ Cardinality(kept) \in Nat
            BY <3>2, FS_Subset, FS_CardinalityType DEF CapInv
        <3>4. /\ IsFiniteSet(DOMAIN entries')
              /\ Cardinality(DOMAIN entries') <= Cardinality(kept) + 1
            BY <3>2, <3>3, FS_AddElement
        <3>5. Cardinality(DOMAIN entries') \in Nat
            BY <3>4, FS_CardinalityType
        <3>. QED
            BY <3>2, <3>3, <3>4, <3>5, CacheAssumption
                DEF Swept, CapInv, CapHolds
    <2>. QED
        BY <2>1, <2>2
<1>. QED
    BY <1>1, <1>2, PTL DEF Spec

\* The cap holds for every number of keys, requests and evictions.
THEOREM CapCorrect == Spec => []CapHolds
<1>1. CapInv => CapHolds
    BY DEF CapInv
<1>. QED
    BY <1>1, CapInvCorrect, PTL

\* There are no flights when the cache is off, so what a store writes expires
\* after now.
CachingOn == \A r \in Requests : Flying(r) => TTL > 0

\* Only a request that found the cache on becomes a leader.
LEMMA FlightsAreCached == Spec => []CachingOn
<1>1. Init => CachingOn
    BY DEF Init, CachingOn, Flying
<1>2. TypeOK /\ CachingOn /\ [Next]_vars => CachingOn'
    <2> SUFFICES ASSUME TypeOK, CachingOn, [Next]_vars
                 PROVE  CachingOn'
        OBVIOUS
    <2> USE DEF TypeOK, CachingOn, Flying, Goto, Return
    <2>1. ASSUME NEW r \in Requests, Do(r)
          PROVE  CachingOn'
        BY <2>1 DEF Do, Bypass, Hit, CountHit, Join, Lead, CountMiss,
            FetchReturns, DirectReturns, FetchPanics, Close, Wake,
            StoreFailed, StoreOk, Caching
    <2>2. ASSUME NEW r \in Requests, NEW k \in Keys, Begin(r, k)
          PROVE  CachingOn'
        BY <2>2 DEF Begin
    <2>3. CASE \/ \E r \in Requests : ClientGone(r)
               \/ Tick \/ UNCHANGED vars
        BY <2>3 DEF ClientGone, Tick, vars
    <2>. QED
        BY <2>1, <2>2, <2>3 DEF Next
<1>. QED
    BY <1>1, <1>2, TypeCorrect, PTL DEF Spec

\* A fresh entry is dropped only to make room, and only the nearest to expiry.
THEOREM FreshEntriesKeptCorrect == Spec => FreshEntriesKept
<1>1. TypeOK /\ NoPurchaseWhileFresh /\ CachingOn /\ CapInv /\ [Next]_vars
        => [DropsNearestExpiry]_vars
    <2> SUFFICES ASSUME TypeOK, NoPurchaseWhileFresh, CachingOn, CapInv,
                        [Next]_vars
                 PROVE  DropsNearestExpiry
        OBVIOUS
    <2>1. CASE entries' = entries
        BY <2>1 DEF DropsNearestExpiry
    <2>2. CASE entries' # entries
        <3>1. PICK r \in Requests : StoreOk(r)
            BY <2>2, OnlyStoreOkWrites
        <3>2. PICK kept \in SUBSET DOMAIN entries :
                /\ Swept(kept)
                /\ entries' = [k \in kept \cup {key[r]} |->
                        IF k = key[r]
                        THEN [asOf |-> outcome[r].asOf, exp |-> Expiry]
                        ELSE entries[k]]
            BY <3>1 DEF StoreOk
        <3> SUFFICES ASSUME NEW k \in DOMAIN entries \ DOMAIN entries',
                            entries[k].exp > now
                     PROVE  /\ Cardinality(DOMAIN entries') = MaxEntries
                            /\ \A l \in DOMAIN entries \cap DOMAIN entries' :
                                entries'[l] = entries[l] =>
                                    entries[k].exp <= entries[l].exp
            BY DEF DropsNearestExpiry
        <3>3. /\ now \in Nat
              /\ \A l \in DOMAIN entries : entries[l].exp \in Nat
            BY DEF TypeOK, PartialFn, Entry
        <3>4. k \in Unexpired \ kept
            BY <3>2, <3>3 DEF Unexpired
        <3>5. \A l \in kept : entries[k].exp <= entries[l].exp
            BY <3>2, <3>4 DEF Swept
        <3>6. key[r] \in DOMAIN entries => entries[key[r]].exp <= now
            BY <3>1 DEF NoPurchaseWhileFresh, Flying, StoreOk
        <3>7. key[r] \notin kept
            \* It expires by now, and k, which was dropped, later.
            BY <3>2, <3>3, <3>5, <3>6
        <3>8. Cardinality(kept) = MaxEntries - 1
            BY <3>2, <3>4 DEF Swept
        <3>9. IsFiniteSet(kept)
            BY <3>2, FS_Subset DEF CapInv
        <3>10. Cardinality(DOMAIN entries') = MaxEntries
            <4>1. DOMAIN entries' = kept \cup {key[r]}
                BY <3>2
            <4>2. Cardinality(kept \cup {key[r]}) = Cardinality(kept) + 1
                BY <3>7, <3>9, FS_AddElement
            <4>. QED
                BY <3>8, <4>1, <4>2, CacheAssumption
        <3>11. \A l \in DOMAIN entries \cap DOMAIN entries' :
                entries'[l] = entries[l] => entries[k].exp <= entries[l].exp
            <4> SUFFICES ASSUME NEW l \in DOMAIN entries \cap DOMAIN entries',
                                entries'[l] = entries[l]
                         PROVE  entries[k].exp <= entries[l].exp
                OBVIOUS
            <4>1. CASE l \in kept
                BY <3>5, <4>1
            <4>2. CASE l = key[r]
                <5>1. entries[l].exp = now + TTL
                    BY <3>2, <4>2 DEF Expiry
                <5>2. entries[l].exp <= now
                    BY <3>6, <4>2
                <5>3. TTL > 0
                    BY <3>1 DEF CachingOn, Flying, StoreOk
                <5>. QED
                    BY <5>1, <5>2, <5>3, <3>3, CacheAssumption
            <4>. QED
                BY <3>2, <4>1, <4>2
        <3>. QED
            BY <3>10, <3>11
    <2>. QED
        BY <2>1, <2>2
<1>. QED
    BY <1>1, TypeCorrect, NoPurchaseWhileFreshCorrect, FlightsAreCached,
        CapInvCorrect, PTL DEF Spec, FreshEntriesKept

-----------------------------------------------------------------------------
(* Agreement on a flight.                                                  *)

\* A flight's outcome is written once, before its channel is closed and
\* before anyone returns it.
FlightInv ==
    /\ \A r \in Requests :
        /\ pc[r] \in {"idle", "called"} =>
            call[r] = NoRequest /\ outcome[r] = None
        /\ pc[r] \in {"hit", "direct"} => call[r] = NoRequest
        /\ pc[r] \in {"leading", "fetching"} =>
            call[r] = r /\ outcome[r] = None
        /\ pc[r] \in {"closing", "storing"} =>
            call[r] = r /\ outcome[r].kind # "none"
        /\ outcome[r].kind = "cancelled" => r \in gone
    /\ \A r \in closed :
        pc[r] \in {"storing", "done"} /\ outcome[r].kind # "none"
    /\ \A r \in Requests : pc[r] = "done" /\ call[r] # NoRequest =>
        answer[r] = outcome[call[r]] /\ outcome[call[r]].kind # "none"

\* A step inside do keeps FlightInv.
LEMMA DoFlights ==
    ASSUME TypeOK, FlightInv, NEW r \in Requests, Do(r)
    PROVE  FlightInv'
<1> USE CacheAssumption DEF TypeOK, FlightInv, Goto, PCs
<1>1. CASE Bypass(r)
    BY <1>1 DEF Bypass, cacheVars
<1>2. CASE Hit(r)
    BY <1>2 DEF Hit, cacheVars, Ok, None
<1>3. CASE CountHit(r)
    BY <1>3 DEF CountHit, Return, cacheVars
<1>4. CASE Join(r)
    BY <1>4 DEF Join, cacheVars
<1>5. CASE Lead(r)
    BY <1>5 DEF Lead
<1>6. CASE CountMiss(r)
    BY <1>6 DEF CountMiss, cacheVars
<1>7. CASE FetchReturns(r)
    <2>1. PICK result \in FnResults(r) :
            outcome' = [outcome EXCEPT ![r] = result]
        BY <1>7 DEF FetchReturns
    <2>2. result.kind # "none" /\ (result.kind = "cancelled" => r \in gone)
        BY DEF FnResults, Ok, Err
    <2>. QED
        BY <1>7, <2>1, <2>2 DEF FetchReturns, cacheVars, None
<1>8. CASE DirectReturns(r)
    BY <1>8 DEF DirectReturns, Return, cacheVars
<1>9. CASE FetchPanics(r)
    BY <1>9 DEF FetchPanics, cacheVars
<1>10. CASE Close(r)
    BY <1>10 DEF Close
<1>11. CASE Wake(r)
    BY <1>11 DEF Wake, Return, cacheVars
<1>12. CASE StoreFailed(r)
    BY <1>12 DEF StoreFailed, Return
<1>13. CASE StoreOk(r)
    BY <1>13 DEF StoreOk, Return
<1>. QED
    BY <1>1, <1>2, <1>3, <1>4, <1>5, <1>6, <1>7, <1>8, <1>9, <1>10, <1>11,
        <1>12, <1>13 DEF Do

\* FlightInv: what ties each request to the outcome of the flight it is on.
THEOREM FlightsCorrect == Spec => []FlightInv
<1>1. Init => FlightInv
    BY DEF Init, FlightInv, None
<1>2. TypeOK /\ FlightInv /\ [Next]_vars => FlightInv'
    <2> SUFFICES ASSUME TypeOK, FlightInv, [Next]_vars
                 PROVE  FlightInv'
        OBVIOUS
    <2> USE DEF TypeOK, FlightInv, Goto
    <2>1. ASSUME NEW r \in Requests, NEW k \in Keys, Begin(r, k)
          PROVE  FlightInv'
        BY <2>1 DEF Begin, cacheVars
    <2>2. ASSUME NEW r \in Requests, Do(r)
          PROVE  FlightInv'
        BY <2>2, DoFlights
    <2>3. ASSUME NEW r \in Requests, ClientGone(r)
          PROVE  FlightInv'
        BY <2>3 DEF ClientGone, cacheVars
    <2>4. CASE Tick
        BY <2>4 DEF Tick, cacheVars
    <2>5. CASE UNCHANGED vars
        BY <2>5 DEF vars, cacheVars
    <2>. QED
        BY <2>1, <2>2, <2>3, <2>4, <2>5 DEF Next
<1>. QED
    BY <1>1, <1>2, TypeCorrect, PTL DEF Spec

\* Everyone on a flight returns what its leader's fn returned, and only the
\* leader's client can cancel it.
THEOREM FlightAgreementCorrect == Spec => []FlightAgreement
<1>1. TypeOK /\ FlightInv => FlightAgreement
    BY CacheAssumption DEF TypeOK, FlightInv, FlightAgreement
<1>. QED
    BY <1>1, TypeCorrect, FlightsCorrect, PTL

-----------------------------------------------------------------------------
(* Places.                                                                 *)

\* What is established so far.
CacheInv == TypeOK /\ RegistryExact /\ FlightInv /\ NoPurchaseWhileFresh
                /\ CachingOn

\* CacheInv is an invariant.
LEMMA CacheInvCorrect == Spec => []CacheInv
BY TypeCorrect, RegistryCorrect, FlightsCorrect, NoPurchaseWhileFreshCorrect,
    FlightsAreCached, PTL DEF CacheInv

\* What a request carries at each place it may be.
PlaceInv ==
    /\ \A r \in Requests :
        /\ pc[r] = "idle" => key[r] = NoKey
        /\ pc[r] \in {"direct", "panicked"} => outcome[r] = None
        /\ pc[r] \in {"hit", "waiting"} => Caching
        /\ pc[r] = "hit" => outcome[r].kind = "ok"
        /\ pc[r] = "waiting" => call[r] # NoRequest
        /\ call[r] # NoRequest =>
            key[call[r]] = key[r] /\ call[call[r]] = call[r]
        /\ outcome[r].kind # "ok" => outcome[r].asOf = 0
        /\ answer[r].kind # "ok" => answer[r].asOf = 0
        /\ pc[r] = "direct" => ~ Caching
    /\ \A k \in DOMAIN inflight : call[inflight[k]] = inflight[k]
    /\ DOMAIN entries # {} => Caching

\* A step inside do keeps PlaceInv.
LEMMA DoPlaces ==
    ASSUME CacheInv, PlaceInv, NEW r \in Requests, Do(r)
    PROVE  PlaceInv'
<1> USE CacheAssumption DEF CacheInv, TypeOK, PlaceInv, FlightInv, Goto, PCs,
        Caching
<1>1. CASE Bypass(r)
    BY <1>1 DEF Bypass, cacheVars
<1>2. CASE Hit(r)
    BY <1>2 DEF Hit, cacheVars, Ok
<1>3. CASE CountHit(r)
    BY <1>3 DEF CountHit, Return, cacheVars
<1>4. CASE Join(r)
    <2>1. /\ inflight[key[r]] \in Requests
          /\ key[inflight[key[r]]] = key[r]
          /\ call[inflight[key[r]]] = inflight[key[r]]
        BY <1>4 DEF Join, Registered, RegistryExact, PartialFn
    <2>. QED
        BY <1>4, <2>1 DEF Join, cacheVars
<1>5. CASE Lead(r)
    BY <1>5 DEF Lead, PartialFn
<1>6. CASE CountMiss(r)
    BY <1>6 DEF CountMiss, cacheVars
<1>7. CASE FetchReturns(r)
    <2>1. PICK result \in FnResults(r) :
            outcome' = [outcome EXCEPT ![r] = result]
        BY <1>7 DEF FetchReturns
    <2>2. result.kind # "ok" => result.asOf = 0
        BY DEF FnResults, Ok, Err
    <2>. QED
        BY <1>7, <2>1, <2>2 DEF FetchReturns, cacheVars
<1>8. CASE DirectReturns(r)
    <2>1. PICK result \in FnResults(r) : Return(r, result)
        BY <1>8 DEF DirectReturns
    <2>2. result.kind # "ok" => result.asOf = 0
        BY DEF FnResults, Ok, Err
    <2>. QED
        BY <1>8, <2>1, <2>2 DEF DirectReturns, Return, cacheVars
<1>9. CASE FetchPanics(r)
    BY <1>9 DEF FetchPanics, cacheVars
<1>10. CASE Close(r)
    BY <1>10 DEF Close
<1>11. CASE Wake(r)
    BY <1>11 DEF Wake, Return, cacheVars
<1>12. CASE StoreFailed(r)
    BY <1>12 DEF StoreFailed, Return, Restrict
<1>13. CASE StoreOk(r)
    <2>1. Caching
        BY <1>13 DEF StoreOk, CachingOn, Flying
    <2>. QED
        BY <1>13, <2>1 DEF StoreOk, Return, Restrict
<1>. QED
    BY <1>1, <1>2, <1>3, <1>4, <1>5, <1>6, <1>7, <1>8, <1>9, <1>10, <1>11,
        <1>12, <1>13 DEF Do

\* PlaceInv is an invariant.
LEMMA PlacesCorrect == Spec => []PlaceInv
<1>1. Init => PlaceInv
    BY DEF Init, PlaceInv, None
<1>2. CacheInv /\ PlaceInv /\ [Next]_vars => PlaceInv'
    <2> SUFFICES ASSUME CacheInv, PlaceInv, [Next]_vars
                 PROVE  PlaceInv'
        OBVIOUS
    <2> USE CacheAssumption DEF CacheInv, TypeOK, PlaceInv, FlightInv, Goto,
            PCs, Caching
    <2>1. ASSUME NEW r \in Requests, NEW k \in Keys, Begin(r, k)
          PROVE  PlaceInv'
        BY <2>1 DEF Begin, cacheVars
    <2>2. ASSUME NEW r \in Requests, Do(r)
          PROVE  PlaceInv'
        BY <2>2, DoPlaces
    <2>3. ASSUME NEW r \in Requests, ClientGone(r)
          PROVE  PlaceInv'
        BY <2>3 DEF ClientGone, cacheVars
    <2>4. CASE Tick
        BY <2>4 DEF Tick, cacheVars
    <2>5. CASE UNCHANGED vars
        BY <2>5 DEF vars
    <2>. QED
        BY <2>1, <2>2, <2>3, <2>4, <2>5 DEF Next
<1>. QED
    BY <1>1, <1>2, CacheInvCorrect, PTL DEF Spec

-----------------------------------------------------------------------------
(* The cache turned off.                                                   *)

\* With the cache off every request bypasses it.
OffInv ==
    TTL = 0 =>
        \A r \in Requests :
            /\ pc[r] \in {"idle", "called", "direct", "done", "panicked"}
            /\ call[r] = NoRequest
            /\ pc[r] = "done" =>
                /\ answer[r].kind \in {"ok", "failed", "cancelled"}
                /\ answer[r].kind = "cancelled" => r \in gone

\* With the cache off nobody shares anybody's fetch or fate.
THEOREM OwnFateWhenOffCorrect == Spec => []OwnFateWhenOff
<1>1. Init => OffInv
    BY DEF Init, OffInv
<1>2. TypeOK /\ OffInv /\ [Next]_vars => OffInv'
    <2> SUFFICES ASSUME TypeOK, OffInv, [Next]_vars, TTL = 0
                 PROVE  OffInv'
        BY DEF OffInv
    <2> USE DEF TypeOK, OffInv, Goto, Return
    <2>1. ASSUME NEW r \in Requests, DirectReturns(r)
          PROVE  OffInv'
        <3>1. PICK result \in FnResults(r) : Return(r, result)
            BY <2>1 DEF DirectReturns
        <3>2. /\ result.kind \in {"ok", "failed", "cancelled"}
              /\ result.kind = "cancelled" => r \in gone
            BY DEF FnResults, Ok, Err
        <3>. QED
            BY <2>1, <3>1, <3>2 DEF DirectReturns
    <2>2. ASSUME NEW r \in Requests, Do(r), ~ DirectReturns(r)
          PROVE  OffInv'
        \* Only Bypass and FetchPanics are possible.
        BY <2>2 DEF Do, Bypass, Hit, CountHit, Join, Lead, CountMiss,
            FetchReturns, FetchPanics, Close, Wake, StoreFailed, StoreOk,
            Caching
    <2>3. ASSUME NEW r \in Requests, NEW k \in Keys, Begin(r, k)
          PROVE  OffInv'
        BY <2>3 DEF Begin
    <2>4. ASSUME NEW r \in Requests, ClientGone(r)
          PROVE  OffInv'
        BY <2>4 DEF ClientGone
    <2>5. CASE Tick \/ UNCHANGED vars
        BY <2>5 DEF Tick, vars
    <2>. QED
        BY <2>1, <2>2, <2>3, <2>4, <2>5 DEF Next
<1>3. OffInv => OwnFateWhenOff
    BY DEF OffInv, OwnFateWhenOff
<1>. QED
    BY <1>1, <1>2, <1>3, TypeCorrect, PTL DEF Spec

-----------------------------------------------------------------------------
(***************************************************************************)
(* Answers never go back in time, and CostCache implements CacheRegister.  *)
(* Both rest on what a request is committed to (decided): the newest       *)
(* commitment of a key is the outcome of its flight if that has one, and   *)
(* its cache entry otherwise.                                              *)
(***************************************************************************)

Bought(r) == decided[r].kind = "ok"

\* r leads a flight that fn has given its data, and has not stored it yet.
Landing(r) == pc[r] \in {"closing", "storing"} /\ outcome[r].kind = "ok"

\* Nobody is committed to data from the future,
NotAhead == \A r \in Requests : Bought(r) => decided[r].asOf <= now

\* nor to newer data than a flight that is landing,
FlightNewest ==
    \A r, g \in Requests :
        Bought(r) /\ Landing(g) /\ key[r] = key[g] =>
            decided[r].asOf <= outcome[g].asOf

\* nor, while none is, than the entry.
EntryNewest ==
    \A r \in Requests :
        /\ Bought(r)
        /\ key[r] \in DOMAIN entries
        /\ \A g \in Requests : Landing(g) => key[g] # key[r]
        => decided[r].asOf <= entries[key[r]].asOf

\* An entry is what somebody is committed to.
EntryBought ==
    \A k \in DOMAIN entries :
        \E r \in Requests : key[r] = k /\ decided[r] = Ok(entries[k].asOf)

NewestInv == NotAhead /\ FlightNewest /\ EntryNewest /\ EntryBought

\* The floor of a request is data that somebody is committed to,
FloorSold ==
    \A r \in Requests :
        \/ floor[r] = 0
        \/ \E q \in Requests : key[q] = key[r] /\ decided[q] = Ok(floor[r])

\* and nobody is committed to anything below it.
AboveFloor ==
    \A r \in Requests : Bought(r) => floor[r] <= decided[r].asOf

FloorInv == FloorSold /\ AboveFloor

-----------------------------------------------------------------------------
(* What each step does to the commitments.                                 *)

\* Commitments have the type of answers.
LEMMA DecidedType ==
    ASSUME TypeOK
    PROVE  decided \in [Requests -> Outcome]
BY CacheAssumption DEF TypeOK, decided

\* Counting, closing, waking and storing return what was decided before.
LEMMA QuietSteps ==
    ASSUME CacheInv, PlaceInv, NEW r \in Requests,
           \/ Bypass(r) \/ CountHit(r) \/ Lead(r) \/ CountMiss(r)
           \/ FetchPanics(r) \/ Close(r) \/ Wake(r) \/ StoreFailed(r)
           \/ StoreOk(r) \/ ClientGone(r)
    PROVE  decided' = decided /\ UNCHANGED <<now, key, floor>>
<1> USE CacheAssumption DEF CacheInv, TypeOK, FlightInv, PlaceInv, decided,
        Goto, PCs
<1>1. CASE Bypass(r) \/ CountMiss(r) \/ FetchPanics(r) \/ Close(r)
    BY <1>1 DEF Bypass, CountMiss, FetchPanics, Close
<1>2. CASE CountHit(r)
    BY <1>2 DEF CountHit, Return
<1>3. CASE Lead(r)
    BY <1>3 DEF Lead
<1>4. CASE Wake(r)
    BY <1>4 DEF Wake, Return
<1>5. CASE StoreFailed(r)
    BY <1>5 DEF StoreFailed, Return
<1>6. CASE StoreOk(r)
    BY <1>6 DEF StoreOk, Return
<1>7. CASE ClientGone(r)
    BY <1>7 DEF ClientGone
<1>. QED
    BY <1>1, <1>2, <1>3, <1>4, <1>5, <1>6, <1>7

\* A request that begins is committed to nothing.
LEMMA BeginSteps ==
    ASSUME CacheInv, PlaceInv, NEW r \in Requests, NEW k \in Keys, Begin(r, k)
    PROVE  /\ decided' = decided
           /\ decided[r] = None
           /\ key[r] = NoKey
           /\ key' = [key EXCEPT ![r] = k]
BY CacheAssumption DEF CacheInv, TypeOK, FlightInv, PlaceInv, decided, Goto,
    PCs, Begin

\* A hit commits its request to the entry.
LEMMA HitSteps ==
    ASSUME CacheInv, PlaceInv, NEW r \in Requests, Hit(r)
    PROVE  /\ decided[r] = None
           /\ decided' = [decided EXCEPT ![r] = Ok(entries[key[r]].asOf)]
           /\ UNCHANGED <<now, key, floor>>
<1>1. call[r] = NoRequest /\ outcome[r] = None /\ pc[r] = "called"
    BY DEF CacheInv, FlightInv, Hit
<1>2. \A q \in Requests : call[q] # r
    BY <1>1, CacheAssumption DEF PlaceInv
<1>3. /\ pc' = [pc EXCEPT ![r] = "hit"]
      /\ outcome' = [outcome EXCEPT ![r] = Ok(entries[key[r]].asOf)]
      /\ call' = call /\ answer' = answer
    BY DEF Hit, Goto
<1>4. /\ pc \in [Requests -> PCs]
      /\ outcome \in [Requests -> Outcome]
      /\ call \in [Requests -> Requests \cup {NoRequest}]
    BY DEF CacheInv, TypeOK
<1>5. decided'[r] = Ok(entries[key[r]].asOf)
    BY <1>1, <1>3, <1>4 DEF decided
<1>6. ASSUME NEW q \in Requests, q # r
      PROVE  decided'[q] = decided[q]
    BY <1>2, <1>3, <1>4, <1>6 DEF decided
<1>7. decided' = [decided EXCEPT ![r] = Ok(entries[key[r]].asOf)]
    BY <1>5, <1>6 DEF decided
<1>. QED
    BY <1>1, <1>7 DEF decided, Hit

\* A join commits its request to the outcome of the flight, once it has one.
LEMMA JoinSteps ==
    ASSUME CacheInv, PlaceInv, NEW r \in Requests, Join(r)
    PROVE  /\ decided[r] = None
           /\ decided' = [decided EXCEPT ![r] = outcome[inflight[key[r]]]]
           /\ UNCHANGED <<now, key, floor>>
<1>1. inflight[key[r]] \in Requests
    BY DEF Join, Registered, CacheInv, TypeOK, PartialFn
<1>. QED
    BY <1>1, CacheAssumption DEF CacheInv, TypeOK, FlightInv, PlaceInv,
        decided, Goto, PCs, Join

\* The return of fn commits its leader and everyone who waits with it.
Aboard(r) == {q \in Requests : call[q] = r /\ pc[q] # "done"}

LEMMA FetchSteps ==
    ASSUME CacheInv, PlaceInv, NEW r \in Requests, FetchReturns(r)
    PROVE  /\ r \in Aboard(r)
           /\ \A q \in Aboard(r) : decided[q] = None /\ key[q] = key[r]
           /\ decided' = [q \in Requests |-> IF q \in Aboard(r)
                                             THEN outcome'[r] ELSE decided[q]]
           /\ UNCHANGED <<now, key, floor>>
<1> USE CacheAssumption DEF CacheInv, TypeOK, FlightInv, PlaceInv, Goto, PCs
<1>1. call[r] = r /\ outcome[r] = None /\ pc[r] = "fetching"
    BY DEF FetchReturns
<1>2. r \in Aboard(r)
    BY <1>1 DEF Aboard
<1>3. \A q \in Aboard(r) : decided[q] = None /\ key[q] = key[r]
    BY <1>1 DEF Aboard, decided
<1>4. \A q \in Requests : q \notin Aboard(r) => call[q] # r \/ pc[q] = "done"
    BY DEF Aboard
<1>5. \A q \in Requests :
        decided'[q] = IF q \in Aboard(r) THEN outcome'[r] ELSE decided[q]
    BY <1>1 DEF Aboard, FetchReturns, decided
<1>6. decided' = [q \in Requests |-> IF q \in Aboard(r)
                                     THEN outcome'[r] ELSE decided[q]]
    BY <1>5 DEF decided
<1>. QED
    BY <1>2, <1>3, <1>6 DEF FetchReturns

\* A request that bypassed the cache commits itself when its fn returns.
LEMMA DirectSteps ==
    ASSUME CacheInv, PlaceInv, NEW r \in Requests, DirectReturns(r)
    PROVE  /\ decided[r] = None
           /\ \E result \in FnResults(r) :
                decided' = [decided EXCEPT ![r] = result]
           /\ UNCHANGED <<now, key, floor>>
<1>1. PICK result \in FnResults(r) : Return(r, result)
    BY DEF DirectReturns
<1>2. decided' = [decided EXCEPT ![r] = result]
    BY <1>1, CacheAssumption DEF CacheInv, TypeOK, FlightInv, PlaceInv,
        decided, Goto, PCs, DirectReturns, Return
<1>. QED
    BY <1>2, CacheAssumption DEF CacheInv, TypeOK, FlightInv, PlaceInv,
        decided, PCs, DirectReturns

-----------------------------------------------------------------------------
(* The newest data of a key.                                               *)

\* A landing flight is the only one of its key, and the one registered.
LEMMA OneLands ==
    ASSUME CacheInv, NEW g \in Requests, Landing(g)
    PROVE  /\ key[g] \in DOMAIN inflight /\ inflight[key[g]] = g
           /\ \A h \in Requests : Flying(h) /\ key[h] = key[g] => h = g
           /\ decided[g] = outcome[g]
           /\ Bought(g)
BY CacheAssumption DEF CacheInv, RegistryExact, FlightInv, Landing, Flying,
    Bought, decided

\* Nobody flies for a key whose entry is fresh.
LEMMA NoneLandsWhileFresh ==
    ASSUME CacheInv, NEW k \in Keys, Fresh(k)
    PROVE  \A g \in Requests : Landing(g) => key[g] # k
BY CacheAssumption DEF CacheInv, NoPurchaseWhileFresh, TypeOK, PartialFn,
    Entry, Landing, Flying, Fresh

\* A step inside do keeps NewestInv.
LEMMA DoNewest ==
    ASSUME CacheInv, PlaceInv, NewestInv, NEW r \in Requests, Do(r)
    PROVE  NewestInv'
<1> USE DEF NewestInv, NotAhead, FlightNewest, EntryNewest, EntryBought
<1>t. /\ now \in Nat
      /\ pc \in [Requests -> PCs]
      /\ outcome \in [Requests -> Outcome]
      /\ DOMAIN entries \subseteq Keys
      /\ entries \in [DOMAIN entries -> Entry]
      /\ decided \in [Requests -> Outcome]
    BY DecidedType DEF CacheInv, TypeOK, PartialFn
<1>1. CASE \/ Bypass(r) \/ CountHit(r) \/ Lead(r) \/ CountMiss(r)
           \/ FetchPanics(r) \/ Close(r) \/ Wake(r) \/ StoreFailed(r)
    \* Commitments, landing flights and entries are what they were.
    <2>1. decided' = decided /\ UNCHANGED <<now, key>>
        BY <1>1, QuietSteps
    <2>2. entries' = entries /\ outcome' = outcome
        BY <1>1 DEF Bypass, CountHit, Lead, CountMiss, FetchPanics, Close,
            Wake, StoreFailed, cacheVars
    <2>3. \A g \in Requests : Landing(g)' <=> Landing(g)
        BY <1>1, <1>t DEF Bypass, CountHit, Lead, CountMiss, FetchPanics,
            Close, Wake, StoreFailed, Storable, Return, Goto, Landing, PCs
    <2>. QED
        BY <2>1, <2>2, <2>3 DEF Bought
<1>2. CASE Hit(r)
    <2>1. /\ decided[r] = None
          /\ decided' = [decided EXCEPT ![r] = Ok(entries[key[r]].asOf)]
          /\ UNCHANGED <<now, key>>
        BY <1>2, HitSteps
    <2>2. /\ key[r] \in Keys /\ Fresh(key[r])
          /\ entries' = entries
          /\ key[r] \in DOMAIN entries
        BY <1>2 DEF Hit, CacheInv, TypeOK, cacheVars, Fresh
    <2>3. \A g \in Requests : Landing(g) => key[g] # key[r]
        BY <2>2, NoneLandsWhileFresh
    <2>4. \A g \in Requests :
            /\ Landing(g)' <=> Landing(g)
            /\ Landing(g) => outcome'[g] = outcome[g]
        BY <1>2, <1>t DEF Hit, Goto, Landing, PCs
    <2>5. entries[key[r]].asOf <= now
        <3>1. PICK q \in Requests : decided[q] = Ok(entries[key[r]].asOf)
            BY <2>2
        <3>2. Bought(q) /\ decided[q].asOf = entries[key[r]].asOf
            BY <3>1 DEF Bought, Ok
        <3>. QED
            BY <3>2
    <2>. QED
        BY <2>1, <2>2, <2>3, <2>4, <2>5, <1>t
            DEF Bought, Ok, None, Entry
<1>3. CASE Join(r)
    <2> DEFINE g == inflight[key[r]]
    <2>1. /\ decided[r] = None
          /\ decided' = [decided EXCEPT ![r] = outcome[g]]
          /\ UNCHANGED <<now, key>>
        BY <1>3, JoinSteps
    <2>2. entries' = entries /\ outcome' = outcome
        BY <1>3 DEF Join, cacheVars
    <2>3. \A h \in Requests : Landing(h)' <=> Landing(h)
        BY <1>3, <1>t, <2>2 DEF Join, Goto, Landing, PCs
    <2>4. /\ g \in Requests
          /\ key[g] = key[r]
          /\ Flying(g) \/ pc[g] = "panicked"
        BY <1>3 DEF Join, Registered, CacheInv, RegistryExact, TypeOK,
            PartialFn
    <2>5. outcome[g].kind = "ok" => Landing(g)
        BY <2>4 DEF Flying, Landing, CacheInv, FlightInv, PlaceInv, None
    <2> HIDE DEF g
    <2>6. outcome[g].kind = "ok" =>
            /\ decided[g] = outcome[g] /\ Bought(g)
            /\ \A h \in Requests : Landing(h) /\ key[h] = key[r] => h = g
        BY <2>4, <2>5, OneLands DEF Landing, Flying
    <2>. QED
        BY <2>1, <2>2, <2>3, <2>4, <2>5, <2>6, <1>t
            DEF Bought, Ok, None, Outcome
<1>4. CASE FetchReturns(r)
    <2>1. /\ r \in Aboard(r)
          /\ \A q \in Aboard(r) : decided[q] = None /\ key[q] = key[r]
          /\ decided' = [q \in Requests |-> IF q \in Aboard(r)
                                            THEN outcome'[r] ELSE decided[q]]
          /\ UNCHANGED <<now, key>>
        BY <1>4, FetchSteps
    <2>2. PICK result \in FnResults(r) :
            outcome' = [outcome EXCEPT ![r] = result]
        BY <1>4 DEF FetchReturns
    <2>3. result.kind = "ok" => result = Ok(now)
        BY DEF FnResults, Err
    <2>4. /\ outcome'[r] = result
          /\ \A g \in Requests \ {r} : outcome'[g] = outcome[g]
        BY <1>t, <2>2
    <2>5. entries' = entries
        BY <1>4 DEF FetchReturns, cacheVars
    <2>6. /\ Landing(r)' <=> result.kind = "ok"
          /\ ~ Landing(r)
          /\ \A g \in Requests \ {r} : Landing(g)' <=> Landing(g)
        BY <1>4, <1>t, <2>4 DEF FetchReturns, Goto, Landing, PCs
    <2>7. \A g \in Requests : Landing(g) => key[g] # key[r]
        BY <1>4, <2>6, OneLands DEF FetchReturns, Flying
    <2>8. \A q \in Requests :
            /\ Bought(q)' => \/ Bought(q) /\ decided'[q] = decided[q]
                             \/ /\ key[q] = key[r]
                                /\ decided'[q] = Ok(now)
                                /\ result.kind = "ok"
            /\ Bought(q) => decided'[q] = decided[q]
        BY <2>1, <2>3, <2>4 DEF Bought, None
    <2>9. NotAhead'
        BY <2>1, <2>8, <1>t DEF Ok
    <2>10. FlightNewest'
        BY <2>1, <2>3, <2>4, <2>6, <2>7, <2>8, <1>t DEF Ok
    <2>11. EntryNewest'
        BY <2>1, <2>5, <2>6, <2>7, <2>8
    <2>12. EntryBought'
        BY <2>1, <2>5, <2>8 DEF Bought, Ok
    <2>. QED
        BY <2>9, <2>10, <2>11, <2>12
<1>5. CASE DirectReturns(r)
    <2>1. /\ decided[r] = None
          /\ UNCHANGED <<now, key>>
        BY <1>5, DirectSteps
    <2>2. PICK result \in FnResults(r) :
            decided' = [decided EXCEPT ![r] = result]
        BY <1>5, DirectSteps
    <2>3. result.kind = "ok" => result = Ok(now)
        BY DEF FnResults, Err
    <2>4. entries' = entries /\ DOMAIN entries = {}
        BY <1>5 DEF DirectReturns, cacheVars, PlaceInv
    <2>5. \A g \in Requests : ~ Landing(g)'
        BY <1>5, <1>t DEF DirectReturns, Return, Goto, Landing, CacheInv,
            CachingOn, Flying, PlaceInv, Caching
    <2>. QED
        BY <2>1, <2>2, <2>3, <2>4, <2>5, <1>t DEF Bought, Ok
<1>6. CASE StoreOk(r)
    <2>1. decided' = decided /\ UNCHANGED <<now, key>>
        BY <1>6, QuietSteps
    <2>2. PICK kept \in SUBSET DOMAIN entries :
            entries' = [k \in kept \cup {key[r]} |->
                          IF k = key[r]
                          THEN [asOf |-> outcome[r].asOf, exp |-> Expiry]
                          ELSE entries[k]]
        BY <1>6 DEF StoreOk
    <2>3. Landing(r) /\ outcome' = outcome
        BY <1>6 DEF StoreOk, Landing, Storable
    <2>4. \A g \in Requests : Landing(g)' <=> Landing(g) /\ g # r
        BY <1>6, <1>t, <2>3 DEF StoreOk, Return, Goto, Landing, PCs
    <2>5. decided[r] = Ok(outcome[r].asOf)
        BY <1>t, <2>3, OneLands DEF Landing, Outcome, Ok
    <2>6. FlightNewest'
        BY <2>1, <2>3, <2>4 DEF Bought
    <2>7. EntryNewest'
        BY <2>1, <2>2, <2>3, <2>4 DEF Bought
    <2>8. EntryBought'
        BY <2>1, <2>2, <2>5
    <2>. QED
        BY <2>1, <2>6, <2>7, <2>8 DEF Bought
<1>. QED
    BY <1>1, <1>2, <1>3, <1>4, <1>5, <1>6 DEF Do

\* NewestInv is an invariant.
LEMMA NewestCorrect == Spec => []NewestInv
<1> USE DEF NewestInv, NotAhead, FlightNewest, EntryNewest, EntryBought
<1>1. Init => NewestInv
    BY DEF Init, decided, Bought, None
<1>2. CacheInv /\ PlaceInv /\ NewestInv /\ [Next]_vars => NewestInv'
    <2> SUFFICES ASSUME CacheInv, PlaceInv, NewestInv, [Next]_vars
                 PROVE  NewestInv'
        OBVIOUS
    <2>1. ASSUME NEW r \in Requests, NEW k \in Keys, Begin(r, k)
          PROVE  NewestInv'
        <3>1. /\ decided' = decided
              /\ decided[r] = None
              /\ key' = [key EXCEPT ![r] = k]
            BY <2>1, BeginSteps
        <3>2. now' = now /\ entries' = entries /\ outcome' = outcome
            BY <2>1 DEF Begin, cacheVars
        <3>3. /\ key \in [Requests -> Keys \cup {NoKey}]
              /\ pc \in [Requests -> PCs]
            BY DEF CacheInv, TypeOK
        <3>4. \A g \in Requests : (Landing(g)' <=> Landing(g))
                /\ (Landing(g) => g # r)
            BY <2>1, <3>2, <3>3 DEF Begin, Goto, Landing
        <3>. QED
            BY <3>1, <3>2, <3>3, <3>4 DEF Bought, None, Ok
    <2>2. ASSUME NEW r \in Requests, Do(r)
          PROVE  NewestInv'
        BY <2>2, DoNewest
    <2>3. ASSUME NEW r \in Requests, ClientGone(r)
          PROVE  NewestInv'
        <3>1. decided' = decided /\ UNCHANGED <<now, key>>
            BY <2>3, QuietSteps
        <3>. QED
            BY <2>3, <3>1 DEF ClientGone, cacheVars, Bought, Landing
    <2>4. CASE Tick
        <3>1. decided' = decided
            BY <2>4 DEF Tick, decided
        <3>2. now \in Nat /\ decided \in [Requests -> Outcome]
            BY DecidedType DEF CacheInv, TypeOK
        <3>. QED
            BY <2>4, <3>1, <3>2 DEF Tick, cacheVars, Bought, Landing, Outcome
    <2>5. CASE UNCHANGED vars
        BY <2>5 DEF vars, decided, Bought, Landing
    <2>. QED
        BY <2>1, <2>2, <2>3, <2>4, <2>5 DEF Next
<1>. QED
    BY <1>1, <1>2, CacheInvCorrect, PlacesCorrect, PTL DEF Spec

-----------------------------------------------------------------------------
(* Answers never go back in time.                                          *)

\* What is newly decided in a step was open before, and is no older than
\* anything of its key that was decided before.
LEMMA CommitsNewest ==
    ASSUME CacheInv, PlaceInv, NewestInv, [Next]_vars,
           NEW r \in Requests, decided'[r] # decided[r]
    PROVE  /\ decided[r] = None
           /\ Bought(r)' =>
                \A q \in Requests : Bought(q) /\ key[q] = key[r] =>
                    decided[q].asOf <= decided'[r].asOf
<1>t. /\ now \in Nat
      /\ decided \in [Requests -> Outcome]
    BY DecidedType DEF CacheInv, TypeOK
<1>n. \A q \in Requests : Bought(q) => decided[q].asOf <= now
    BY DEF NewestInv, NotAhead
<1>1. ASSUME NEW s \in Requests, NEW k \in Keys, Begin(s, k)
      PROVE  FALSE
    BY <1>1, BeginSteps
<1>2. ASSUME NEW s \in Requests,
             \/ Bypass(s) \/ CountHit(s) \/ Lead(s) \/ CountMiss(s)
             \/ FetchPanics(s) \/ Close(s) \/ Wake(s) \/ StoreFailed(s)
             \/ StoreOk(s) \/ ClientGone(s)
      PROVE  FALSE
    BY <1>2, QuietSteps
<1>3. ASSUME Tick \/ UNCHANGED vars
      PROVE  FALSE
    BY <1>3 DEF Tick, vars, decided
<1>4. ASSUME NEW s \in Requests, Hit(s)
      PROVE  /\ decided[r] = None
             /\ \A q \in Requests : Bought(q) /\ key[q] = key[r] =>
                    decided[q].asOf <= decided'[r].asOf
    <2>1. /\ decided[s] = None
          /\ decided' = [decided EXCEPT ![s] = Ok(entries[key[s]].asOf)]
        BY <1>4, HitSteps
    <2>2. r = s /\ decided'[r].asOf = entries[key[r]].asOf
        BY <2>1, <1>t DEF Ok
    <2>3. key[r] \in Keys /\ Fresh(key[r]) /\ key[r] \in DOMAIN entries
        BY <1>4, <2>2 DEF Hit, CacheInv, TypeOK, Fresh
    <2>4. \A g \in Requests : Landing(g) => key[g] # key[r]
        BY <2>3, NoneLandsWhileFresh
    <2>5. \A q \in Requests : Bought(q) /\ key[q] = key[r] =>
            decided[q].asOf <= entries[key[r]].asOf
        BY <2>3, <2>4 DEF NewestInv, EntryNewest
    <2>. QED
        BY <2>1, <2>2, <2>5
<1>5. ASSUME NEW s \in Requests, Join(s)
      PROVE  /\ decided[r] = None
             /\ Bought(r)' =>
                \A q \in Requests : Bought(q) /\ key[q] = key[r] =>
                    decided[q].asOf <= decided'[r].asOf
    <2> DEFINE g == inflight[key[s]]
    <2>1. /\ decided[s] = None
          /\ decided' = [decided EXCEPT ![s] = outcome[g]]
        BY <1>5, JoinSteps
    <2>2. /\ g \in Requests
          /\ key[g] = key[s]
          /\ Flying(g) \/ pc[g] = "panicked"
        BY <1>5 DEF Join, Registered, CacheInv, RegistryExact, TypeOK,
            PartialFn
    <2>3. outcome[g].kind = "ok" => Landing(g)
        BY <2>2 DEF Flying, Landing, CacheInv, FlightInv, PlaceInv, None
    <2> HIDE DEF g
    <2>4. r = s /\ decided'[r] = outcome[g]
        BY <2>1, <1>t
    <2>5. Landing(g) => \A q \in Requests : Bought(q) /\ key[q] = key[r] =>
                            decided[q].asOf <= outcome[g].asOf
        BY <2>2, <2>4 DEF NewestInv, FlightNewest
    <2>. QED
        BY <2>1, <2>3, <2>4, <2>5 DEF Bought
<1>6. ASSUME NEW s \in Requests, FetchReturns(s)
      PROVE  /\ decided[r] = None
             /\ Bought(r)' =>
                \A q \in Requests : Bought(q) /\ key[q] = key[r] =>
                    decided[q].asOf <= decided'[r].asOf
    <2>1. /\ \A q \in Aboard(s) : decided[q] = None /\ key[q] = key[s]
          /\ decided' = [q \in Requests |-> IF q \in Aboard(s)
                                            THEN outcome'[s] ELSE decided[q]]
        BY <1>6, FetchSteps
    <2>2. r \in Aboard(s) /\ decided'[r] = outcome'[s]
        BY <2>1
    <2>3. outcome'[s] \in FnResults(s)
        BY <1>6 DEF FetchReturns, CacheInv, TypeOK
    <2>4. Bought(r)' => decided'[r].asOf = now
        BY <2>2, <2>3 DEF FnResults, Ok, Err, Bought
    <2>. QED
        BY <2>1, <2>2, <2>4, <1>n
<1>7. ASSUME NEW s \in Requests, DirectReturns(s)
      PROVE  /\ decided[r] = None
             /\ Bought(r)' =>
                \A q \in Requests : Bought(q) /\ key[q] = key[r] =>
                    decided[q].asOf <= decided'[r].asOf
    <2>1. decided[s] = None
        BY <1>7, DirectSteps
    <2>2. PICK result \in FnResults(s) :
            decided' = [decided EXCEPT ![s] = result]
        BY <1>7, DirectSteps
    <2>3. r = s /\ decided'[r] = result
        BY <2>2, <1>t
    <2>4. Bought(r)' => decided'[r].asOf = now
        BY <2>2, <2>3 DEF FnResults, Ok, Err, Bought
    <2>. QED
        BY <2>1, <2>3, <2>4, <1>n
<1>. QED
    BY <1>1, <1>2, <1>3, <1>4, <1>5, <1>6, <1>7 DEF Next, Do

\* Only the beginning of a request sets its key and floor.
LEMMA KeysAndFloors ==
    ASSUME [Next]_vars, ~ UNCHANGED <<key, floor>>
    PROVE  \E s \in Requests, k \in Keys : Begin(s, k)
<1>1. ASSUME NEW s \in Requests, Do(s) \/ ClientGone(s)
      PROVE  UNCHANGED <<key, floor>>
    BY <1>1 DEF Do, Bypass, Hit, CountHit, Join, Lead, CountMiss,
        FetchReturns, DirectReturns, FetchPanics, Close, Wake, StoreFailed,
        StoreOk, ClientGone
<1>2. Tick \/ UNCHANGED vars => UNCHANGED <<key, floor>>
    BY DEF Tick, vars
<1>. QED
    BY <1>1, <1>2 DEF Next

\* FloorInv: what ties the floor of a request to what is committed.
LEMMA FloorsCorrect == Spec => []FloorInv
<1>1. Init => FloorInv
    BY DEF Init, FloorInv, FloorSold, AboveFloor, decided, Bought, None
<1>2. CacheInv /\ PlaceInv /\ NewestInv /\ FloorInv /\ TypeOK'
        /\ [Next]_vars => FloorInv'
    <2> SUFFICES ASSUME CacheInv, PlaceInv, NewestInv, FloorInv, TypeOK',
                        [Next]_vars
                 PROVE  FloorInv'
        OBVIOUS
    <2>t. /\ decided \in [Requests -> Outcome]
          /\ decided' \in [Requests -> Outcome]
          /\ floor \in [Requests -> Nat]
          /\ key \in [Requests -> Keys \cup {NoKey}]
          /\ answer \in [Requests -> Outcome]
        BY DecidedType DEF CacheInv, TypeOK, decided
    <2>1. ASSUME NEW s \in Requests, NEW k \in Keys, Begin(s, k)
          PROVE  FloorInv'
        \* Its floor is an answer, or 0; a failed answer carries 0 as well.
        <3>1. /\ decided' = decided /\ decided[s] = None
              /\ key[s] = NoKey /\ key' = [key EXCEPT ![s] = k]
            BY <2>1, BeginSteps
        <3>2. PICK newest \in Answered(k) \cup {0} :
                floor' = [floor EXCEPT ![s] = newest]
            BY <2>1 DEF Begin
        <3>3. \/ newest = 0
              \/ \E q \in Requests : key[q] = k /\ decided[q] = Ok(newest)
            <4>1. CASE newest \in Answered(k)
                <5>1. PICK q \in Requests : /\ key[q] = k /\ pc[q] = "done"
                                            /\ answer[q].asOf = newest
                    BY <4>1 DEF Answered
                <5>2. decided[q] = answer[q]
                    BY <5>1 DEF decided
                <5>3. answer[q].kind # "ok" => newest = 0
                    BY <5>1 DEF PlaceInv
                <5>4. answer[q].kind = "ok" => answer[q] = Ok(newest)
                    BY <5>1, <2>t DEF Outcome, Ok
                <5>. QED
                    BY <5>1, <5>2, <5>3, <5>4
            <4>. QED
                BY <4>1
        <3>5. FloorSold'
            <4> SUFFICES ASSUME NEW r \in Requests, floor'[r] # 0
                         PROVE  \E q \in Requests :
                                    /\ key'[q] = key'[r]
                                    /\ decided'[q] = Ok(floor'[r])
                BY DEF FloorSold
            <4>1. PICK q \in Requests : /\ decided[q] = Ok(floor'[r])
                                        /\ key[q] = key'[r]
                BY <3>1, <3>2, <3>3, <2>t DEF FloorInv, FloorSold
            <4>2. q # s
                BY <3>1, <4>1 DEF Ok, None
            <4>. QED
                BY <3>1, <4>1, <4>2, <2>t
        <3>6. AboveFloor'
            BY <3>1, <3>2, <2>t
                DEF FloorInv, AboveFloor, Bought, None
        <3>. QED
            BY <3>5, <3>6 DEF FloorInv
    <2>2. CASE UNCHANGED <<key, floor>>
        <3>1. FloorSold'
            <4> SUFFICES ASSUME NEW r \in Requests, floor'[r] # 0
                         PROVE  \E q \in Requests :
                                    /\ key'[q] = key'[r]
                                    /\ decided'[q] = Ok(floor'[r])
                BY DEF FloorSold
            <4>1. PICK q \in Requests : /\ key[q] = key[r]
                                        /\ decided[q] = Ok(floor[r])
                BY <2>2 DEF FloorInv, FloorSold
            <4>2. decided'[q] = decided[q]
                BY <4>1, CommitsNewest DEF Ok, None
            <4>. QED
                BY <2>2, <4>1, <4>2
        <3>2. AboveFloor'
            <4> SUFFICES ASSUME NEW r \in Requests, Bought(r)'
                         PROVE  floor'[r] <= decided'[r].asOf
                BY DEF AboveFloor
            <4>1. CASE decided'[r] = decided[r]
                BY <2>2, <4>1 DEF FloorInv, AboveFloor, Bought
            <4>2. CASE decided'[r] # decided[r] /\ floor[r] = 0
                BY <2>2, <2>t, <4>2 DEF Outcome
            <4>3. CASE decided'[r] # decided[r] /\ floor[r] # 0
                <5>1. PICK q \in Requests : /\ key[q] = key[r]
                                            /\ decided[q] = Ok(floor[r])
                    BY <4>3 DEF FloorInv, FloorSold
                <5>2. Bought(q) /\ decided[q].asOf = floor[r]
                    BY <5>1 DEF Bought, Ok
                <5>3. decided[q].asOf <= decided'[r].asOf
                    BY <4>3, <5>1, <5>2, CommitsNewest
                <5>. QED
                    BY <2>2, <5>2, <5>3
            <4>. QED
                BY <4>1, <4>2, <4>3
        <3>. QED
            BY <3>1, <3>2 DEF FloorInv
    <2>. QED
        BY <2>1, <2>2, KeysAndFloors
<1>. QED
    BY <1>1, <1>2, CacheInvCorrect, PlacesCorrect, NewestCorrect,
        TypeCorrect, PTL DEF Spec

\* However lookups, flights, stores and evictions interleave, no request is
\* answered with data older than what was answered before it began.
THEOREM MonotonicReadsCorrect == Spec => []MonotonicReads
<1>1. CacheInv /\ FloorInv => MonotonicReads
    BY DEF CacheInv, TypeOK, Outcome, FloorInv, AboveFloor, Bought, decided,
        MonotonicReads
<1>. QED
    BY <1>1, CacheInvCorrect, FloorsCorrect, PTL

-----------------------------------------------------------------------------
(* The cache implements the register.                                      *)

\* The newest of a set of purchases is one answer, not several.
LEMMA NewestIsOne ==
    ASSUME NEW S, \A b \in S : b \in Outcome /\ b.kind = "ok",
           NEW a \in S, \A b \in S : b.asOf <= a.asOf
    PROVE  (CHOOSE newest \in S : \A b \in S : b.asOf <= newest.asOf) = a
<1> DEFINE IsNewest(c) == \A b \in S : b.asOf <= c.asOf
           newest == CHOOSE c \in S : IsNewest(c)
<1>1. newest \in S /\ IsNewest(newest)
    <2>1. \E c \in S : IsNewest(c)
        OBVIOUS
    <2> HIDE DEF IsNewest
    <2>. QED
        BY <2>1
<1>2. newest.asOf = a.asOf
    BY <1>1 DEF Outcome
<1>3. newest = a
    BY <1>1, <1>2 DEF Outcome
<1>. QED
    BY <1>3

\* A register changes only with what is sold.
LEMMA BoughtSame ==
    ASSUME \A l \in Keys : SoldOf(l)' = SoldOf(l)
    PROVE  newestSold' = newestSold
<1>1. ASSUME NEW l \in Keys
      PROVE  newestSold'[l] = newestSold[l]
    <2>1. SoldOf(l)' = SoldOf(l)
        OBVIOUS
    <2>. QED
        BY <2>1 DEF newestSold
<1>2. /\ newestSold = [l \in Keys |-> newestSold[l]]
      /\ newestSold' = [l \in Keys |-> newestSold'[l]]
    BY DEF newestSold
<1>. QED
    BY <1>1, <1>2

\* A step that decides nothing is invisible but for the clock.
LEMMA NothingBought ==
    ASSUME decided' = decided, key' = key
    PROVE  newestSold' = newestSold
BY BoughtSame DEF SoldOf

\* The step commits the undecided requests rs, which ask for k, to a.
Commits(k, rs, a) ==
    /\ rs \in SUBSET Requests
    /\ rs # {}
    /\ \A q \in rs : decided[q] = None /\ key[q] = k
    /\ decided' = [q \in Requests |-> IF q \in rs THEN a ELSE decided[q]]
    /\ now' = now
    /\ key' = key

\* What that adds to what is sold.
LEMMA SoldAfter ==
    ASSUME NEW k, NEW rs, NEW a, Commits(k, rs, a)
    PROVE  \A l \in Keys : SoldOf(l)' = IF l = k /\ a.kind = "ok"
                                      THEN SoldOf(l) \cup {a} ELSE SoldOf(l)
BY DEF Commits, SoldOf, None

\* A purchase, a failure and a read of the register, as commitments.
LEMMA RegisterDecides ==
    ASSUME CacheInv, NewestInv,
           NEW k \in Keys, NEW rs, NEW a \in Outcome, Commits(k, rs, a),
           \/ a = Ok(now)
           \/ a \in {Err("failed"), Err("cancelled")}
           \/ /\ a.kind = "ok"
              /\ a \in SoldOf(k) /\ \A b \in SoldOf(k) : b.asOf <= a.asOf
              /\ \E r \in Requests : rs = {r}
    PROVE  Register!Next
<1>0. /\ newestSold = [l \in Keys |-> newestSold[l]]
      /\ newestSold' = [l \in Keys |-> newestSold'[l]]
    BY DEF newestSold
<1>1. \A l \in Keys : SoldOf(l)' = IF l = k /\ a.kind = "ok"
                                 THEN SoldOf(l) \cup {a} ELSE SoldOf(l)
    BY SoldAfter
<1>2. \A l \in Keys : SoldOf(l)' = SoldOf(l) => newestSold'[l] = newestSold[l]
    BY DEF newestSold
<1>3. rs \in (SUBSET Register!Pending(k)) \ {{}}
    BY DEF Commits, Register!Pending
<1>4. Register!Decide(rs, a) /\ UNCHANGED <<now, key>>
    BY DEF Commits, Register!Decide
<1>8. /\ \A b \in SoldOf(k) : b \in Outcome /\ b.kind = "ok"
      /\ \A b \in SoldOf(k)' : b \in Outcome /\ b.kind = "ok"
    BY <1>1, DecidedType DEF SoldOf, CacheInv
<1>5. CASE a = Ok(now)
    <2>1. \A b \in SoldOf(k)' : b.asOf <= a.asOf
        <3>1. \A b \in SoldOf(k) : b.asOf <= now
            BY DEF SoldOf, NewestInv, NotAhead, Bought
        <3>. QED
            BY <1>1, <1>5, <3>1 DEF Ok, CacheInv, TypeOK
    <2>2. a \in SoldOf(k)'
        BY <1>1, <1>5 DEF Ok
    <2>3. newestSold'[k] = a
        BY <1>8, <2>1, <2>2, NewestIsOne DEF newestSold
    <2>4. newestSold' = [newestSold EXCEPT ![k] = Ok(now)]
        BY <1>0, <1>1, <1>2, <1>5, <2>3
    <2>5. Register!Buy(k, rs)
        BY <1>4, <1>5, <2>4 DEF Register!Buy
    <2>. QED
        BY <1>3, <2>5 DEF Register!Next
<1>6. CASE a \in {Err("failed"), Err("cancelled")}
    <2>1. newestSold' = newestSold
        BY <1>1, <1>6, BoughtSame DEF Err
    <2>2. Register!Fail(k, rs)
        BY <1>4, <1>6, <2>1 DEF Register!Fail
    <2>. QED
        BY <1>3, <2>2 DEF Register!Next
<1>7. CASE /\ a.kind = "ok"
           /\ a \in SoldOf(k) /\ \A b \in SoldOf(k) : b.asOf <= a.asOf
           /\ \E r \in Requests : rs = {r}
    <2>1. PICK r \in Requests : rs = {r}
        BY <1>7
    <2>2. newestSold[k] = a
        BY <1>7, <1>8, NewestIsOne DEF newestSold
    <2>3. newestSold' = newestSold
        BY <1>1, <1>7, BoughtSame
    <2>4. key[r] = k /\ decided[r] = None /\ k # NoKey /\ a # None
        BY <2>1, <1>7, CacheAssumption DEF None, Commits
    <2>5. Register!Read(r)
        BY <1>4, <2>1, <2>2, <2>3, <2>4 DEF Register!Read
    <2>. QED
        BY <2>5 DEF Register!Next
<1>. QED
    BY <1>5, <1>6, <1>7

\* A step inside do is a step of the register, or invisible.
LEMMA DoRegisters ==
    ASSUME CacheInv, PlaceInv, NewestInv, NEW r \in Requests, Do(r)
    PROVE  [Register!Next]_(Register!vars)
<1>t. /\ now \in Nat
      /\ pc \in [Requests -> PCs]
      /\ outcome \in [Requests -> Outcome]
      /\ decided \in [Requests -> Outcome]
      /\ \A q \in Requests : pc[q] # "idle" => key[q] \in Keys
    BY DecidedType DEF CacheInv, TypeOK, PartialFn
<1>1. CASE \/ Bypass(r) \/ CountHit(r) \/ Lead(r) \/ CountMiss(r)
           \/ FetchPanics(r) \/ Close(r) \/ Wake(r) \/ StoreFailed(r)
           \/ StoreOk(r)
    <2>1. decided' = decided /\ UNCHANGED <<now, key>>
        BY <1>1, QuietSteps
    <2>2. newestSold' = newestSold
        BY <2>1, NothingBought
    <2>. QED
        BY <2>1, <2>2 DEF Register!vars
<1>2. CASE Hit(r)
    \* The entry of its key is what was bought last.
    <2> DEFINE a == Ok(entries[key[r]].asOf)
    <2>1. /\ decided[r] = None
          /\ decided' = [decided EXCEPT ![r] = a]
          /\ UNCHANGED <<now, key>>
        BY <1>2, HitSteps
    <2>2. key[r] \in Keys /\ Fresh(key[r]) /\ key[r] \in DOMAIN entries
        BY <1>2, <1>t DEF Hit, Fresh
    <2>3. \A g \in Requests : Landing(g) => key[g] # key[r]
        BY <2>2, NoneLandsWhileFresh
    <2>4. a \in Outcome
        BY <2>2 DEF CacheInv, TypeOK, PartialFn, Entry, Outcome, Ok
    <2>5. a.kind = "ok" /\ a.asOf = entries[key[r]].asOf
        BY DEF Ok
    <2>6. \E q \in Requests : key[q] = key[r] /\ decided[q] = a
        BY <2>2 DEF NewestInv, EntryBought
    <2> HIDE DEF a
    <2>7. a \in SoldOf(key[r])
        BY <2>5, <2>6 DEF SoldOf
    <2>8. \A b \in SoldOf(key[r]) : b.asOf <= a.asOf
        BY <2>2, <2>3, <2>5 DEF SoldOf, NewestInv, EntryNewest, Bought
    <2>9. Commits(key[r], {r}, a)
        BY <2>1, <1>t DEF Commits
    <2>. QED
        BY <2>2, <2>4, <2>5, <2>7, <2>8, <2>9, RegisterDecides
<1>3. CASE Join(r)
    <2> DEFINE g == inflight[key[r]]
               a == outcome[g]
    <2>1. /\ decided[r] = None
          /\ decided' = [decided EXCEPT ![r] = a]
          /\ UNCHANGED <<now, key>>
        BY <1>3, JoinSteps
    <2>2. /\ g \in Requests
          /\ key[g] = key[r]
          /\ Flying(g) \/ pc[g] = "panicked"
        BY <1>3 DEF Join, Registered, CacheInv, RegistryExact, TypeOK,
            PartialFn
    <2>3. a.kind = "ok" => Landing(g)
        BY <2>2 DEF Flying, Landing, CacheInv, FlightInv, PlaceInv, None
    <2>4. key[r] \in Keys
        BY <1>3, <1>t DEF Join
    <2>5. a \in Outcome /\ (a.kind # "ok" => a.asOf = 0)
        BY <2>2, <1>t DEF PlaceInv
    <2>6. Landing(g) => decided[g] = a
        BY <2>2, OneLands
    <2>7. Landing(g) => a.kind = "ok"
        BY DEF Landing
    <2>8. Landing(g) => \A q \in Requests : Bought(q) /\ key[q] = key[r] =>
                            decided[q].asOf <= a.asOf
        BY <2>2 DEF NewestInv, FlightNewest
    <2> HIDE DEF g, a
    <2>9. Commits(key[r], {r}, a)
        BY <2>1, <1>t DEF Commits
    <2>10. CASE a.kind = "ok"
        <3>1. a \in SoldOf(key[r]) /\ \A b \in SoldOf(key[r]) : b.asOf <= a.asOf
            BY <2>2, <2>3, <2>6, <2>8, <2>10 DEF SoldOf, Bought
        <3>. QED
            BY <2>4, <2>5, <2>9, <2>10, <3>1, RegisterDecides
    <2>11. CASE a.kind = "none"
        <3>1. a = None
            BY <2>5, <2>11 DEF None, Outcome
        <3>2. decided' = decided
            BY <2>1, <3>1, <1>t
        <3>3. newestSold' = newestSold
            BY <2>1, <3>2, NothingBought
        <3>. QED
            BY <2>1, <3>2, <3>3 DEF Register!vars
    <2>12. CASE a.kind \in {"failed", "cancelled"}
        <3>1. a \in {Err("failed"), Err("cancelled")}
            BY <2>5, <2>12 DEF Err, Outcome
        <3>. QED
            BY <2>4, <2>5, <2>9, <3>1, RegisterDecides
    <2>. QED
        BY <2>5, <2>10, <2>11, <2>12 DEF Outcome
<1>4. CASE FetchReturns(r)
    <2> DEFINE a == outcome'[r]
    <2>1. /\ r \in Aboard(r)
          /\ \A q \in Aboard(r) : decided[q] = None /\ key[q] = key[r]
          /\ decided' = [q \in Requests |-> IF q \in Aboard(r)
                                            THEN a ELSE decided[q]]
          /\ UNCHANGED <<now, key>>
        BY <1>4, FetchSteps
    <2>2. a \in FnResults(r) /\ key[r] \in Keys
        BY <1>4, <1>t DEF FetchReturns
    <2>3. a = Ok(now) \/ a \in {Err("failed"), Err("cancelled")}
        BY <2>2 DEF FnResults
    <2>4. a \in Outcome
        BY <2>3, <1>t DEF Ok, Err, Outcome
    <2>5. Commits(key[r], Aboard(r), a)
        BY <2>1 DEF Commits, Aboard
    <2> HIDE DEF a
    <2>. QED
        BY <2>2, <2>3, <2>4, <2>5, RegisterDecides
<1>5. CASE DirectReturns(r)
    <2>1. decided[r] = None /\ UNCHANGED <<now, key>>
        BY <1>5, DirectSteps
    <2>2. PICK a \in FnResults(r) : decided' = [decided EXCEPT ![r] = a]
        BY <1>5, DirectSteps
    <2>3. a = Ok(now) \/ a \in {Err("failed"), Err("cancelled")}
        BY <2>2 DEF FnResults
    <2>4. key[r] \in Keys /\ a \in Outcome
        BY <1>5, <1>t, <2>3 DEF DirectReturns, Ok, Err, Outcome
    <2>5. Commits(key[r], {r}, a)
        BY <2>1, <2>2, <1>t DEF Commits
    <2>. QED
        BY <2>3, <2>4, <2>5, RegisterDecides
<1>. QED
    BY <1>1, <1>2, <1>3, <1>4, <1>5 DEF Do

\* Every behaviour of the cache is one of the register of each key: purchases
\* take effect in one order, which is that of the data, and every answer is
\* either bought, read or failed between the call and the return.
THEOREM ImplementsRegisterCorrect == Spec => ImplementsRegister
<1>1. Init => Register!Init
    <2> SUFFICES ASSUME Init
                 PROVE  Register!Init
        OBVIOUS
    <2>1. decided = [r \in Requests |-> None]
        BY DEF Init, decided
    <2>2. \A k \in Keys : SoldOf(k) = {}
        BY <2>1 DEF SoldOf, None
    <2>3. newestSold = [k \in Keys |-> None]
        BY <2>2 DEF newestSold
    <2>. QED
        BY <2>1, <2>3 DEF Init, Register!Init
<1>2. CacheInv /\ PlaceInv /\ NewestInv /\ [Next]_vars
        => [Register!Next]_(Register!vars)
    <2> SUFFICES ASSUME CacheInv, PlaceInv, NewestInv, [Next]_vars
                 PROVE  [Register!Next]_(Register!vars)
        OBVIOUS
    <2>1. ASSUME NEW r \in Requests, NEW k \in Keys, Begin(r, k)
          PROVE  Register!Next
        <3>1. /\ decided' = decided /\ decided[r] = None
              /\ key[r] = NoKey /\ key' = [key EXCEPT ![r] = k]
            BY <2>1, BeginSteps
        <3>2. \A l \in Keys : SoldOf(l)' = SoldOf(l)
            BY <3>1 DEF CacheInv, TypeOK, SoldOf, None
        <3>3. newestSold' = newestSold
            BY <3>2, BoughtSame
        <3>4. Register!Ask(r, k)
            BY <2>1, <3>1, <3>3 DEF Begin, Register!Ask
        <3>. QED
            BY <3>4 DEF Register!Next
    <2>2. ASSUME NEW r \in Requests, Do(r)
          PROVE  [Register!Next]_(Register!vars)
        BY <2>2, DoRegisters
    <2>3. ASSUME NEW r \in Requests, ClientGone(r)
          PROVE  UNCHANGED Register!vars
        <3>1. decided' = decided /\ UNCHANGED <<now, key>>
            BY <2>3, QuietSteps
        <3>2. newestSold' = newestSold
            BY <3>1, NothingBought
        <3>. QED
            BY <3>1, <3>2 DEF Register!vars
    <2>4. CASE Tick
        <3>1. decided' = decided /\ key' = key /\ now' = now + 1
            BY <2>4 DEF Tick, decided
        <3>2. newestSold' = newestSold
            BY <3>1, NothingBought
        <3>. QED
            BY <3>1, <3>2 DEF Register!Tick, Register!Next
    <2>5. CASE UNCHANGED vars
        <3>1. decided' = decided /\ UNCHANGED <<now, key>>
            BY <2>5 DEF vars, decided
        <3>2. newestSold' = newestSold
            BY <3>1, NothingBought
        <3>. QED
            BY <3>1, <3>2 DEF Register!vars
    <2>. QED
        BY <2>1, <2>2, <2>3, <2>4, <2>5 DEF Next
<1>. QED
    BY <1>1, <1>2, CacheInvCorrect, PlacesCorrect, NewestCorrect, PTL
        DEF Spec, ImplementsRegister, Register!Spec

-----------------------------------------------------------------------------
(* The cache inside the service.                                           *)

\* fn's return is one of the cache's steps.
LEMMA FnReturnsDo ==
    ASSUME NEW r, NEW kind, FnReturns(r, kind)
    PROVE  Do(r)
BY DEF FnReturns, Do

\* Whatever the service does for a request, the cache takes a step of its own
\* or none.
LEMMA ServeDoes ==
    ASSUME NEW r \in Requests, Serve(r)
    PROVE  Do(r) \/ UNCHANGED vars
<1>1. CASE HitFrom(r) \/ StoreFrom(r) \/ InCache(r)
    BY <1>1 DEF HitFrom, StoreFrom, InCache, Do
<1>2. CASE UsagePage(r) \/ UsageFails(r) \/ ForecastAnswers(r)
    BY <1>2, FnReturnsDo DEF UsagePage, UsageFails, ForecastAnswers
<1>3. CASE Respond(r)
    BY <1>3 DEF Respond
<1>. QED
    BY <1>1, <1>2, <1>3 DEF Serve

\* The service is composed of the cache's steps, so what is proved of the cache
\* holds inside the service.
LEMMA ServiceIsOfTheCache == ServiceSpec => Spec
<1>1. ServiceInit => Init
    BY DEF ServiceInit
<1>2. [ServiceNext]_allVars => [Next]_vars
    <2> SUFFICES ASSUME ServiceNext
                 PROVE  Next \/ UNCHANGED vars
        BY DEF allVars
    <2>1. ASSUME NEW r \in Requests, NEW q \in Questions, Receive(r, q)
          PROVE  Next
        BY <2>1, KeysAssumption DEF Receive, Next
    <2>2. ASSUME NEW r \in Requests, NEW q \in Questions, Refuse(r, q)
          PROVE  UNCHANGED vars
        BY <2>2 DEF Refuse
    <2>3. ASSUME NEW r \in Requests, Serve(r)
          PROVE  Next \/ UNCHANGED vars
        BY <2>3, ServeDoes DEF Next
    <2>. QED
        BY <2>1, <2>2, <2>3 DEF ServiceNext, Next
<1>. QED
    BY <1>1, <1>2, PTL DEF ServiceSpec, Spec

\* So the service keeps the cache's invariants.
LEMMA CacheInvInService == ServiceSpec => [](CacheInv /\ PlaceInv)
BY ServiceIsOfTheCache, CacheInvCorrect, PlacesCorrect, PTL

\* A goroutine inside do touches nobody else's place, and no keys.
LEMMA OnlyItsOwn ==
    ASSUME CacheInv, NEW r \in Requests, Do(r)
    PROVE  /\ \A q \in Requests \ {r} :
                /\ pc'[q] = pc[q]
                /\ call'[q] = call[q]
                /\ outcome'[q] = outcome[q]
                /\ answer'[q] = answer[q]
           /\ key' = key
           /\ gone' = gone
           /\ pc[r] # "idle" /\ pc'[r] # "idle"
<1> USE DEF CacheInv, TypeOK, Goto, Return
<1>1. CASE \/ Bypass(r) \/ Hit(r) \/ CountHit(r) \/ Join(r) \/ Lead(r)
           \/ CountMiss(r)
    BY <1>1 DEF Bypass, Hit, CountHit, Join, Lead, CountMiss
<1>2. CASE \/ FetchReturns(r) \/ DirectReturns(r) \/ FetchPanics(r)
    BY <1>2 DEF FetchReturns, DirectReturns, FetchPanics
<1>3. CASE \/ Close(r) \/ Wake(r) \/ StoreFailed(r) \/ StoreOk(r)
    BY <1>3 DEF Close, Wake, StoreFailed, StoreOk
<1>. QED
    BY <1>1, <1>2, <1>3 DEF Do

-----------------------------------------------------------------------------
(* Questions and keys.                                                     *)

\* What a request asks for is in its key, and a refused one has no key.
AskInv ==
    /\ ask \in [Requests -> Questions \cup {NoKey}]
    /\ status \in [Requests -> Nat]
    /\ \A r \in Requests :
        /\ pc[r] # "idle" =>
            /\ ask[r] \in Questions
            /\ key[r] = Key(Wanted(r))
        /\ ask[r] = NoKey => pc[r] = "idle" /\ status[r] = 0
        /\ status[r] # 0 => pc[r] \in {"idle", "done"}
        /\ status[r] # 0 /\ pc[r] = "idle" => status[r] = 400

\* AskInv is an invariant.
LEMMA AsksCorrect == ServiceSpec => []AskInv
<1>1. ServiceInit => AskInv
    BY DEF ServiceInit, Init, AskInv
<1>2. CacheInv /\ AskInv /\ [ServiceNext]_allVars => AskInv'
    <2> SUFFICES ASSUME CacheInv, AskInv, [ServiceNext]_allVars
                 PROVE  AskInv'
        OBVIOUS
    <2> USE DEF AskInv, Wanted
    <2>t. /\ pc \in [Requests -> PCs]
          /\ key \in [Requests -> Keys \cup {NoKey}]
        BY DEF CacheInv, TypeOK
    <2>1. ASSUME NEW r \in Requests, NEW q \in Questions, Receive(r, q)
          PROVE  AskInv'
        BY <2>1, <2>t, ServiceAssumption
            DEF Receive, Begin, Goto, Unasked
    <2>2. ASSUME NEW r \in Requests, NEW q \in Questions, Refuse(r, q)
          PROVE  AskInv'
        BY <2>2, ServiceAssumption DEF Refuse, Unasked, vars
    <2>3. ASSUME NEW r \in Requests, Serve(r), ~ Respond(r)
          PROVE  AskInv'
        <3>1. UNCHANGED <<ask, status>>
            BY <2>3 DEF Serve, HitFrom, InCache, UsagePage, UsageFails,
                ForecastAnswers, StoreFrom, service
        <3>2. CASE UNCHANGED vars
            BY <3>1, <3>2 DEF vars
        <3>3. CASE Do(r)
            <4>1. /\ \A q \in Requests \ {r} : pc'[q] = pc[q]
                  /\ key' = key
                  /\ pc[r] # "idle" /\ pc'[r] # "idle"
                BY <3>3, OnlyItsOwn
            <4>2. pc[r] # "done"
                BY <3>3 DEF Do, Bypass, Hit, CountHit, Join, Lead, CountMiss,
                    FetchReturns, DirectReturns, FetchPanics, Close, Wake,
                    StoreFailed, StoreOk
            <4>. QED
                BY <3>1, <4>1, <4>2
        <3>. QED
            BY <2>3, <3>2, <3>3, ServeDoes
    <2>4. ASSUME NEW r \in Requests, Respond(r)
          PROVE  AskInv'
        BY <2>4 DEF Respond, StatusOf, vars
    <2>5. CASE \/ \E r \in Requests : ClientGone(r) /\ UNCHANGED service
               \/ Tick /\ UNCHANGED service
               \/ UNCHANGED allVars
        BY <2>5 DEF ClientGone, Tick, allVars, vars, service
    <2>. QED
        BY <2>1, <2>2, <2>3, <2>4, <2>5 DEF ServiceNext
<1>. QED
    BY <1>1, <1>2, CacheInvInService, PTL DEF ServiceSpec

\* Different questions have different keys.
LEMMA KeyTellsApart ==
    ASSUME NEW p, NEW q, Key(Normal(p)) = Key(Normal(q))
    PROVE  Normal(p) = Normal(q)
<1> DEFINE Shape(n) == n = Overview \/
            n = [granularity |-> n.granularity, groupBy |-> n.groupBy,
                 days |-> n.days]
<1>1. ASSUME NEW n
      PROVE  Shape(Normal(n))
    BY DEF Normal, Parsed
<1>2. ASSUME NEW n, NEW m, Shape(n), Shape(m), Key(n) = Key(m)
      PROVE  n = m
    BY <1>2 DEF Key
<1> HIDE DEF Shape
<1>. QED
    BY <1>1, <1>2

-----------------------------------------------------------------------------
(* Whose fetch an answer comes from.                                       *)

\* g led a flight that succeeded, for the key k.
Sold(g, k) ==
    /\ g \in Requests
    /\ key[g] = k
    /\ call[g] = g
    /\ outcome[g].kind = "ok"

\* An entry, and every answer that came from one, lead back to a successful
\* flight of the same key.
SourceInv ==
    /\ DOMAIN filler = DOMAIN entries
    /\ \A k \in DOMAIN filler : Sold(filler[k], k)
    /\ source \in [Requests -> Requests]
    /\ \A r \in Requests :
        /\ source[r] # r =>
            /\ pc[r] \in {"hit", "done"}
            /\ Sold(source[r], key[r])
            /\ pc[r] = "done" => answer[r].kind = "ok"
        /\ pc[r] = "hit" => source[r] # r
        /\ pc[r] = "done" => answer[r].kind # "none"

\* A successful flight stays what it is.
LEMMA SoldKept ==
    ASSUME CacheInv, NEW r \in Requests, Do(r), NEW g, NEW k, Sold(g, k)
    PROVE  Sold(g, k)'
<1> USE DEF Sold
<1>1. CASE g # r
    BY <1>1, OnlyItsOwn
<1>2. CASE g = r
    <2>1. pc[r] \notin {"idle", "called", "hit", "leading", "fetching",
                        "direct"}
        BY <1>2, CacheAssumption DEF CacheInv, FlightInv, None
    <2>2. UNCHANGED <<call, outcome, key>>
        BY <2>1 DEF Do, Bypass, Hit, CountHit, Join, Lead, CountMiss,
            FetchReturns, DirectReturns, FetchPanics, Close, Wake,
            StoreFailed, StoreOk, CacheInv, FlightInv
    <2>. QED
        BY <2>2
<1>. QED
    BY <1>1, <1>2

\* SourceInv is an invariant.
LEMMA SourcesCorrect == ServiceSpec => []SourceInv
<1>1. ServiceInit => SourceInv
    BY DEF ServiceInit, Init, SourceInv
<1>2. CacheInv /\ PlaceInv /\ SourceInv /\ [ServiceNext]_allVars => SourceInv'
    <2> SUFFICES ASSUME CacheInv, PlaceInv, SourceInv, [ServiceNext]_allVars
                 PROVE  SourceInv'
        OBVIOUS
    <2>t. /\ pc \in [Requests -> PCs]
          /\ key \in [Requests -> Keys \cup {NoKey}]
          /\ answer \in [Requests -> Outcome]
          /\ outcome \in [Requests -> Outcome]
          /\ call \in [Requests -> Requests \cup {NoRequest}]
        BY DEF CacheInv, TypeOK
    <2>1. ASSUME NEW r \in Requests, NEW q \in Questions, Receive(r, q)
          PROVE  SourceInv'
        \* It is in the cache for the first time, and led no flight before.
        <3>1. call[r] = NoRequest /\ pc[r] = "idle"
            BY <2>1 DEF Receive, Begin, CacheInv, FlightInv
        <3>2. /\ \A g \in Requests \ {r} : key'[g] = key[g]
              /\ pc' = [pc EXCEPT ![r] = "called"]
              /\ UNCHANGED <<call, outcome, answer, entries, filler, source>>
            BY <2>1, <2>t DEF Receive, Begin, Goto, cacheVars
        <3>3. \A g, k : Sold(g, k) => Sold(g, k)'
            BY <3>1, <3>2, CacheAssumption DEF Sold
        <3>. QED
            BY <3>1, <3>2, <3>3, <2>t DEF SourceInv
    <2>2. CASE \/ \E r \in Requests, q \in Questions : Refuse(r, q)
               \/ \E r \in Requests : Respond(r)
               \/ \E r \in Requests : ClientGone(r) /\ UNCHANGED service
               \/ Tick /\ UNCHANGED service
               \/ UNCHANGED allVars
        <3>1. UNCHANGED <<pc, key, call, outcome, answer, entries, filler,
                          source>>
            BY <2>2 DEF Refuse, Respond, ClientGone, Tick, allVars, vars,
                service, cacheVars
        <3>. QED
            BY <3>1 DEF SourceInv, Sold
    <2>3. ASSUME NEW r \in Requests, HitFrom(r)
          PROVE  SourceInv'
        <3>1. /\ key[r] \in DOMAIN filler
              /\ Sold(filler[key[r]], key[r])
              /\ filler[key[r]] # r
            BY <2>3, CacheAssumption DEF HitFrom, Hit, Fresh, SourceInv,
                Sold, CacheInv, FlightInv
        <3>2. \A g, k : Sold(g, k) => Sold(g, k)'
            BY <2>3, SoldKept DEF HitFrom, Do
        <3>3. /\ pc' = [pc EXCEPT ![r] = "hit"]
              /\ source' = [source EXCEPT ![r] = filler[key[r]]]
              /\ UNCHANGED <<key, call, answer, entries, filler>>
            BY <2>3 DEF HitFrom, Hit, Goto, cacheVars
        <3>. QED
            BY <3>1, <3>2, <3>3, <2>t DEF SourceInv, Sold
    <2>4. ASSUME NEW r \in Requests, StoreFrom(r)
          PROVE  SourceInv'
        <3>1. Sold(r, key[r]) /\ source[r] = r
            BY <2>4 DEF StoreFrom, StoreOk, Storable, Sold, CacheInv,
                FlightInv, SourceInv
        <3>2. \A g, k : Sold(g, k) => Sold(g, k)'
            BY <2>4, SoldKept DEF StoreFrom, Do
        <3>3. /\ pc' = [pc EXCEPT ![r] = "done"]
              /\ answer' = [answer EXCEPT ![r] = outcome[r]]
              /\ UNCHANGED <<key, call, outcome, source>>
              /\ DOMAIN entries' \subseteq DOMAIN entries \cup {key[r]}
              /\ filler' = [k \in DOMAIN entries' |->
                                IF k = key[r] THEN r ELSE filler[k]]
            BY <2>4 DEF StoreFrom, StoreOk, Return, Goto
        <3>4. outcome[r].kind # "none"
            BY <3>1 DEF Sold
        <3>. QED
            BY <3>1, <3>2, <3>3, <3>4, <2>t DEF SourceInv
    <2>5. ASSUME NEW r \in Requests,
                 InCache(r) \/ UsagePage(r) \/ UsageFails(r)
                    \/ ForecastAnswers(r)
          PROVE  SourceInv'
        <3>1. UNCHANGED <<filler, source>>
            BY <2>5 DEF InCache, UsagePage, UsageFails, ForecastAnswers,
                service
        <3>2. CASE UNCHANGED vars
            BY <3>1, <3>2 DEF vars, cacheVars, SourceInv, Sold
        <3>3. CASE Do(r) /\ ~ StoreOk(r) /\ ~ Hit(r)
            <4>1. entries' = entries
                BY <3>3 DEF Do, Bypass, CountHit, Join, Lead, CountMiss,
                    FetchReturns, DirectReturns, FetchPanics, Close, Wake,
                    StoreFailed, cacheVars
            <4>2. \A g, k : Sold(g, k) => Sold(g, k)'
                BY <3>3, SoldKept
            <4>3. /\ key' = key
                  /\ \A q \in Requests \ {r} :
                        pc'[q] = pc[q] /\ answer'[q] = answer[q]
                BY <3>3, OnlyItsOwn
            <4>4. CASE CountHit(r)
                <5>1. /\ pc[r] = "hit" /\ outcome[r].kind = "ok"
                      /\ pc'[r] = "done" /\ answer'[r] = outcome[r]
                    BY <4>4, <2>t DEF CountHit, Return, Goto, PlaceInv
                <5>. QED
                    BY <3>1, <4>1, <4>2, <4>3, <5>1 DEF SourceInv
            <4>5. CASE ~ CountHit(r)
                <5>1. /\ pc[r] \notin {"hit", "done"} /\ pc'[r] # "hit"
                      /\ pc'[r] = "done" => answer'[r].kind # "none"
                    BY <3>3, <4>5, <2>t, CacheAssumption
                        DEF Do, Bypass, Join, Lead, CountMiss, FetchReturns,
                            DirectReturns, FetchPanics, Close, Wake,
                            StoreFailed, Return, Goto, FnResults, Ok, Err,
                            CacheInv, FlightInv, PlaceInv
                <5>. QED
                    BY <3>1, <4>1, <4>2, <4>3, <5>1 DEF SourceInv
            <4>. QED
                BY <4>4, <4>5
        <3>4. UNCHANGED vars \/ (Do(r) /\ ~ StoreOk(r) /\ ~ Hit(r))
            <4>1. CASE InCache(r)
                BY <4>1 DEF InCache, Do, Bypass, CountHit, Join, Lead,
                    CountMiss, FetchPanics, Close, Wake, StoreFailed,
                    StoreOk, Hit
            <4>2. CASE UsagePage(r) \/ UsageFails(r) \/ ForecastAnswers(r)
                BY <4>2 DEF UsagePage, UsageFails, ForecastAnswers,
                    FnReturns, FetchReturns, DirectReturns, Do, StoreOk, Hit
            <4>. QED
                BY <2>5, <4>1, <4>2
        <3>. QED
            BY <3>2, <3>3, <3>4
    <2>. QED
        BY <2>1, <2>2, <2>3, <2>4, <2>5 DEF ServiceNext, Serve
<1>. QED
    BY <1>1, <1>2, CacheInvInService, PTL DEF ServiceSpec

-----------------------------------------------------------------------------
(* What a fetch has bought.                                                *)

\* What may be bought: pages and a forecast.
Item == ({"current", "previous", "usage"} \X (1 .. Pages))
            \cup ({"forecast"} \X {"amount", "nothing", "failed"})

\* The m-th page of what n needs, and its first m pages.
PageOf(n, m) ==
    IF m <= Pages THEN <<UsageCalls(n)[1], m>>
    ELSE <<UsageCalls(n)[2], m - Pages>>
FirstPages(n, m) == [i \in 1 .. m |-> PageOf(n, i)]

\* How many pages n needs, and how many are read before the cursor.
PagesFor(n) == IF n = Overview THEN Pages + Pages ELSE Pages
ReadBefore(c) ==
    IF c.call = 1 THEN c.page - 1
    ELSE IF c.call = 2 THEN Pages + c.page - 1 ELSE Pages + Pages

\* They are pages.
LEMMA PagesAreItems ==
    ASSUME NEW n, NEW m \in 1 .. PagesFor(n)
    PROVE  PageOf(n, m) \in Item
<1>1. Pages \in Nat /\ Pages > 0
    BY ServiceAssumption
<1>2. CASE n = Overview
    BY <1>1, <1>2 DEF PageOf, PagesFor, UsageCalls, Item
<1>3. CASE n # Overview
    BY <1>1, <1>3 DEF PageOf, PagesFor, UsageCalls, Item
<1>. QED
    BY <1>2, <1>3

\* One more page.
LEMMA OneMorePage ==
    ASSUME NEW n, NEW m \in Nat, m < PagesFor(n)
    PROVE  /\ FirstPages(n, m) \in Seq(Item)
           /\ Append(FirstPages(n, m), PageOf(n, m + 1)) = FirstPages(n, m + 1)
<1>1. PagesFor(n) \in Nat
    BY ServiceAssumption DEF PagesFor
<1>2. \A i \in 1 .. m + 1 : PageOf(n, i) \in Item
    BY <1>1, PagesAreItems
<1>3. /\ FirstPages(n, m) \in Seq(Item) /\ Len(FirstPages(n, m)) = m
      /\ FirstPages(n, m + 1) \in Seq(Item)
      /\ Len(FirstPages(n, m + 1)) = m + 1
    BY <1>2, IsASeq DEF FirstPages
<1>4. PageOf(n, m + 1) \in Item
    BY <1>2
<1> DEFINE longer == Append(FirstPages(n, m), PageOf(n, m + 1))
<1>5. /\ longer \in Seq(Item) /\ Len(longer) = m + 1
      /\ \A i \in 1 .. m : longer[i] = FirstPages(n, m)[i]
      /\ longer[m + 1] = PageOf(n, m + 1)
    BY <1>3, <1>4, AppendProperties
<1> HIDE DEF longer
<1>6. \A i \in 1 .. m + 1 : longer[i] = FirstPages(n, m + 1)[i]
    <2> SUFFICES ASSUME NEW i \in 1 .. m + 1
                 PROVE  longer[i] = PageOf(n, i)
        BY DEF FirstPages
    <2>1. CASE i \in 1 .. m
        BY <2>1, <1>5 DEF FirstPages
    <2>2. CASE i = m + 1
        BY <2>2, <1>5
    <2>3. i \in 1 .. m \/ i = m + 1
        OBVIOUS
    <2>. QED
        BY <2>1, <2>2, <2>3
<1>7. longer = FirstPages(n, m + 1)
    BY <1>3, <1>5, <1>6, SeqEqual
<1>. QED
    BY <1>3, <1>7 DEF longer

\* All of them.
LEMMA AllPages ==
    ASSUME NEW n
    PROVE  /\ WholeAnswer(n) = FirstPages(n, PagesFor(n))
           /\ WholeAnswer(n) \in Seq(Item)
           /\ Len(WholeAnswer(n)) = PagesFor(n)
<1>1. Pages \in Nat /\ Pages > 0 /\ PagesFor(n) \in Nat
    BY ServiceAssumption DEF PagesFor
<1>2. /\ FirstPages(n, PagesFor(n)) \in Seq(Item)
      /\ Len(FirstPages(n, PagesFor(n))) = PagesFor(n)
    BY <1>1, PagesAreItems, IsASeq DEF FirstPages
<1>3. \A report \in {"current", "previous", "usage"} :
        PagesOf(report) \in Seq(Item) /\ Len(PagesOf(report)) = Pages
    <2> SUFFICES ASSUME NEW report \in {"current", "previous", "usage"}
                 PROVE  /\ PagesOf(report) \in Seq(Item)
                        /\ Len(PagesOf(report)) = Pages
        OBVIOUS
    <2>1. \A p \in 1 .. Pages : <<report, p>> \in Item
        BY DEF Item
    <2>. QED
        BY <1>1, <2>1, IsASeq DEF PagesOf
<1>4. /\ WholeAnswer(n) \in Seq(Item)
      /\ Len(WholeAnswer(n)) = PagesFor(n)
      /\ \A i \in 1 .. PagesFor(n) : WholeAnswer(n)[i] = PageOf(n, i)
    <2>1. CASE n = Overview
        <3> DEFINE both == PagesOf("current") \o PagesOf("previous")
        <3>1. /\ both \in Seq(Item) /\ Len(both) = Pages + Pages
              /\ \A i \in 1 .. Pages + Pages : both[i] =
                    IF i <= Pages THEN PagesOf("current")[i]
                    ELSE PagesOf("previous")[i - Pages]
            BY <1>3, ConcatProperties
        <3> HIDE DEF both
        <3>2. ASSUME NEW i \in 1 .. Pages + Pages
              PROVE  both[i] = PageOf(n, i)
            <4>1. CASE i <= Pages
                <5>1. i \in 1 .. Pages
                    BY <1>1, <4>1
                <5>2. both[i] = PagesOf("current")[i]
                    BY <3>1, <4>1
                <5>3. PagesOf("current")[i] = <<"current", i>>
                    BY <5>1 DEF PagesOf
                <5>. QED
                    BY <2>1, <4>1, <5>2, <5>3 DEF PageOf, UsageCalls
            <4>2. CASE ~ (i <= Pages)
                <5>1. i - Pages \in 1 .. Pages
                    BY <1>1, <4>2
                <5>. QED
                    BY <2>1, <3>1, <4>2, <5>1 DEF PageOf, PagesOf, UsageCalls
            <4>. QED
                BY <4>1, <4>2
        <3>. QED
            BY <2>1, <3>1, <3>2 DEF WholeAnswer, PagesFor, both
    <2>2. CASE n # Overview
        BY <1>1, <1>3, <2>2 DEF WholeAnswer, PagesFor, PageOf, PagesOf,
            UsageCalls
    <2>. QED
        BY <2>1, <2>2
<1>5. \A i \in 1 .. PagesFor(n) :
        WholeAnswer(n)[i] = FirstPages(n, PagesFor(n))[i]
    BY <1>4 DEF FirstPages
<1>6. WholeAnswer(n) = FirstPages(n, PagesFor(n))
    BY <1>2, <1>4, <1>5, SeqEqual
<1>. QED
    BY <1>4, <1>6

\* The forecast comes after all that.
LEMMA ThenForecast ==
    ASSUME NEW seq \in Seq(Item), NEW elt \in Item
    PROVE  /\ Len(Append(seq, elt)) = Len(seq) + 1
           /\ SubSeq(Append(seq, elt), 1, Len(seq)) = seq
<1> DEFINE longer == Append(seq, elt)
           first == SubSeq(longer, 1, Len(seq))
<1>1. /\ longer \in Seq(Item) /\ Len(longer) = Len(seq) + 1
      /\ \A i \in 1 .. Len(seq) : longer[i] = seq[i]
    BY AppendProperties
<1>2. Len(seq) \in Nat /\ \A i \in 1 .. Len(seq) : seq[i] \in Item
    BY LenProperties, ElementOfSeq
<1> HIDE DEF longer
<1>3. \A i \in 1 .. Len(seq) : longer[i] \in Item
    BY <1>1, <1>2
<1>4. /\ first \in Seq(Item) /\ Len(first) = Len(seq)
      /\ \A i \in 1 .. Len(seq) : first[i] = longer[i]
    BY <1>2, <1>3, SubSeqProperties
<1> HIDE DEF first
<1>5. first = seq
    BY <1>1, <1>4, SeqEqual
<1>. QED
    BY <1>1, <1>5 DEF longer, first

\* Where a fetch stands: what it has bought is all before its cursor.
ProgressInv ==
    /\ cursor \in [Requests -> [call : 1 .. 3, page : 1 .. Pages]]
    /\ bought \in [Requests -> Seq(Item)]
    /\ failure \in [Requests -> Errors \cup {NoFailure}]
    /\ \A r \in Requests :
        /\ pc[r] \in {"idle", "called", "leading"} =>
            cursor[r] = [call |-> 1, page |-> 1] /\ bought[r] = << >>
        /\ Fetching(r) =>
            /\ bought[r] = FirstPages(Wanted(r), ReadBefore(cursor[r]))
            /\ cursor[r].call > 1 => Wanted(r) = Overview
            /\ cursor[r].call = 3 => cursor[r].page = 1

\* What r's fetch bought is the whole answer to its question.
Delivered(r) ==
    LET whole == WholeAnswer(Wanted(r))
    IN  IF Wanted(r) = Overview
        THEN /\ Len(bought[r]) = Len(whole) + 1
             /\ SubSeq(bought[r], 1, Len(whole)) = whole
        ELSE bought[r] = whole

\* What stands behind a result of r's own fetch.
Backed(r, result) ==
    /\ result.kind = "ok" =>
        Delivered(r) /\ (NeedsOptIn(Wanted(r)) => OptedIn)
    /\ result.kind \in {"failed", "cancelled"} => failure[r] \in Faults(r)

\* Every flight and every fetch past the cache is backed.
BackedInv ==
    \A r \in Requests :
        /\ call[r] = r => Backed(r, outcome[r])
        /\ pc[r] = "done" /\ call[r] = NoRequest /\ source[r] = r =>
            Backed(r, answer[r])

FetchInv == ProgressInv /\ BackedInv

\* A step that leaves r's question, purchases and error alone leaves r's
\* backing alone.
LEMMA BackingKept ==
    ASSUME NEW r \in Requests,
           ask'[r] = ask[r], bought'[r] = bought[r], failure'[r] = failure[r],
           gone \subseteq gone'
    PROVE  /\ Delivered(r)' <=> Delivered(r)
           /\ NeedsOptIn(Wanted(r))' <=> NeedsOptIn(Wanted(r))
           /\ failure[r] \in Faults(r) => failure'[r] \in Faults(r)'
           /\ Wanted(r)' = Wanted(r)
BY DEF Delivered, Faults, Wanted

\* fn's return gives r's own result a kind, and takes r out of the fetch.
LEMMA FnReturnsOwn ==
    ASSUME CacheInv, PlaceInv, SourceInv,
           NEW r \in Requests, NEW kind, FnReturns(r, kind)
    PROVE  /\ pc'[r] \in {"closing", "done"}
           /\ Fetching(r)
           /\ \/ pc'[r] = "closing" /\ call'[r] = r /\ outcome'[r].kind = kind
              \/ pc'[r] = "done" /\ call'[r] = NoRequest
                    /\ answer'[r].kind = kind
<1>t. /\ pc \in [Requests -> PCs]
    BY DEF CacheInv, TypeOK
<1>1. CASE FetchReturns(r) /\ outcome'[r].kind = kind
    BY <1>1, <1>t DEF FetchReturns, Goto, CacheInv, FlightInv, Fetching
<1>2. CASE DirectReturns(r) /\ answer'[r].kind = kind
    BY <1>2, <1>t DEF DirectReturns, Return, Goto, CacheInv, FlightInv,
        Fetching
<1>. QED
    BY <1>1, <1>2 DEF FnReturns

\* A fetch that returns keeps FetchInv when its result is backed.
LEMMA ReturnKeeps ==
    ASSUME CacheInv, PlaceInv, SourceInv, AskInv, FetchInv,
           NEW r \in Requests, NEW kind, FnReturns(r, kind),
           UNCHANGED <<ask, source>>,
           cursor' \in [Requests -> [call : 1 .. 3, page : 1 .. Pages]],
           bought' \in [Requests -> Seq(Item)],
           failure' \in [Requests -> Errors \cup {NoFailure}],
           \A q \in Requests \ {r} :
                /\ cursor'[q] = cursor[q]
                /\ bought'[q] = bought[q]
                /\ failure'[q] = failure[q],
           kind = "ok" => Delivered(r)' /\ (NeedsOptIn(Wanted(r))' => OptedIn),
           kind \in {"failed", "cancelled"} => failure'[r] \in Faults(r)'
    PROVE  FetchInv'
<1>1. Do(r)
    BY FnReturnsDo
<1>2. /\ \A q \in Requests \ {r} : /\ pc'[q] = pc[q]
                                   /\ call'[q] = call[q]
                                   /\ outcome'[q] = outcome[q]
                                   /\ answer'[q] = answer[q]
      /\ gone' = gone
    BY <1>1, OnlyItsOwn
<1>3. \/ pc'[r] = "closing" /\ call'[r] = r /\ outcome'[r].kind = kind
      \/ pc'[r] = "done" /\ call'[r] = NoRequest /\ answer'[r].kind = kind
    BY FnReturnsOwn
<1>4. ProgressInv'
    <2>1. ASSUME NEW q \in Requests, q # r
          PROVE  /\ Wanted(q)' = Wanted(q)
                 /\ Fetching(q)' <=> Fetching(q)
                 /\ cursor'[q] = cursor[q]
                 /\ bought'[q] = bought[q]
                 /\ pc'[q] = pc[q]
        BY <1>2, <2>1 DEF Fetching, Wanted
    <2>2. ~ Fetching(r)' /\ pc'[r] \notin {"idle", "called", "leading"}
        BY <1>3 DEF Fetching
    <2>3. ASSUME NEW q \in Requests
          PROVE  (/\ pc[q] \in {"idle", "called", "leading"} =>
                        cursor[q] = [call |-> 1, page |-> 1]
                            /\ bought[q] = << >>
                  /\ Fetching(q) =>
                        /\ bought[q] = FirstPages(Wanted(q), ReadBefore(cursor[q]))
                        /\ cursor[q].call > 1 => Wanted(q) = Overview
                        /\ cursor[q].call = 3 => cursor[q].page = 1)'
        <3>1. CASE q = r
            BY <3>1, <2>2
        <3>2. CASE q # r
            BY <3>2, <2>1 DEF FetchInv, ProgressInv
        <3>. QED
            BY <3>1, <3>2
    <2>. QED
        BY <2>3 DEF ProgressInv
<1>5. ASSUME NEW q \in Requests, q # r
      PROVE  /\ (call[q] = q => Backed(q, outcome[q]))' 
             /\ (pc[q] = "done" /\ call[q] = NoRequest /\ source[q] = q =>
                    Backed(q, answer[q]))'
    <2>1. /\ Delivered(q)' <=> Delivered(q)
          /\ NeedsOptIn(Wanted(q))' <=> NeedsOptIn(Wanted(q))
          /\ failure[q] \in Faults(q) => failure'[q] \in Faults(q)'
        BY <1>2, <1>5, BackingKept
    <2>. QED
        BY <1>2, <1>5, <2>1 DEF FetchInv, BackedInv, Backed
<1>6. /\ (call[r] = r => Backed(r, outcome[r]))'
      /\ (pc[r] = "done" /\ call[r] = NoRequest /\ source[r] = r =>
            Backed(r, answer[r]))'
    BY <1>3, CacheAssumption DEF Backed
<1>7. BackedInv'
    BY <1>5, <1>6 DEF BackedInv
<1>. QED
    BY <1>4, <1>7 DEF FetchInv

\* A page keeps FetchInv.
LEMMA PageKeeps ==
    ASSUME CacheInv, PlaceInv, SourceInv, AskInv, FetchInv,
           NEW r \in Requests, UsagePage(r)
    PROVE  FetchInv'
<1> DEFINE n == Wanted(r)
           m == ReadBefore(cursor[r])
           page == <<UsageCalls(n)[cursor[r].call], cursor[r].page>>
<1>t. /\ cursor \in [Requests -> [call : 1 .. 3, page : 1 .. Pages]]
      /\ bought \in [Requests -> Seq(Item)]
      /\ Pages \in Nat /\ Pages > 0
    BY ServiceAssumption DEF FetchInv, ProgressInv
<1>1. /\ Fetching(r) /\ bought[r] = FirstPages(n, m)
      /\ cursor[r].call <= Len(UsageCalls(n))
      /\ cursor[r].call > 1 => n = Overview
      /\ cursor[r].call \in 1 .. 3 /\ cursor[r].page \in 1 .. Pages
    BY <1>t DEF UsagePage, InUsage, FetchInv, ProgressInv
<1>2. /\ cursor[r].call \in {1, 2}
      /\ m \in Nat /\ m < PagesFor(n)
      /\ page = PageOf(n, m + 1)
    <2>1. CASE n = Overview
        BY <1>1, <1>t, <2>1 DEF UsageCalls, ReadBefore, PagesFor, PageOf
    <2>2. CASE n # Overview
        BY <1>1, <1>t, <2>2 DEF UsageCalls, ReadBefore, PagesFor, PageOf
    <2>. QED
        BY <2>1, <2>2
<1>3. /\ FirstPages(n, m) \in Seq(Item)
      /\ Append(FirstPages(n, m), PageOf(n, m + 1)) = FirstPages(n, m + 1)
    BY <1>2, OneMorePage
<1>4. FirstPages(n, m + 1) \in Seq(Item)
    <2>1. PageOf(n, m + 1) \in Item
        BY <1>2, PagesAreItems, ServiceAssumption DEF PagesFor
    <2>. QED
        BY <1>3, <2>1, AppendProperties
<1>5. bought' = [bought EXCEPT ![r] = FirstPages(n, m + 1)]
    BY <1>1, <1>2, <1>3 DEF UsagePage
<1>6. /\ bought' \in [Requests -> Seq(Item)]
      /\ bought'[r] = FirstPages(n, m + 1)
      /\ \A q \in Requests \ {r} : bought'[q] = bought[q]
    BY <1>4, <1>5, <1>t
<1>7. UNCHANGED <<ask, failure, source>> /\ n' = n
    BY DEF UsagePage, Wanted
<1>8. CASE UNCHANGED vars
    \* The fetch goes on.
    <2>1. /\ cursor' \in [Requests -> [call : 1 .. 3, page : 1 .. Pages]]
          /\ \A q \in Requests \ {r} : cursor'[q] = cursor[q]
          /\ ReadBefore(cursor[r])' = m + 1
          /\ cursor'[r].call > 1 => n = Overview
          /\ cursor'[r].call = 3 => cursor'[r].page = 1
        <3>1. CASE /\ MorePages(r)
                   /\ cursor' = [cursor EXCEPT ![r].page = @ + 1]
            <4>1. cursor'[r] = [call |-> cursor[r].call,
                                page |-> cursor[r].page + 1]
                BY <1>t, <3>1
            <4>2. cursor[r].page + 1 \in 1 .. Pages
                BY <1>1, <1>t, <3>1 DEF MorePages
            <4>3. /\ cursor'[r].call = cursor[r].call
                  /\ cursor'[r].page = cursor[r].page + 1
                BY <4>1
            <4>4. ReadBefore(cursor[r])' = m + 1
                <5>1. CASE cursor[r].call = 1
                    BY <1>1, <1>t, <4>3, <5>1 DEF ReadBefore
                <5>2. CASE cursor[r].call = 2
                    BY <1>1, <1>t, <4>3, <5>2 DEF ReadBefore
                <5>. QED
                    BY <1>2, <5>1, <5>2
            <4>. QED
                BY <1>1, <1>2, <1>t, <3>1, <4>1, <4>2, <4>4
        <3>2. CASE /\ ~ MorePages(r) /\ n = Overview
                   /\ cursor' = [cursor EXCEPT ![r] =
                                    [call |-> @.call + 1, page |-> 1]]
            <4>1. cursor'[r] = [call |-> cursor[r].call + 1, page |-> 1]
                BY <1>t, <3>2
            <4>2. cursor[r].page = Pages
                BY <1>1, <1>t, <3>2 DEF MorePages
            <4>3. ReadBefore(cursor[r])' = m + 1
                BY <1>1, <1>2, <1>t, <4>1, <4>2 DEF ReadBefore
            <4>. QED
                BY <1>1, <1>2, <1>t, <3>2, <4>1, <4>3
        <3>3. ~ FnReturns(r, "ok")
            <4>1. FnReturns(r, "ok") => pc'[r] # pc[r]
                BY FnReturnsOwn DEF Fetching
            <4>. QED
                BY <1>8, <4>1 DEF vars
        <3>. QED
            BY <3>1, <3>2, <3>3 DEF UsagePage
    <2>2. ProgressInv'
        BY <1>1, <1>6, <1>7, <1>8, <2>1
            DEF vars, FetchInv, ProgressInv, Fetching, Wanted
    <2>3. ASSUME NEW q \in Requests
          PROVE  /\ (call[q] = q => Backed(q, outcome[q]))'
                 /\ (pc[q] = "done" /\ call[q] = NoRequest
                        /\ source[q] = q => Backed(q, answer[q]))'
        <3>1. CASE q # r
            <4>1. /\ Delivered(q)' <=> Delivered(q)
                  /\ NeedsOptIn(Wanted(q))' <=> NeedsOptIn(Wanted(q))
                  /\ failure[q] \in Faults(q) => failure'[q] \in Faults(q)'
                BY <1>6, <1>7, <1>8, <3>1, BackingKept DEF vars
            <4>. QED
                BY <1>7, <1>8, <4>1 DEF vars, FetchInv, BackedInv, Backed
        <3>2. CASE q = r
            \* Nobody has a result of this fetch yet.
            BY <1>1, <1>8, <3>2, CacheAssumption
                DEF vars, Fetching, CacheInv, FlightInv, Backed, None
        <3>. QED
            BY <3>1, <3>2
    <2>. QED
        BY <2>2, <2>3 DEF FetchInv, BackedInv
<1>9. CASE ~ MorePages(r) /\ n # Overview /\ FnReturns(r, "ok")
            /\ UNCHANGED cursor
    \* That was the last page.
    <2>1. m + 1 = PagesFor(n)
        BY <1>1, <1>t, <1>9 DEF MorePages, ReadBefore, PagesFor
    <2>2. bought'[r] = WholeAnswer(n)
        BY <1>6, <2>1, AllPages
    <2>3. Delivered(r)'
        BY <1>7, <1>9, <2>2 DEF Delivered
    <2>4. NeedsOptIn(Wanted(r))' => OptedIn
        BY <1>7 DEF UsagePage
    <2>5. failure' \in [Requests -> Errors \cup {NoFailure}]
        BY <1>7 DEF FetchInv, ProgressInv
    <2>6. /\ cursor' \in [Requests -> [call : 1 .. 3, page : 1 .. Pages]]
          /\ \A q \in Requests \ {r} : cursor'[q] = cursor[q]
        BY <1>t, <1>9
    <2> HIDE DEF n, m, page
    <2>. QED
        BY <1>6, <1>7, <1>9, <2>3, <2>4, <2>5, <2>6, ReturnKeeps
<1>. QED
    BY <1>8, <1>9 DEF UsagePage

\* FetchInv is an invariant.
LEMMA FetchesCorrect == ServiceSpec => []FetchInv
<1>1. ServiceInit => FetchInv
    <2> SUFFICES ASSUME ServiceInit
                 PROVE  FetchInv
        OBVIOUS
    <2>1. << >> \in Seq(Item)
        BY EmptySeq
    <2>2. bought \in [Requests -> Seq(Item)]
        BY <2>1 DEF ServiceInit
    <2>3. BackedInv
        BY CacheAssumption DEF ServiceInit, Init, BackedInv
    <2>4. ProgressInv
        BY <2>2, ServiceAssumption DEF ServiceInit, Init, ProgressInv, Fetching
    <2>. QED
        BY <2>3, <2>4 DEF FetchInv
<1>2. CacheInv /\ PlaceInv /\ SourceInv /\ AskInv /\ FetchInv
        /\ [ServiceNext]_allVars => FetchInv'
    <2> SUFFICES ASSUME CacheInv, PlaceInv, SourceInv, AskInv, FetchInv,
                        [ServiceNext]_allVars
                 PROVE  FetchInv'
        OBVIOUS
    <2>t. /\ pc \in [Requests -> PCs]
          /\ ask \in [Requests -> Questions \cup {NoKey}]
          /\ cursor \in [Requests -> [call : 1 .. 3, page : 1 .. Pages]]
          /\ bought \in [Requests -> Seq(Item)]
          /\ failure \in [Requests -> Errors \cup {NoFailure}]
          /\ call \in [Requests -> Requests \cup {NoRequest}]
        BY DEF CacheInv, TypeOK, AskInv, FetchInv, ProgressInv
    \* Steps that buy nothing keep it if they keep the requests' results.
    <2>k. ASSUME UNCHANGED <<cursor, bought, failure>>,
                 gone \subseteq gone',
                 \A q \in Requests :
                    /\ pc[q] # "idle" => ask'[q] = ask[q]
                    /\ Fetching(q)' => Fetching(q) \/ pc[q] \in {"called", "leading"}
                    /\ pc'[q] \in {"idle", "called", "leading"} =>
                        pc[q] \in {"idle", "called", "leading"}
                    /\ call'[q] = q =>
                        \/ outcome'[q].kind = "none"
                        \/ call[q] = q /\ outcome'[q] = outcome[q]
                    /\ pc'[q] = "done" /\ call'[q] = NoRequest
                            /\ source'[q] = q =>
                        /\ pc[q] = "done" /\ call[q] = NoRequest
                        /\ source[q] = q /\ answer'[q] = answer[q]
          PROVE  FetchInv'
        <3>1. ASSUME NEW q \in Requests, pc[q] # "idle"
              PROVE  /\ Delivered(q)' <=> Delivered(q)
                     /\ NeedsOptIn(Wanted(q))' <=> NeedsOptIn(Wanted(q))
                     /\ failure[q] \in Faults(q) => failure'[q] \in Faults(q)'
                     /\ Wanted(q)' = Wanted(q)
            BY <2>k, <3>1, BackingKept
        <3>2. \A q \in Requests : call[q] = q => pc[q] # "idle"
            BY CacheAssumption DEF CacheInv, FlightInv
        <3>3. BackedInv'
            BY <2>k, <3>1, <3>2 DEF FetchInv, BackedInv, Backed
        <3>4. ASSUME NEW q \in Requests, Fetching(q)'
              PROVE  /\ bought[q] = FirstPages(Wanted(q), ReadBefore(cursor[q]))'
                     /\ cursor[q].call > 1 => Wanted(q)' = Overview
                     /\ cursor[q].call = 3 => cursor[q].page = 1
            <4>1. CASE Fetching(q)
                <5>1. Wanted(q)' = Wanted(q)
                    BY <3>1, <4>1 DEF Fetching
                <5>. QED
                    BY <2>k, <4>1, <5>1 DEF FetchInv, ProgressInv
            <4>2. CASE pc[q] \in {"called", "leading"}
                <5>1. cursor[q] = [call |-> 1, page |-> 1] /\ bought[q] = << >>
                    BY <4>2 DEF FetchInv, ProgressInv
                <5>2. ReadBefore(cursor[q])' = 0
                    BY <2>k, <5>1 DEF ReadBefore
                <5>3. FirstPages(Wanted(q)', 0) = << >>
                    BY DEF FirstPages
                <5>. QED
                    BY <2>k, <5>1, <5>2, <5>3
            <4>. QED
                BY <2>k, <3>4, <4>1, <4>2
        <3>5. ProgressInv'
            BY <2>k, <3>4 DEF FetchInv, ProgressInv
        <3>. QED
            BY <3>3, <3>5 DEF FetchInv
    <2>1. ASSUME NEW r \in Requests, NEW q \in Questions, Receive(r, q)
          PROVE  FetchInv'
        BY <2>1, <2>k, <2>t DEF Receive, Begin, Goto, Fetching, cacheVars
    <2>2. CASE \/ \E r \in Requests, q \in Questions : Refuse(r, q)
               \/ \E r \in Requests : Respond(r)
               \/ \E r \in Requests : ClientGone(r) /\ UNCHANGED service
               \/ Tick /\ UNCHANGED service
               \/ UNCHANGED allVars
        <3>1. /\ UNCHANGED <<pc, call, outcome, answer, source, cursor,
                             bought, failure>>
              /\ gone \subseteq gone'
              /\ \A q \in Requests : pc[q] # "idle" => ask'[q] = ask[q]
            BY <2>2, <2>t DEF Refuse, Respond, ClientGone, Tick, allVars,
                vars, service, cacheVars, Unasked, AskInv
        <3>. QED
            BY <2>k, <3>1 DEF Fetching
    <2>3. ASSUME NEW r \in Requests, InCache(r) \/ HitFrom(r) \/ StoreFrom(r)
          PROVE  FetchInv'
        <3>1. Do(r) /\ UNCHANGED <<ask, cursor, bought, failure>>
            BY <2>3 DEF InCache, HitFrom, StoreFrom, Do, service
        <3>2. /\ \A q \in Requests \ {r} : /\ pc'[q] = pc[q]
                                           /\ call'[q] = call[q]
                                           /\ outcome'[q] = outcome[q]
                                           /\ answer'[q] = answer[q]
                                           /\ source'[q] = source[q]
              /\ gone' = gone
            BY <2>3, <3>1, OnlyItsOwn
                DEF InCache, HitFrom, StoreFrom, service, SourceInv
        <3>3. /\ Fetching(r)' => pc[r] \in {"called", "leading"}
              /\ pc'[r] \in {"idle", "called", "leading"} =>
                    pc[r] \in {"called", "leading"}
              /\ call'[r] = r =>
                    \/ outcome'[r].kind = "none"
                    \/ call[r] = r /\ outcome'[r] = outcome[r]
              /\ ~ (pc'[r] = "done" /\ call'[r] = NoRequest
                        /\ source'[r] = r)
            <4>1. CASE HitFrom(r)
                BY <4>1, <2>t, CacheAssumption
                    DEF HitFrom, Hit, Goto, Fetching, CacheInv, FlightInv
            <4>2. CASE StoreFrom(r)
                BY <4>2, <2>t, CacheAssumption
                    DEF StoreFrom, StoreOk, Return, Goto, Fetching, CacheInv,
                        FlightInv
            <4>3. CASE CountHit(r) /\ UNCHANGED service
                BY <4>3, <2>t, CacheAssumption
                    DEF CountHit, Return, Goto, Fetching, CacheInv,
                        FlightInv, SourceInv, service
            <4>4. CASE Wake(r) \/ StoreFailed(r)
                BY <4>4, <2>t, CacheAssumption
                    DEF Wake, StoreFailed, Return, Goto, Fetching, CacheInv,
                        FlightInv, PlaceInv
            <4>5. CASE Bypass(r) \/ Join(r) \/ Lead(r) \/ CountMiss(r)
                        \/ FetchPanics(r) \/ Close(r)
                BY <4>5, <2>t, CacheAssumption
                    DEF Bypass, Join, Lead, CountMiss, FetchPanics, Close,
                        Goto, Fetching, CacheInv, FlightInv, RegistryExact,
                        Flying, Registered, None
            <4>. QED
                BY <2>3, <4>1, <4>2, <4>3, <4>4, <4>5 DEF InCache
        <3>. QED
            BY <2>k, <3>1, <3>2, <3>3 DEF Fetching
    <2>4. ASSUME NEW r \in Requests, UsagePage(r)
          PROVE  FetchInv'
        BY <2>4, PageKeeps
    <2>5. ASSUME NEW r \in Requests, UsageFails(r)
          PROVE  FetchInv'
        <3>1. PICK fault \in Faults(r) :
                /\ failure' = [failure EXCEPT ![r] = fault]
                /\ FnReturns(r, IF fault.cause = "cancelled"
                                THEN "cancelled" ELSE "failed")
            BY <2>5 DEF UsageFails
        <3>2. /\ UNCHANGED <<ask, source>>
              /\ cursor' = [cursor EXCEPT ![r] = [call |-> 1, page |-> 1]]
              /\ bought' = [bought EXCEPT ![r] = << >>]
            BY <2>5 DEF UsageFails
        <3>3. fault \in Errors
            BY DEF Faults
        <3>4. gone' = gone
            BY <3>1, FnReturnsDo, OnlyItsOwn
        <3>5. fault \in Faults(r)'
            BY <3>2, <3>4 DEF Faults, Wanted
        <3> DEFINE kind == IF fault.cause = "cancelled" THEN "cancelled"
                           ELSE "failed"
        <3>6. kind # "ok" /\ FnReturns(r, kind)
            BY <3>1
        <3> HIDE DEF kind
        <3>7. /\ failure' \in [Requests -> Errors \cup {NoFailure}]
              /\ failure'[r] \in Faults(r)'
              /\ \A q \in Requests \ {r} : failure'[q] = failure[q]
            BY <3>1, <3>3, <3>5, <2>t
        <3>8. /\ cursor' \in [Requests -> [call : 1 .. 3, page : 1 .. Pages]]
              /\ bought' \in [Requests -> Seq(Item)]
              /\ \A q \in Requests \ {r} :
                    cursor'[q] = cursor[q] /\ bought'[q] = bought[q]
            <4>1. [call |-> 1, page |-> 1] \in [call : 1 .. 3, page : 1 .. Pages]
                BY ServiceAssumption
            <4>2. << >> \in Seq(Item)
                BY EmptySeq
            <4>. QED
                BY <3>2, <4>1, <4>2, <2>t
        <3>. QED
            BY <3>2, <3>6, <3>7, <3>8, ReturnKeeps
    <2>6. ASSUME NEW r \in Requests, ForecastAnswers(r)
          PROVE  FetchInv'
        <3> DEFINE whole == WholeAnswer(Overview)
        <3>1. PICK reply \in {"amount", "nothing"}
                                \cup {"failed" : e \in Faults(r)} :
                bought' = [bought EXCEPT ![r] =
                                Append(@, <<"forecast", reply>>)]
            BY <2>6 DEF ForecastAnswers
        <3>2. /\ FnReturns(r, "ok") /\ Wanted(r) = Overview
              /\ UNCHANGED <<ask, cursor, failure, source>>
            BY <2>6 DEF ForecastAnswers
        <3>3. <<"forecast", reply>> \in Item
            <4>1. reply \in {"amount", "nothing", "failed"}
                OBVIOUS
            <4>. QED
                BY <4>1 DEF Item
        <3>4. bought[r] = whole
            <4>1. ReadBefore(cursor[r]) = PagesFor(Overview)
                BY <2>6 DEF ForecastAnswers, InUsage, UsageCalls, ReadBefore,
                    PagesFor, FetchInv, ProgressInv
            <4>. QED
                BY <2>6, <4>1, AllPages
                    DEF ForecastAnswers, FetchInv, ProgressInv
        <3>5. whole \in Seq(Item)
            BY AllPages
        <3> HIDE DEF whole
        <3>6. /\ bought'[r] = Append(whole, <<"forecast", reply>>)
              /\ bought' \in [Requests -> Seq(Item)]
              /\ \A q \in Requests \ {r} : bought'[q] = bought[q]
            BY <3>1, <3>3, <3>4, <3>5, <2>t, AppendProperties
        <3>7. /\ Len(bought'[r]) = Len(whole) + 1
              /\ SubSeq(bought'[r], 1, Len(whole)) = whole
            BY <3>3, <3>5, <3>6, ThenForecast
        <3>8. Wanted(r)' = Overview
            BY <3>2 DEF Wanted
        <3>9. Delivered(r)' /\ ~ NeedsOptIn(Wanted(r))'
            BY <3>7, <3>8 DEF Delivered, NeedsOptIn, whole
        <3>. QED
            BY <3>2, <3>6, <3>9, <2>t, ReturnKeeps
    <2>. QED
        BY <2>1, <2>2, <2>3, <2>4, <2>5, <2>6 DEF ServiceNext, Serve
<1>. QED
    BY <1>1, <1>2, CacheInvInService, SourcesCorrect, AsksCorrect, PTL
        DEF ServiceSpec

-----------------------------------------------------------------------------
(* Answers and statuses.                                                   *)

\* The result r answers with is that of its source's own fetch, which asked
\* the same question and is over.
LEMMA SourceBacks ==
    ASSUME CacheInv, PlaceInv, AskInv, SourceInv, FetchInv,
           NEW r \in Requests, pc[r] = "done"
    PROVE  /\ Source(r) \in Requests /\ ~ Fetching(Source(r))
           /\ Wanted(Source(r)) = Wanted(r)
           /\ answer[r].kind \in {"ok", "failed", "cancelled"}
           /\ answer[r].kind = "ok" =>
                Delivered(Source(r)) /\ (NeedsOptIn(Wanted(r)) => OptedIn)
           /\ answer[r].kind # "ok" =>
                failure[Source(r)] \in Faults(Source(r))
<1> DEFINE s == Source(r)
<1>t. /\ answer \in [Requests -> Outcome]
      /\ call \in [Requests -> Requests \cup {NoRequest}]
    BY DEF CacheInv, TypeOK
<1>1. /\ s \in Requests
      /\ key[s] = key[r]
      /\ pc[s] # "idle" /\ ~ Fetching(s)
      /\ \/ answer[r].kind = "ok" /\ call[s] = s /\ outcome[s].kind = "ok"
         \/ call[s] = s /\ answer[r] = outcome[s]
         \/ s = r /\ call[r] = NoRequest /\ source[r] = r
    <2>1. CASE call[r] # NoRequest
        <3>1. s = call[r] /\ s \in Requests
            BY <1>t, <2>1 DEF Source
        <3>2. /\ answer[r] = outcome[s] /\ outcome[s].kind # "none"
              /\ key[s] = key[r] /\ call[s] = s
            BY <2>1, <3>1 DEF CacheInv, FlightInv, PlaceInv
        <3>3. pc[s] # "idle" /\ ~ Fetching(s)
            BY <3>1, <3>2, CacheAssumption
                DEF CacheInv, FlightInv, Fetching, None
        <3>. QED
            BY <3>1, <3>2, <3>3
    <2>2. CASE call[r] = NoRequest /\ source[r] # r
        <3>1. s = source[r]
            BY <2>2 DEF Source
        <3>2. Sold(s, key[r]) /\ answer[r].kind = "ok"
            BY <2>2, <3>1 DEF SourceInv
        <3>3. pc[s] # "idle" /\ ~ Fetching(s)
            BY <3>2, CacheAssumption
                DEF Sold, CacheInv, FlightInv, Fetching, None
        <3>. QED
            BY <3>2, <3>3 DEF Sold
    <2>3. CASE call[r] = NoRequest /\ source[r] = r
        BY <2>3 DEF Source, Fetching
    <2>. QED
        BY <2>1, <2>2, <2>3
<1>2. Wanted(s) = Wanted(r)
    <2>1. key[s] = Key(Wanted(s)) /\ key[r] = Key(Wanted(r))
        BY <1>1 DEF AskInv
    <2>. QED
        BY <1>1, <2>1, KeyTellsApart DEF Wanted
<1>3. NeedsOptIn(Wanted(s)) <=> NeedsOptIn(Wanted(r))
    BY <1>2
<1>4. answer[r].kind \in {"ok", "failed", "cancelled"}
    BY <1>t DEF SourceInv, Outcome
<1>5. /\ answer[r].kind = "ok" =>
            Delivered(s) /\ (NeedsOptIn(Wanted(s)) => OptedIn)
      /\ answer[r].kind # "ok" => failure[s] \in Faults(s)
    BY <1>1, <1>4 DEF FetchInv, BackedInv, Backed
<1>. QED
    BY <1>1, <1>2, <1>3, <1>4, <1>5

\* A status is that of the answer, and stays so.
StatusInv ==
    \A r \in Requests : status[r] # 0 /\ pc[r] # "idle" =>
        pc[r] = "done" /\ status[r] = StatusOf(r)

\* StatusInv is an invariant.
LEMMA StatusesCorrect == ServiceSpec => []StatusInv
<1>1. ServiceInit => StatusInv
    BY DEF ServiceInit, StatusInv
<1>2. CacheInv /\ PlaceInv /\ AskInv /\ SourceInv /\ FetchInv /\ StatusInv
        /\ [ServiceNext]_allVars => StatusInv'
    <2> SUFFICES ASSUME CacheInv, PlaceInv, AskInv, SourceInv, FetchInv,
                        StatusInv, [ServiceNext]_allVars
                 PROVE  StatusInv'
        OBVIOUS
    <2>t. status \in [Requests -> Nat]
        BY DEF AskInv
    \* A request that is done keeps its answer, its source and the latter's
    \* error.
    <2>1. ASSUME NEW r \in Requests, pc[r] = "done"
          PROVE  /\ pc'[r] = "done" /\ answer'[r] = answer[r]
                 /\ Source(r)' = Source(r)
                 /\ failure'[Source(r)] = failure[Source(r)]
        <3>1. Source(r) \in Requests /\ ~ Fetching(Source(r))
            BY <2>1, SourceBacks
        <3>2. ASSUME NEW q \in Requests, Do(q)
              PROVE  q # r
            BY <2>1, <3>2 DEF Do, Bypass, Hit, CountHit, Join, Lead,
                CountMiss, FetchReturns, DirectReturns, FetchPanics, Close,
                Wake, StoreFailed, StoreOk
        <3>3. ASSUME NEW q \in Requests, Serve(q)
              PROVE  /\ pc'[r] = pc[r] /\ answer'[r] = answer[r]
                     /\ call'[r] = call[r] /\ source'[r] = source[r]
                     /\ failure'[Source(r)] = failure[Source(r)]
            <4>1. /\ pc'[r] = pc[r] /\ answer'[r] = answer[r]
                  /\ call'[r] = call[r]
                <5>1. CASE UNCHANGED vars
                    BY <5>1 DEF vars
                <5>2. CASE Do(q)
                    BY <3>2, <5>2, OnlyItsOwn
                <5>. QED
                    BY <3>3, <5>1, <5>2, ServeDoes
            <4>2. source'[r] = source[r]
                BY <2>1, <3>3 DEF Serve, HitFrom, Hit, InCache, UsagePage,
                    UsageFails, ForecastAnswers, StoreFrom, Respond, service,
                    SourceInv
            <4>3. failure'[Source(r)] = failure[Source(r)]
                BY <3>1, <3>3 DEF Serve, HitFrom, InCache, UsagePage,
                    UsageFails, InUsage, ForecastAnswers, StoreFrom, Respond,
                    service, FetchInv, ProgressInv
            <4>. QED
                BY <4>1, <4>2, <4>3
        <3>4. CASE \/ \E q \in Requests, p \in Questions : Refuse(q, p)
                   \/ \E q \in Requests : ClientGone(q) /\ UNCHANGED service
                   \/ Tick /\ UNCHANGED service
                   \/ UNCHANGED allVars
            BY <2>1, <3>4 DEF Refuse, ClientGone, Tick, allVars, vars,
                service, Source
        <3>5. CASE \E q \in Requests, p \in Questions : Receive(q, p)
            BY <2>1, <3>5 DEF Receive, Begin, Goto, Source, CacheInv, TypeOK
        <3>6. CASE \E q \in Requests : Serve(q)
            BY <2>1, <3>3, <3>6 DEF Source
        <3>. QED
            BY <3>4, <3>5, <3>6 DEF ServiceNext
    \* A request that was refused stays where it is.
    <2>r. ASSUME NEW r \in Requests, pc[r] = "idle", status[r] # 0
          PROVE  pc'[r] = "idle"
        <3>1. ask[r] # NoKey
            BY <2>r DEF AskInv
        <3>2. CASE \E q \in Requests, p \in Questions : Receive(q, p)
            BY <2>r, <3>1, <3>2 DEF Receive, Begin, Goto, Unasked, CacheInv,
                TypeOK
        <3>3. CASE \E q \in Requests : Serve(q)
            <4>1. PICK q \in Requests : Serve(q)
                BY <3>3
            <4>2. CASE UNCHANGED vars
                BY <2>r, <4>2 DEF vars
            <4>3. CASE Do(q)
                BY <2>r, <4>3, OnlyItsOwn
            <4>. QED
                BY <4>1, <4>2, <4>3, ServeDoes
        <3>4. CASE \/ \E q \in Requests, p \in Questions : Refuse(q, p)
                   \/ \E q \in Requests : ClientGone(q) /\ UNCHANGED service
                   \/ Tick /\ UNCHANGED service
                   \/ UNCHANGED allVars
            BY <2>r, <3>4 DEF Refuse, ClientGone, Tick, allVars, vars
        <3>. QED
            BY <3>2, <3>3, <3>4 DEF ServiceNext
    <2>2. ASSUME NEW r \in Requests, status'[r] = status[r],
                 status[r] # 0, pc'[r] # "idle"
          PROVE  pc'[r] = "done" /\ status'[r] = StatusOf(r)'
        <3>1. pc[r] = "done" /\ status[r] = StatusOf(r)
            BY <2>2, <2>r DEF StatusInv
        <3>. QED
            BY <2>1, <2>2, <3>1 DEF StatusOf
    <2>3. ASSUME NEW r \in Requests, status'[r] # status[r]
          PROVE  \/ pc'[r] = "idle"
                 \/ pc'[r] = "done" /\ status'[r] = StatusOf(r)'
        <3>1. CASE \E q \in Requests, p \in Questions : Refuse(q, p)
            <4>1. ask[r] = NoKey /\ pc' = pc
                BY <2>3, <2>t, <3>1 DEF Refuse, Unasked, vars
            <4>. QED
                BY <4>1 DEF AskInv
        <3>2. CASE \E q \in Requests : Respond(q)
            <4>1. Respond(r)
                BY <2>3, <2>t, <3>2 DEF Respond
            <4>2. pc[r] = "done" /\ status'[r] = StatusOf(r)
                BY <2>t, <4>1 DEF Respond
            <4>. QED
                BY <2>1, <4>2 DEF StatusOf
        <3>3. \/ \E q \in Requests, p \in Questions : Refuse(q, p)
              \/ \E q \in Requests : Respond(q)
            BY <2>3 DEF ServiceNext, Serve, Receive, HitFrom, InCache,
                UsagePage, UsageFails, ForecastAnswers, StoreFrom, service,
                allVars
        <3>. QED
            BY <3>1, <3>2, <3>3
    <2>. QED
        BY <2>2, <2>3 DEF StatusInv
<1>. QED
    BY <1>1, <1>2, CacheInvInService, AsksCorrect, SourcesCorrect,
        FetchesCorrect, PTL DEF ServiceSpec

\* What holds of the service in every state.
ServiceInv ==
    /\ CacheInv /\ PlaceInv
    /\ AskInv /\ SourceInv /\ FetchInv /\ StatusInv

\* ServiceInv is an invariant.
LEMMA ServiceInvCorrect == ServiceSpec => []ServiceInv
BY CacheInvInService, AsksCorrect, SourcesCorrect, FetchesCorrect,
    StatusesCorrect, PTL DEF ServiceInv

\* What becomes of an error is told by its text alone.
LEMMA ErrorStatus ==
    ASSUME NEW r \in Requests, answer[r].kind # "ok",
           failure[Source(r)] \in Errors
    PROVE  LET says == failure[Source(r)].says IN
           /\ StatusOf(r) \in {409, 400, 403, 502}
           /\ "hourly" \in says => StatusOf(r) = 409
           /\ StatusOf(r) = 403 <=> says = {"denied"}
           /\ StatusOf(r) = 502 <=> says = {}
<1> DEFINE says == failure[Source(r)].says
<1>1. says \subseteq {"hourly", "unsupported", "denied"}
    BY ServiceAssumption DEF Words
<1>2. StatusOf(r) =
        CASE "hourly" \in says -> 409
          [] "hourly" \notin says /\ "unsupported" \in says -> 400
          [] says = {"denied"} -> 403
          [] OTHER -> 502
    BY DEF StatusOf
<1> HIDE DEF says
<1>3. CASE "hourly" \in says
    BY <1>2, <1>3 DEF says
<1>4. CASE "hourly" \notin says /\ "unsupported" \in says
    BY <1>2, <1>4 DEF says
<1>5. CASE says = {"denied"}
    BY <1>2, <1>5 DEF says
<1>6. CASE says = {}
    BY <1>2, <1>6 DEF says
<1>7. \/ "hourly" \in says \/ "unsupported" \in says
      \/ says = {"denied"} \/ says = {}
    BY <1>1
<1>. QED
    BY <1>3, <1>4, <1>5, <1>6, <1>7

\* A status other than that of a refusal is that of an answer, good or bad.
LEMMA GoodStatus ==
    ASSUME ServiceInv, NEW r \in Requests, status[r] # 0, pc[r] # "idle"
    PROVE  /\ pc[r] = "done" /\ status[r] = StatusOf(r)
           /\ answer[r].kind # "ok" => failure[Source(r)] \in Faults(Source(r))
           /\ answer[r].kind = "ok" <=> status[r] = 200
<1>1. pc[r] = "done" /\ status[r] = StatusOf(r)
    BY DEF ServiceInv, StatusInv
<1>2. answer[r].kind # "ok" => failure[Source(r)] \in Faults(Source(r))
    BY <1>1, SourceBacks DEF ServiceInv
<1>3. answer[r].kind # "ok" => StatusOf(r) \in {409, 400, 403, 502}
    BY <1>2, ErrorStatus DEF Faults
<1>4. answer[r].kind = "ok" => StatusOf(r) = 200
    BY DEF StatusOf
<1>. QED
    BY <1>1, <1>2, <1>3, <1>4

\* And 200 is not that of a refusal.
LEMMA GoodAnswer ==
    ASSUME ServiceInv, NEW r \in Requests, status[r] = 200
    PROVE  pc[r] = "done" /\ answer[r].kind = "ok"
<1>1. pc[r] # "idle"
    BY DEF ServiceInv, AskInv
<1>. QED
    BY <1>1, GoodStatus

\* Nobody is given the answer to another question, through whatever chain of
\* flights, waiters and entries it reached him: keys tell questions apart.
THEOREM AnswersMatchQuestionCorrect == ServiceSpec => []AnswersMatchQuestion
<1>1. ServiceInv => AnswersMatchQuestion
    BY GoodAnswer, SourceBacks DEF ServiceInv, AnswersMatchQuestion
<1>. QED
    BY <1>1, ServiceInvCorrect, PTL

\* Every 200 is built from every page its question needs, each once and in
\* order, for any number of pages.
THEOREM OnlyWholeAnswersCorrect == ServiceSpec => []OnlyWholeAnswers
<1>1. ServiceInv => OnlyWholeAnswers
    <2> SUFFICES ASSUME ServiceInv, NEW r \in Requests, status[r] = 200
                 PROVE  LET whole == WholeAnswer(Wanted(r))
                            got == bought[Source(r)]
                        IN  IF Wanted(r) = Overview
                            THEN /\ Len(got) = Len(whole) + 1
                                 /\ SubSeq(got, 1, Len(whole)) = whole
                            ELSE got = whole
        BY DEF OnlyWholeAnswers
    <2>1. Delivered(Source(r)) /\ Wanted(Source(r)) = Wanted(r)
        BY GoodAnswer, SourceBacks DEF ServiceInv
    <2>. QED
        BY <2>1 DEF Delivered
<1>. QED
    BY <1>1, ServiceInvCorrect, PTL

\* The status of every request blames what its source's fetch met, as far as
\* the text of the error tells, whatever errors there may be.
THEOREM StatusBlamesRightlyCorrect == ServiceSpec => []StatusBlamesRightly
<1>1. ServiceInv => StatusBlamesRightly
    <2> SUFFICES ASSUME ServiceInv, NEW r \in Requests
                 PROVE  LET error == failure[Source(r)] IN
                        /\ status[r] # 0 /\ pc[r] = "idle" => status[r] = 400
                        /\ status[r] = 200 /\ NeedsOptIn(Wanted(r)) => OptedIn
                        /\ Told(r) =>
                            /\ error.cause = "optin" =>
                                /\ NeedsOptIn(Wanted(r)) /\ ~ OptedIn
                                /\ "hourly" \in error.says => status[r] = 409
                            /\ error.cause = "cancelled" => Source(r) \in gone
                            /\ status[r] = 403 <=> error.says = {"denied"}
                            /\ status[r] = 502 <=> error.says = {}
        BY DEF StatusBlamesRightly
    <2>1. status[r] # 0 /\ pc[r] = "idle" => status[r] = 400
        BY DEF ServiceInv, AskInv
    <2>2. status[r] = 200 /\ NeedsOptIn(Wanted(r)) => OptedIn
        BY GoodAnswer, SourceBacks DEF ServiceInv
    <2>3. ASSUME Told(r)
          PROVE  LET error == failure[Source(r)] IN
                 /\ error.cause = "optin" =>
                    /\ NeedsOptIn(Wanted(r)) /\ ~ OptedIn
                    /\ "hourly" \in error.says => status[r] = 409
                 /\ error.cause = "cancelled" => Source(r) \in gone
                 /\ status[r] = 403 <=> error.says = {"denied"}
                 /\ status[r] = 502 <=> error.says = {}
        <3>1. /\ pc[r] = "done" /\ status[r] = StatusOf(r)
              /\ answer[r].kind # "ok"
              /\ failure[Source(r)] \in Faults(Source(r))
            BY <2>3, GoodStatus DEF Told
        <3>2. Wanted(Source(r)) = Wanted(r)
            BY <3>1, SourceBacks DEF ServiceInv
        <3>3. LET says == failure[Source(r)].says IN
              /\ "hourly" \in says => StatusOf(r) = 409
              /\ StatusOf(r) = 403 <=> says = {"denied"}
              /\ StatusOf(r) = 502 <=> says = {}
            BY <3>1, ErrorStatus DEF Faults
        <3>. QED
            BY <3>1, <3>2, <3>3 DEF Faults
    <2>. QED
        BY <2>1, <2>2, <2>3
<1>. QED
    BY <1>1, ServiceInvCorrect, PTL

\* Whoever was answered before r began is not on the flight of r: flights end
\* before their leaders are answered.
EarlierInv ==
    /\ earlier \in [Requests -> SUBSET Requests]
    /\ \A r \in Requests :
        /\ \A q \in earlier[r] : pc[q] = "done"
        /\ r \notin earlier[r]
        /\ call[r] \notin earlier[r]

\* EarlierInv is an invariant.
LEMMA EarlierCorrect == ServiceSpec => []EarlierInv
<1>1. ServiceInit => EarlierInv
    BY DEF ServiceInit, EarlierInv
<1>2. CacheInv /\ EarlierInv /\ [ServiceNext]_allVars => EarlierInv'
    <2> SUFFICES ASSUME CacheInv, EarlierInv, [ServiceNext]_allVars
                 PROVE  EarlierInv'
        OBVIOUS
    <2>t. /\ pc \in [Requests -> PCs]
          /\ call \in [Requests -> Requests \cup {NoRequest}]
        BY DEF CacheInv, TypeOK
    <2>1. ASSUME NEW r \in Requests, NEW q \in Questions, Receive(r, q)
          PROVE  EarlierInv'
        <3>1. /\ call[r] = NoRequest /\ pc[r] = "idle" /\ call' = call
              /\ pc' = [pc EXCEPT ![r] = "called"]
              /\ earlier' = [earlier EXCEPT ![r] =
                                {x \in Requests : pc[x] = "done"}]
            BY <2>1 DEF Receive, Begin, Goto, CacheInv, FlightInv
        <3>. QED
            BY <3>1, <2>t, CacheAssumption DEF EarlierInv
    <2>2. CASE UNCHANGED <<pc, call, earlier>>
        BY <2>2 DEF EarlierInv
    <2>3. ASSUME NEW r \in Requests, Serve(r), Do(r)
          PROVE  EarlierInv'
        <3>1. earlier' = earlier
            BY <2>3 DEF Serve, HitFrom, InCache, UsagePage, UsageFails,
                ForecastAnswers, StoreFrom, Respond, service
        <3>2. \A q \in Requests \ {r} : pc'[q] = pc[q] /\ call'[q] = call[q]
            BY <2>3, OnlyItsOwn
        <3>3. pc[r] # "done"
            BY <2>3 DEF Do, Bypass, Hit, CountHit, Join, Lead, CountMiss,
                FetchReturns, DirectReturns, FetchPanics, Close, Wake,
                StoreFailed, StoreOk
        <3>4. call'[r] \notin earlier[r]
            <4>1. CASE Join(r)
                <5>1. call'[r] = inflight[key[r]] /\ key[r] \in DOMAIN inflight
                    BY <2>t, <4>1 DEF Join, Registered
                <5>2. pc[inflight[key[r]]] # "done"
                    BY <5>1 DEF CacheInv, RegistryExact, Flying
                <5>. QED
                    BY <5>1, <5>2 DEF EarlierInv
            <4>2. CASE Lead(r)
                BY <2>t, <4>2 DEF Lead, EarlierInv
            <4>3. CASE call' = call
                BY <4>3 DEF EarlierInv
            <4>. QED
                BY <2>3, <4>1, <4>2, <4>3 DEF Do, Bypass, Hit, CountHit,
                    CountMiss, FetchReturns, DirectReturns, FetchPanics,
                    Close, Wake, StoreFailed, StoreOk
        <3>. QED
            BY <3>1, <3>2, <3>3, <3>4 DEF EarlierInv
    <2>4. ASSUME NEW r \in Requests, Serve(r), UNCHANGED vars
          PROVE  UNCHANGED <<pc, call, earlier>>
        BY <2>4 DEF vars, Serve, HitFrom, InCache, UsagePage, UsageFails,
            ForecastAnswers, StoreFrom, Respond, service
    <2>5. CASE \E r \in Requests : Serve(r)
        BY <2>2, <2>3, <2>4, <2>5, ServeDoes
    <2>6. CASE \/ \E r \in Requests, q \in Questions : Refuse(r, q)
               \/ \E r \in Requests : ClientGone(r) /\ UNCHANGED service
               \/ Tick /\ UNCHANGED service
               \/ UNCHANGED allVars
        BY <2>2, <2>6 DEF Refuse, ClientGone, Tick, allVars, vars, service
    <2>. QED
        BY <2>1, <2>5, <2>6 DEF ServiceNext
<1>. QED
    BY <1>1, <1>2, CacheInvInService, PTL DEF ServiceSpec

\* No error outlives its flight: nobody is told one that was reported before he
\* asked.
THEOREM FailuresNotKeptCorrect == ServiceSpec => []FailuresNotKept
<1>1. ServiceInv /\ EarlierInv => FailuresNotKept
    <2> SUFFICES ASSUME ServiceInv, EarlierInv, NEW r \in Requests, Told(r)
                 PROVE  Source(r) \notin earlier[r]
        BY DEF FailuresNotKept
    <2>1. pc[r] = "done" /\ answer[r].kind # "ok"
        BY GoodStatus DEF Told
    <2>2. call[r] # NoRequest \/ source[r] = r
        BY <2>1 DEF ServiceInv, SourceInv
    <2>. QED
        BY <2>2 DEF EarlierInv, Source
<1>. QED
    BY <1>1, ServiceInvCorrect, EarlierCorrect, PTL

-----------------------------------------------------------------------------
(* What a question costs.                                                  *)

\* g led a flight that was given its data,
Paid(g) == call[g] = g /\ outcome[g].kind = "ok"

\* which is stored, and served until it is TTL old at least.
Served(g) ==
    \/ now >= outcome[g].asOf + TTL
    \/ /\ key[g] \in DOMAIN entries
       /\ entries[key[g]].exp >= outcome[g].asOf + TTL

\* Every successful flight is about to store its data or is served; so the
\* next flight of its key comes a TTL later.
SalesInv ==
    /\ \A g \in Requests : Paid(g) =>
        /\ outcome[g].asOf <= now
        /\ pc[g] \in {"closing", "storing"} \/ Served(g)
    /\ BoughtOncePerTTL

\* With room for every key, no fresh entry is dropped.
LEMMA NothingFreshDropped ==
    ASSUME IsFiniteSet(Keys), Cardinality(Keys) <= MaxEntries,
           TypeOK, TypeOK', DropsNearestExpiry,
           NEW k \in DOMAIN entries \ DOMAIN entries'
    PROVE  entries[k].exp <= now
<1> SUFFICES ASSUME entries[k].exp > now
             PROVE  FALSE
    BY DEF TypeOK, PartialFn, Entry
<1>1. Cardinality(DOMAIN entries') = MaxEntries
    BY DEF DropsNearestExpiry
<1>2. k \in Keys /\ DOMAIN entries' \subseteq Keys \ {k}
    BY DEF TypeOK, PartialFn
<1>3. /\ IsFiniteSet(Keys \ {k})
      /\ Cardinality(Keys \ {k}) = Cardinality(Keys) - 1
    BY <1>2, FS_RemoveElement
<1>4. Cardinality(DOMAIN entries') <= Cardinality(Keys \ {k})
    BY <1>2, <1>3, FS_Subset
<1>5. Cardinality(Keys) \in Nat
    BY FS_CardinalityType
<1>. QED
    BY <1>1, <1>3, <1>4, <1>5, CacheAssumption

\* A step inside do keeps SalesInv.
LEMMA DoSells ==
    ASSUME IsFiniteSet(Keys), Cardinality(Keys) <= MaxEntries,
           CacheInv, TypeOK', [DropsNearestExpiry]_vars, SalesInv,
           NEW r \in Requests, Do(r)
    PROVE  SalesInv'
<1>t. /\ now \in Nat /\ TTL \in Nat
      /\ pc \in [Requests -> PCs]
      /\ outcome \in [Requests -> Outcome]
      /\ \A k \in DOMAIN entries : entries[k].exp \in Nat
    BY CacheAssumption DEF CacheInv, TypeOK, PartialFn, Entry
<1>o. /\ \A q \in Requests \ {r} : /\ pc'[q] = pc[q]
                                   /\ call'[q] = call[q]
                                   /\ outcome'[q] = outcome[q]
      /\ key' = key
    BY OnlyItsOwn
<1>n. now' = now
    BY DEF Do, Bypass, Hit, CountHit, Join, Lead, CountMiss, FetchReturns,
        DirectReturns, FetchPanics, Close, Wake, StoreFailed, StoreOk
<1>1. CASE FetchReturns(r)
    \* The price is paid again, for data of now.
    <2>1. /\ pc[r] = "fetching" /\ call[r] = r /\ call'[r] = r
          /\ pc'[r] = "closing" /\ entries' = entries
        BY <1>1, <1>t DEF FetchReturns, Goto, CacheInv, FlightInv, cacheVars
    <2>2. Paid(r)' => outcome'[r].asOf = now
        BY <1>1, <1>t DEF FetchReturns, FnResults, Ok, Err, Paid
    <2>3. ASSUME NEW q \in Requests, q # r, Paid(q), key[q] = key[r]
          PROVE  now >= outcome[q].asOf + TTL
        <3>1. ~ Flying(q)
            BY <2>1, <2>3 DEF CacheInv, RegistryExact, Flying
        <3>2. Served(q)
            BY <2>3, <3>1 DEF SalesInv, Flying
        <3>3. key[q] \in DOMAIN entries => entries[key[q]].exp <= now
            BY <2>1, <2>3 DEF CacheInv, NoPurchaseWhileFresh, Flying
        <3>4. outcome[q].asOf \in Nat
            BY <1>t DEF Outcome
        <3>. QED
            BY <3>2, <3>3, <3>4, <1>t DEF Served
    <2>4. \A q \in Requests : q # r => (Paid(q)' <=> Paid(q))
                                       /\ (Served(q)' <=> Served(q))
        BY <1>o, <1>n, <2>1 DEF Paid, Served
    <2>5. BoughtOncePerTTL'
        <3> SUFFICES ASSUME NEW p \in Requests, NEW q \in Requests, p # q,
                            Paid(p)', Paid(q)', key[p] = key[q]
                     PROVE  \/ outcome'[p].asOf - outcome'[q].asOf >= TTL
                            \/ outcome'[q].asOf - outcome'[p].asOf >= TTL
            BY <1>o DEF BoughtOncePerTTL, Paid
        <3>0. \A g \in Requests : outcome[g].asOf \in Nat
            BY <1>t DEF Outcome
        <3>1. CASE p # r /\ q # r
            BY <1>o, <2>4, <3>1 DEF SalesInv, BoughtOncePerTTL, Paid
        <3>2. CASE p = r
            <4>1. now >= outcome[q].asOf + TTL
                BY <2>3, <2>4, <3>2
            <4>. QED
                BY <1>o, <1>t, <2>2, <3>0, <3>2, <4>1
        <3>3. CASE q = r
            <4>1. now >= outcome[p].asOf + TTL
                BY <2>3, <2>4, <3>3
            <4>. QED
                BY <1>o, <1>t, <2>2, <3>0, <3>3, <4>1
        <3>. QED
            BY <3>1, <3>2, <3>3
    <2>. QED
        BY <1>o, <1>n, <1>t, <2>1, <2>2, <2>4, <2>5 DEF SalesInv
<1>2. CASE StoreOk(r)
    \* The data is served from now on; whatever is dropped was not.
    <2>1. PICK kept \in SUBSET DOMAIN entries :
            entries' = [k \in kept \cup {key[r]} |->
                           IF k = key[r]
                           THEN [asOf |-> outcome[r].asOf, exp |-> Expiry]
                           ELSE entries[k]]
        BY <1>2 DEF StoreOk
    <2>2. \A q \in Requests : Paid(q)' <=> Paid(q)
        BY <1>2 DEF StoreOk, Paid
    <2>3. ASSUME NEW k \in DOMAIN entries \ DOMAIN entries'
          PROVE  entries[k].exp <= now
        <3>1. entries' # entries
            BY <2>3
        <3>2. DropsNearestExpiry
            BY <3>1 DEF vars
        <3>. QED
            BY <3>2, NothingFreshDropped DEF CacheInv
    <2>4. ASSUME NEW q \in Requests, Paid(q),
                 key[q] = key[r] \/ pc[q] \notin {"closing", "storing"}
          PROVE  Served(q)'
        <3>0. outcome[q].asOf \in Nat /\ outcome' = outcome
            BY <1>2, <1>t DEF StoreOk, Outcome
        <3>1. CASE key[q] = key[r]
            <4>1. key[q] \in DOMAIN entries'
                    /\ entries'[key[q]].exp = now + TTL
                BY <2>1, <3>1 DEF Expiry
            <4>2. outcome[q].asOf <= now
                BY <2>4 DEF SalesInv
            <4>. QED
                BY <1>o, <1>t, <3>0, <4>1, <4>2 DEF Served
        <3>2. CASE key[q] # key[r]
            <4>1. Served(q)
                BY <2>4, <3>2 DEF SalesInv
            <4>2. CASE key[q] \in DOMAIN entries \ DOMAIN entries'
                <5>1. entries[key[q]].exp <= now
                    BY <2>3, <4>2
                <5>2. now >= outcome[q].asOf + TTL
                    BY <1>t, <3>0, <4>1, <4>2, <5>1 DEF Served
                <5>. QED
                    BY <1>n, <3>0, <5>2 DEF Served
            <4>3. CASE key[q] \in DOMAIN entries'
                <5>1. key[q] \in DOMAIN entries
                        /\ entries'[key[q]] = entries[key[q]]
                    BY <2>1, <3>2, <4>3
                <5>2. key'[q] = key[q] /\ outcome'[q] = outcome[q] /\ now' = now
                    BY <1>o, <1>n, <3>0
                <5>. QED
                    BY <4>1, <4>3, <5>1, <5>2 DEF Served
            <4>4. CASE key[q] \notin DOMAIN entries
                BY <1>n, <3>0, <4>1, <4>4 DEF Served
            <4>. QED
                BY <4>2, <4>3, <4>4
        <3>. QED
            BY <3>1, <3>2
    <2>5. outcome' = outcome /\ call' = call
        BY <1>2 DEF StoreOk
    <2>6. BoughtOncePerTTL'
        BY <1>o, <2>5 DEF SalesInv, BoughtOncePerTTL
    <2>7. ASSUME NEW q \in Requests, Paid(q)'
          PROVE  /\ outcome'[q].asOf <= now'
                 /\ pc'[q] \in {"closing", "storing"} \/ Served(q)'
        BY <1>o, <1>n, <2>2, <2>4, <2>5, <2>7 DEF SalesInv
    <2>. QED
        BY <2>6, <2>7 DEF SalesInv
<1>3. CASE ~ FetchReturns(r) /\ ~ StoreOk(r)
    \* Nothing is bought, and what is served remains so.
    <2>1. entries' = entries
        BY <1>3 DEF Do, Bypass, Hit, CountHit, Join, Lead, CountMiss,
            DirectReturns, FetchPanics, Close, Wake, StoreFailed, cacheVars
    <2>2. Paid(r)' => /\ Paid(r) /\ outcome'[r] = outcome[r]
                      /\ pc[r] \in {"closing", "storing"} =>
                            pc'[r] \in {"closing", "storing"}
        BY <1>3, <1>t, CacheAssumption
            DEF Do, Bypass, Hit, CountHit, Join, Lead, CountMiss,
                DirectReturns, FetchPanics, Close, Wake, StoreFailed,
                Storable, Return, Goto, Paid, CacheInv, FlightInv,
                RegistryExact, Registered, Flying, None
    <2>3. \A q \in Requests : Paid(q)' =>
            /\ Paid(q) /\ outcome'[q] = outcome[q]
            /\ pc[q] \in {"closing", "storing"} =>
                    pc'[q] \in {"closing", "storing"}
            /\ Served(q) => Served(q)'
        BY <1>o, <1>n, <2>1, <2>2 DEF Paid, Served
    <2>4. BoughtOncePerTTL'
        BY <1>o, <2>3 DEF SalesInv, BoughtOncePerTTL, Paid
    <2>. QED
        BY <1>n, <2>3, <2>4 DEF SalesInv
<1>. QED
    BY <1>1, <1>2, <1>3

\* While the map has room for every key, two successful fetches of a key lie
\* at least a TTL apart, whoever asks and however the flights interleave.
THEOREM BoughtOncePerTTLCorrect ==
    ASSUME IsFiniteSet(Keys), Cardinality(Keys) <= MaxEntries
    PROVE  ServiceSpec => []BoughtOncePerTTL
<1>1. Init => SalesInv
    BY CacheAssumption DEF Init, SalesInv, Paid, BoughtOncePerTTL
<1>2. CacheInv /\ TypeOK' /\ [DropsNearestExpiry]_vars /\ SalesInv
        /\ [Next]_vars => SalesInv'
    <2> SUFFICES ASSUME CacheInv, TypeOK', [DropsNearestExpiry]_vars,
                        SalesInv, [Next]_vars
                 PROVE  SalesInv'
        OBVIOUS
    <2>1. ASSUME NEW r \in Requests, Do(r)
          PROVE  SalesInv'
        BY <2>1, DoSells
    <2>2. ASSUME NEW r \in Requests, NEW k \in Keys, Begin(r, k)
          PROVE  SalesInv'
        <3>1. \A q \in Requests : Paid(q) => q # r
            BY <2>2, CacheAssumption DEF Begin, Paid, CacheInv, FlightInv
        <3>2. /\ UNCHANGED <<now, call, outcome, entries>>
              /\ \A q \in Requests \ {r} : key'[q] = key[q] /\ pc'[q] = pc[q]
            BY <2>2 DEF Begin, Goto, cacheVars, CacheInv, TypeOK
        <3>. QED
            BY <3>1, <3>2 DEF SalesInv, Paid, Served, BoughtOncePerTTL
    <2>3. CASE \/ \E r \in Requests : ClientGone(r)
               \/ UNCHANGED vars
        BY <2>3 DEF ClientGone, vars, cacheVars, SalesInv, Paid, Served,
            BoughtOncePerTTL
    <2>4. CASE Tick
        <3>1. /\ now' = now + 1 /\ now \in Nat /\ TTL \in Nat
              /\ UNCHANGED <<pc, key, call, outcome, entries>>
              /\ \A q \in Requests : outcome[q].asOf \in Nat
            BY <2>4, CacheAssumption
                DEF Tick, cacheVars, CacheInv, TypeOK, Outcome
        <3>2. \A q \in Requests : Served(q) => Served(q)'
            BY <3>1 DEF Served
        <3>. QED
            BY <3>1, <3>2 DEF SalesInv, Paid, BoughtOncePerTTL
    <2>. QED
        BY <2>1, <2>2, <2>3, <2>4 DEF Next
<1>3. SalesInv => BoughtOncePerTTL
    BY DEF SalesInv
<1>. QED
    BY <1>1, <1>2, <1>3, CacheInvCorrect, TypeCorrect,
        FreshEntriesKeptCorrect, ServiceIsOfTheCache, PTL
        DEF Spec, FreshEntriesKept
=============================================================================
