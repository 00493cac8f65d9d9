------------------------------ MODULE CostCache ------------------------------
(***************************************************************************)
(* costwatch's TTL cache with request coalescing                           *)
(* (apps/costwatch/backend/internal/costs/cache.go).                       *)
(*                                                                         *)
(* A request is one call of cache.do, made by one HTTP handler goroutine.  *)
(* Requests are used once, so a request that leads a flight also names the *)
(* inflightCall it allocates.  A step is one critical section of c.mu, or  *)
(* one effect visible to other goroutines outside it: so another goroutine *)
(* can run between the unlock and the counter, between fn's return and     *)
(* close(done), and between close(done) and the second critical section.   *)
(* The cached data is abstracted to the instant at which it was read from  *)
(* Cost Explorer.                                                          *)
(***************************************************************************)
EXTENDS Integers, FiniteSets, Functions

CONSTANTS
    Requests,     \* calls of cache.do
    Keys,         \* query shapes: "summary", "costs|DAILY|SERVICE|30", ...
    TTL,          \* cache lifetime in clock ticks; 0 disables the cache
    MaxEntries,   \* maxCacheEntries, 256 in the code
    MaxTime,      \* bound on the clock
    FnMayPanic,   \* whether fn may panic under the recover of net/http
    NoKey,        \* the key of a request that has not begun
    NoRequest     \* the flight of a request that is on none

ASSUME CacheAssumption ==
    /\ TTL \in Nat
    /\ MaxEntries \in Nat \ {0}
    /\ MaxTime \in Nat
    /\ FnMayPanic \in BOOLEAN
    /\ NoKey \notin Keys
    /\ NoRequest \notin Requests

VARIABLES
    now,        \* time.Now(), monotonic
    entries,    \* c.entries: keys to [asOf, exp]
    inflight,   \* c.inflight: keys to the request that leads the flight
    closed,     \* the leaders whose call.done is closed
    outcome,    \* call.val and call.err of the flight a request leads
    hits,       \* c.hits
    misses,     \* c.misses
    pc,         \* where each request is in cache.do
    key,        \* the key of each request
    call,       \* the flight a request waits on or leads (its leader)
    answer,     \* what cache.do returned to each request
    gone,       \* requests whose client disconnected: r.Context() is done
    floor       \* history: newest data of its key anyone had been answered
                \* when the request began

vars == <<now, entries, inflight, closed, outcome, hits, misses, pc, key,
          call, answer, gone, floor>>

cacheVars == <<entries, inflight, closed>>

Entry == [asOf : Nat, exp : Nat]

\* What fn returned: data read at asOf, an upstream error, or the error of a
\* context cancelled while the upstream call ran.
Outcome == [kind : {"none", "ok", "failed", "cancelled"}, asOf : Nat]
None == [kind |-> "none", asOf |-> 0]
Ok(t) == [kind |-> "ok", asOf |-> t]
Err(kind) == [kind |-> kind, asOf |-> 0]

PCs == {"idle", "called", "hit", "waiting", "leading", "fetching", "closing",
        "storing", "direct", "done", "panicked"}

PartialFn(f, S, T) == DOMAIN f \subseteq S /\ f \in [DOMAIN f -> T]

Init ==
    /\ now = 0
    /\ entries = [k \in {} |-> 0]
    /\ inflight = [k \in {} |-> 0]
    /\ closed = {}
    /\ outcome = [r \in Requests |-> None]
    /\ hits = 0
    /\ misses = 0
    /\ pc = [r \in Requests |-> "idle"]
    /\ key = [r \in Requests |-> NoKey]
    /\ call = [r \in Requests |-> NoRequest]
    /\ answer = [r \in Requests |-> None]
    /\ gone = {}
    /\ floor = [r \in Requests |-> 0]

Goto(r, label) == pc' = [pc EXCEPT ![r] = label]

Return(r, result) ==
    /\ Goto(r, "done")
    /\ answer' = [answer EXCEPT ![r] = result]

CachingAtZero == TTL >= 0  \* mutant: < where do has <=

\* c.ttl <= 0 turns the cache off.
Caching == TTL > 0

FreshTooShort(k) == k \in DOMAIN entries /\ now + 1 < entries[k].exp  \* mutant

\* The cached entry of k may still be served: time.Now().Before(e.exp).
Fresh(k) == k \in DOMAIN entries /\ now < entries[k].exp

RegisteredOpen(k) ==  \* mutant: a finished flight is not joined
    k \in DOMAIN inflight /\ inflight[k] \notin closed

\* A flight for k is registered, finished or not.
Registered(k) == k \in DOMAIN inflight

\* The expiry a stored entry gets.
ExpiryBackwards == now - TTL  \* mutant
Expiry == now + TTL

\* Which results are stored.
Storable(result) == result.kind = "ok"

\* The instants of the data that requests for k have been answered with.
Answered(k) ==
    {answer[r].asOf : r \in {q \in Requests : key[q] = k /\ pc[q] = "done"}}

-----------------------------------------------------------------------------
(* cache.do, first half: up to the lookup under c.mu.                      *)

\* A handler calls cache.do with some query shape.
Begin(r, k) ==
    /\ pc[r] = "idle"
    /\ Goto(r, "called")
    /\ key' = [key EXCEPT ![r] = k]
    /\ \E newest \in Answered(k) \cup {0} :
        /\ \A t \in Answered(k) : t <= newest
        /\ floor' = [floor EXCEPT ![r] = newest]
    /\ UNCHANGED <<now, cacheVars, outcome, hits, misses, call, answer, gone>>

\* c.ttl <= 0: fn runs with neither lookup nor coalescing.
Bypass(r) ==
    /\ pc[r] = "called"
    /\ ~ Caching
    /\ Goto(r, "direct")
    /\ UNCHANGED <<now, cacheVars, outcome, hits, misses, key, call, answer,
                   gone, floor>>

\* A fresh entry: its value is captured, the lock released.
Hit(r) ==
    /\ pc[r] = "called"
    /\ Caching
    /\ Fresh(key[r])
    /\ Goto(r, "hit")
    /\ outcome' = [outcome EXCEPT ![r] = Ok(entries[key[r]].asOf)]
    /\ UNCHANGED <<now, cacheVars, hits, misses, key, call, answer, gone,
                   floor>>

CountHitRereads(r) ==  \* mutant: the entry is read after the unlock
    /\ pc[r] = "hit"
    /\ hits' = hits + 1
    /\ Return(r, IF key[r] \in DOMAIN entries
                 THEN Ok(entries[key[r]].asOf) ELSE Ok(0))
    /\ UNCHANGED <<now, cacheVars, outcome, misses, key, call, gone, floor>>

\* c.hits.Add(1), after the unlock, and return.
CountHit(r) ==
    /\ pc[r] = "hit"
    /\ hits' = hits + 1
    /\ Return(r, outcome[r])
    /\ UNCHANGED <<now, cacheVars, outcome, misses, key, call, gone, floor>>

\* A flight for the key is registered: wait on its done channel.
Join(r) ==
    /\ pc[r] = "called"
    /\ Caching
    /\ ~ Fresh(key[r])
    /\ Registered(key[r])
    /\ Goto(r, "waiting")
    /\ call' = [call EXCEPT ![r] = inflight[key[r]]]
    /\ UNCHANGED <<now, cacheVars, outcome, hits, misses, key, answer, gone,
                   floor>>

\* Neither: register a flight of one's own and release the lock.
Lead(r) ==
    /\ pc[r] = "called"
    /\ Caching
    /\ ~ Fresh(key[r])
    /\ ~ Registered(key[r])
    /\ Goto(r, "leading")
    /\ call' = [call EXCEPT ![r] = r]
    /\ inflight' = [k \in DOMAIN inflight \cup {key[r]} |->
                        IF k = key[r] THEN r ELSE inflight[k]]
    /\ UNCHANGED <<now, entries, closed, outcome, hits, misses, key, answer,
                   gone, floor>>

\* c.misses.Add(1), after the unlock.
CountMiss(r) ==
    /\ pc[r] = "leading"
    /\ misses' = misses + 1
    /\ Goto(r, "fetching")
    /\ UNCHANGED <<now, cacheVars, outcome, hits, key, call, answer, gone,
                   floor>>

-----------------------------------------------------------------------------
(* fn, the upstream fetch.  It is a closure over the context of the request *)
(* that runs it, so it may fail once that request's client is gone.        *)

FnResults(r) ==
    {Ok(now), Err("failed")}
        \cup (IF r \in gone THEN {Err("cancelled")} ELSE {})

\* fn returns to the leader.
FetchReturns(r) ==
    /\ pc[r] = "fetching"
    /\ \E result \in FnResults(r) :
        outcome' = [outcome EXCEPT ![r] = result]
    /\ Goto(r, "closing")
    /\ UNCHANGED <<now, cacheVars, hits, misses, key, call, answer, gone,
                   floor>>

\* fn returns to a request that bypassed the cache.
DirectReturns(r) ==
    /\ pc[r] = "direct"
    /\ \E result \in FnResults(r) : Return(r, result)
    /\ UNCHANGED <<now, cacheVars, outcome, hits, misses, key, call, gone,
                   floor>>

\* fn panics: cache.do unwinds with nothing deferred, and net/http recovers
\* the handler's goroutine and drops its connection.
FetchPanics(r) ==
    /\ FnMayPanic
    /\ pc[r] \in {"fetching", "direct"}
    /\ Goto(r, "panicked")
    /\ UNCHANGED <<now, cacheVars, outcome, hits, misses, key, call, answer,
                   gone, floor>>

-----------------------------------------------------------------------------
(* cache.do, second half.                                                  *)

CloseAndForget(r) ==  \* mutant: deregistered before the value is stored
    /\ pc[r] = "closing"
    /\ closed' = closed \cup {r}
    /\ inflight' = Restrict(inflight, DOMAIN inflight \ {key[r]})
    /\ Goto(r, "storing")
    /\ UNCHANGED <<now, entries, outcome, hits, misses, key, call, answer,
                   gone, floor>>

\* close(call.done): the waiters may run, the flight is still registered.
Close(r) ==
    /\ pc[r] = "closing"
    /\ closed' = closed \cup {r}
    /\ Goto(r, "storing")
    /\ UNCHANGED <<now, entries, inflight, outcome, hits, misses, key, call,
                   answer, gone, floor>>

WakeEarly(r) ==  \* mutant: the result is read without waiting for it
    /\ pc[r] = "waiting"
    /\ Return(r, outcome[call[r]])
    /\ UNCHANGED <<now, cacheVars, outcome, hits, misses, key, call, gone,
                   floor>>

\* A waiter received from the closed channel.  It never looks at its own
\* context: it waits on even when its client is gone.
Wake(r) ==
    /\ pc[r] = "waiting"
    /\ call[r] \in closed
    /\ Return(r, outcome[call[r]])
    /\ UNCHANGED <<now, cacheVars, outcome, hits, misses, key, call, gone,
                   floor>>

\* sweepLocked: what may be left of the entries, as the set of kept keys.
\* Entries strictly past their expiry go first; then, while the map holds
\* MaxEntries or more, an entry nearest to expiry (ties fall by map order).
Unexpired == {k \in DOMAIN entries : entries[k].exp >= now}

SweptLoose(kept) ==  \* mutant: > where the loop has >=
    /\ kept \subseteq Unexpired
    /\ Cardinality(kept) <= MaxEntries
    /\ kept # Unexpired => Cardinality(kept) = MaxEntries
    /\ \A k \in Unexpired \ kept, l \in kept : entries[k].exp <= entries[l].exp

SweptYoungest(kept) ==  \* mutant: the comparison of the eviction reversed
    /\ kept \subseteq Unexpired
    /\ Cardinality(kept) < MaxEntries
    /\ kept # Unexpired => Cardinality(kept) = MaxEntries - 1
    /\ \A k \in Unexpired \ kept, l \in kept : entries[k].exp >= entries[l].exp

Swept(kept) ==
    /\ kept \subseteq Unexpired
    /\ Cardinality(kept) < MaxEntries
    /\ kept # Unexpired => Cardinality(kept) = MaxEntries - 1
    /\ \A k \in Unexpired \ kept, l \in kept : entries[k].exp <= entries[l].exp

StoreFailedEarlyReturn(r) ==  \* mutant: returns on error before the delete
    /\ pc[r] = "storing"
    /\ ~ Storable(outcome[r])
    /\ Return(r, outcome[r])
    /\ UNCHANGED <<now, cacheVars, outcome, hits, misses, key, call, gone,
                   floor>>

\* A failed flight is only deregistered.
StoreFailed(r) ==
    /\ pc[r] = "storing"
    /\ ~ Storable(outcome[r])
    /\ inflight' = Restrict(inflight, DOMAIN inflight \ {key[r]})
    /\ Return(r, outcome[r])
    /\ UNCHANGED <<now, entries, closed, outcome, hits, misses, key, call,
                   gone, floor>>

\* A successful one also sweeps the map and stores its value, with a lifetime
\* that starts now and not when the data was read.
StoreOk(r) ==
    /\ pc[r] = "storing"
    /\ Storable(outcome[r])
    /\ inflight' = Restrict(inflight, DOMAIN inflight \ {key[r]})
    /\ \E kept \in SUBSET DOMAIN entries :
        /\ Swept(kept)
        /\ entries' = [k \in kept \cup {key[r]} |->
                          IF k = key[r]
                          THEN [asOf |-> outcome[r].asOf, exp |-> Expiry]
                          ELSE entries[k]]
    /\ Return(r, outcome[r])
    /\ UNCHANGED <<now, closed, outcome, hits, misses, key, call, gone, floor>>

-----------------------------------------------------------------------------
(* The environment.                                                        *)

\* A client closes its connection while its request is being served.
ClientGone(r) ==
    /\ pc[r] \notin {"idle", "done", "panicked"}
    /\ r \notin gone
    /\ gone' = gone \cup {r}
    /\ UNCHANGED <<now, cacheVars, outcome, hits, misses, pc, key, call,
                   answer, floor>>

Tick ==
    /\ now < MaxTime
    /\ now' = now + 1
    /\ UNCHANGED <<cacheVars, outcome, hits, misses, pc, key, call, answer,
                   gone, floor>>

\* The steps of one goroutine inside cache.do.
Do(r) ==
    \/ Bypass(r)
    \/ Hit(r)
    \/ CountHit(r)
    \/ Join(r)
    \/ Lead(r)
    \/ CountMiss(r)
    \/ FetchReturns(r)
    \/ DirectReturns(r)
    \/ FetchPanics(r)
    \/ Close(r)
    \/ Wake(r)
    \/ StoreFailed(r)
    \/ StoreOk(r)

Next ==
    \/ \E r \in Requests :
        \/ \E k \in Keys : Begin(r, k)
        \/ Do(r)
        \/ ClientGone(r)
    \/ Tick

Spec == Init /\ [][Next]_vars

-----------------------------------------------------------------------------
(* Properties.                                                             *)

TypeOK ==
    /\ now \in Nat
    /\ PartialFn(entries, Keys, Entry)
    /\ PartialFn(inflight, Keys, Requests)
    /\ closed \subseteq Requests
    /\ outcome \in [Requests -> Outcome]
    /\ hits \in Nat
    /\ misses \in Nat
    /\ pc \in [Requests -> PCs]
    /\ key \in [Requests -> Keys \cup {NoKey}]
    /\ \A r \in Requests : pc[r] # "idle" => key[r] \in Keys
    /\ call \in [Requests -> Requests \cup {NoRequest}]
    /\ answer \in [Requests -> Outcome]
    /\ gone \subseteq Requests
    /\ floor \in [Requests -> Nat]

\* r leads a flight that is not over.
Flying(r) == pc[r] \in {"leading", "fetching", "closing", "storing"}

\* "runs fn exactly once even under concurrency" (cache.go:47): however the
\* requests interleave, no two of them buy the same key at the same time,
\* counting the time between close(done) and the second critical section.
SingleFlight ==
    \A r, q \in Requests : Flying(r) /\ Flying(q) /\ key[r] = key[q] => r = q

\* The registry says exactly who is flying: a flight stays registered until
\* its leader returns, and no failed or finished flight stays behind for later
\* requests to join (cache.go:67-76).  A panic of fn is the exception.
RegistryExact ==
    /\ \A r \in Requests :
        Flying(r) => key[r] \in DOMAIN inflight /\ inflight[key[r]] = r
    /\ \A k \in DOMAIN inflight :
        /\ key[inflight[k]] = k
        /\ Flying(inflight[k]) \/ (FnMayPanic /\ pc[inflight[k]] = "panicked")

\* The map never outgrows its hard cap (cache.go:23-26), whatever expires.
CapHolds == Cardinality(DOMAIN entries) <= MaxEntries

\* Nobody pays for a key whose cached value could still be served: while a
\* flight of the key is in the air its entry, if any, has expired
\* (cache.go:9-12, 56).
NoPurchaseWhileFresh ==
    \A r \in Requests :
        Flying(r) /\ key[r] \in DOMAIN entries => entries[key[r]].exp <= now

\* Time does not run backwards for a dashboard: a request is never answered
\* with older data than any request for its key had been answered with before
\* it began, though a flight is closed before its value is stored
\* (cache.go:73-79).
MonotonicReads ==
    \A r \in Requests :
        pc[r] = "done" /\ answer[r].kind = "ok" => answer[r].asOf >= floor[r]

\* Everyone on a flight returns what its leader's fn returned, and a request
\* fails with a cancellation only when the client of the leader, which need
\* not be its own, is gone (cache.go:61-65, 72; service.go:77-79).
FlightAgreement ==
    \A r \in Requests : pc[r] = "done" /\ call[r] # NoRequest =>
        /\ answer[r] = outcome[call[r]]
        /\ answer[r].kind # "none"
        /\ answer[r].kind = "cancelled" => call[r] \in gone

\* With the cache off every request meets its own fate: whoever else asks the
\* same at the same time, it buys for itself and is cancelled by nobody's client
\* but its own (cache.go:50-53).
OwnFateWhenOff ==
    TTL = 0 =>
        \A r \in Requests : pc[r] = "done" =>
            /\ call[r] = NoRequest
            /\ answer[r].kind \in {"ok", "failed", "cancelled"}
            /\ answer[r].kind = "cancelled" => r \in gone

\* An unexpired entry is dropped only to make room, when the map is full, and
\* only one that expires no later than every entry kept (cache.go:86-105).
DropsNearestExpiry ==
    \A k \in DOMAIN entries \ DOMAIN entries' :
        entries[k].exp > now =>
            /\ Cardinality(DOMAIN entries') = MaxEntries
            /\ \A l \in DOMAIN entries \cap DOMAIN entries' :
                entries'[l] = entries[l] => entries[k].exp <= entries[l].exp

FreshEntriesKept == [][DropsNearestExpiry]_vars

\* r waits on a flight whose fn panicked: nothing in do is deferred, so the
\* channel is never closed and the flight never deregistered (cache.go:72-76).
Wedged(r) == pc[r] = "waiting" /\ pc[call[r]] = "panicked"
=============================================================================
