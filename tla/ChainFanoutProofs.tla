-------------------------- MODULE ChainFanoutProofs --------------------------
(***************************************************************************)
(* Proofs about the requests of sample-api, for any number of them and any *)
(* clamp and timeout: a chain that has received as often as it has calls   *)
(* has met every goroutine, and no more than that stands behind what its   *)
(* client and the metrics are told.                                        *)
(***************************************************************************)
EXTENDS ChainFanout, FiniteSetTheorems, SequenceTheorems, TLAPS

Places == {"calling", "returned", "exited"}

TypeOK ==
    /\ now \in Nat
    /\ url \in WorkerURLs
    /\ alive \in BOOLEAN
    /\ pc \in [Requests -> {"new", "working", "collecting", "written",
                            "counted", "done"}]
    /\ started \in [Requests -> Nat]
    /\ work \in [Requests -> 0 .. MaxWork]
    /\ calls \in [Requests -> Seq(Places)]
    /\ result \in [Requests -> Seq(Int)]
    /\ received \in [Requests -> Nat]
    /\ code \in [Requests -> Codes]
    /\ gone \subseteq Requests
    /\ inflight \in Int
    /\ total \in [Codes -> Nat]

-----------------------------------------------------------------------------
(* Counting the goroutines that are gone.                                  *)

Gone(s) == {i \in 1 .. Len(s) : s[i] = "exited"}
Exited(s) == Cardinality(Gone(s))

\* The goroutines of a chain are finitely many, those that are gone at most all.
LEMMA GoneFinite ==
    ASSUME NEW s \in Seq(Places)
    PROVE  /\ IsFiniteSet(Gone(s))
           /\ Exited(s) \in Nat
           /\ Exited(s) = Len(s) => Gone(s) = 1 .. Len(s)
<1>1. Len(s) \in Nat
    OBVIOUS
<1>2. IsFiniteSet(1 .. Len(s)) /\ Cardinality(1 .. Len(s)) = Len(s)
    BY <1>1, FS_Interval
<1>3. Gone(s) \in SUBSET (1 .. Len(s))
    BY DEF Gone
<1>4. IsFiniteSet(Gone(s))
    BY <1>2, <1>3, FS_Subset
<1>5. Cardinality(1 .. Len(s)) = Cardinality(Gone(s)) => 1 .. Len(s) = Gone(s)
    BY <1>2, <1>3, FS_Subset
<1>. QED
    BY <1>2, <1>4, <1>5, FS_CardinalityType DEF Exited

\* All are gone exactly when as many are gone as there are calls: what the
\* handler's count of receives tells it.
LEMMA AllGone ==
    ASSUME NEW s \in Seq(Places)
    PROVE  Exited(s) = Len(s) <=> \A i \in DOMAIN s : s[i] = "exited"
<1>1. Len(s) \in Nat /\ DOMAIN s = 1 .. Len(s)
    OBVIOUS
<1>2. Exited(s) = Len(s) => \A i \in DOMAIN s : s[i] = "exited"
    BY <1>1, GoneFinite DEF Gone
<1>3. ASSUME \A i \in DOMAIN s : s[i] = "exited"
      PROVE  Exited(s) = Len(s)
    <2>1. Gone(s) = 1 .. Len(s)
        BY <1>1, <1>3 DEF Gone
    <2>. QED
        BY <1>1, <2>1, FS_Interval DEF Exited
<1>. QED
    BY <1>2, <1>3

\* A goroutine that leaves makes the count one larger.
LEMMA OneMoreGone ==
    ASSUME NEW s \in Seq(Places), NEW i \in DOMAIN s, s[i] # "exited"
    PROVE  Exited([s EXCEPT ![i] = "exited"]) = Exited(s) + 1
<1> DEFINE t == [s EXCEPT ![i] = "exited"]
<1>1. t \in Seq(Places) /\ Len(t) = Len(s) /\ i \in 1 .. Len(s)
    BY DEF Places
<1>2. Gone(t) = Gone(s) \cup {i}
    BY <1>1 DEF Gone
<1>3. i \notin Gone(s)
    BY DEF Gone
<1>. QED
    BY <1>2, <1>3, GoneFinite, FS_AddElement DEF Exited

\* A call that returns to its goroutine leaves the count alone.
LEMMA NoneGone ==
    ASSUME NEW s \in Seq(Places), NEW i \in DOMAIN s, s[i] # "exited"
    PROVE  Exited([s EXCEPT ![i] = "returned"]) = Exited(s)
<1> DEFINE t == [s EXCEPT ![i] = "returned"]
<1>1. t \in Seq(Places) /\ Len(t) = Len(s)
    BY DEF Places
<1>2. Gone(t) = Gone(s)
    BY <1>1 DEF Gone
<1>. QED
    BY <1>2 DEF Exited

\* No goroutine is gone before it has run.
LEMMA FreshFanout ==
    ASSUME NEW n \in Nat
    PROVE  LET s == [i \in 1 .. n |-> "calling"]
           IN  s \in Seq(Places) /\ Len(s) = n /\ Exited(s) = 0
<1> DEFINE s == [i \in 1 .. n |-> "calling"]
<1>1. s \in Seq(Places) /\ Len(s) = n
    BY DEF Places
<1>2. Gone(s) = {}
    BY <1>1 DEF Gone
<1>3. Exited(s) = 0
    BY <1>2, FS_EmptySet DEF Exited
<1>. QED
    BY <1>1, <1>3

\* The clamp keeps a value within its bounds.
LEMMA ClampRange ==
    ASSUME NEW v \in Int, NEW min \in Int, NEW max \in Int, min <= max
    PROVE  Clamp(v, min, max) \in min .. max
BY DEF Clamp

-----------------------------------------------------------------------------
(* The fan-out.                                                            *)

\* What the results array and the count of receives stand for, wherever the
\* handler is.
FanoutOf(r) ==
    /\ Len(result[r]) = Len(calls[r])
    /\ received[r] = Exited(calls[r])
    /\ pc[r] \in {"new", "working"} => calls[r] = << >>
    /\ \A i \in DOMAIN calls[r] :
        calls[r][i] # "calling" => result[r][i] # Unwritten
    /\ Answered(r) =>
        /\ \A i \in DOMAIN calls[r] : calls[r][i] = "exited"
        /\ code[r] = 200 => \A i \in DOMAIN result[r] : result[r][i] = 200

\* How late it can be for a handler, and for a call that succeeded.
TimelyOf(r) ==
    /\ alive => /\ pc[r] = "working" => now <= started[r] + work[r]
                /\ pc[r] = "collecting" => now <= started[r] + ClientTimeout
    /\ \A i \in DOMAIN result[r] :
        result[r][i] = 200 => work[r] <= ClientTimeout

FanoutInv ==
    /\ TypeOK
    /\ \A r \in Requests : FanoutOf(r) /\ TimelyOf(r)

\* Writing a status keeps the types of what it writes.
LEMMA WriteTyped ==
    ASSUME TypeOK, NEW r \in Requests, NEW status \in Codes, Write(r, status)
    PROVE  /\ pc' \in [Requests -> {"new", "working", "collecting", "written",
                                    "counted", "done"}]
           /\ code' \in [Requests -> Codes]
BY DEF TypeOK, Write, Goto

\* Every step keeps the types.
LEMMA FanoutTyped == TypeOK /\ [Next]_vars => TypeOK'
<1> SUFFICES ASSUME TypeOK, [Next]_vars
             PROVE  TypeOK'
    OBVIOUS
<1>a. /\ {MaxWork, ClientTimeout, MaxTime} \subseteq Nat
      /\ MaxChainCalls \in Nat \ {0}
      /\ CallCounts \subseteq Int /\ Works \subseteq Int
    BY ChainAssumption
<1>t. TypeOK
    OBVIOUS
<1>1. ASSUME NEW r \in Requests, Root(r)
      PROVE  TypeOK'
    <2>1. PICK status \in {200, 404} : Write(r, status)
        BY <1>1 DEF Root
    <2>2. status \in Codes
        BY <2>1 DEF Codes
    <2>3. /\ pc' \in [Requests -> {"new", "working", "collecting", "written",
                                   "counted", "done"}]
          /\ code' \in [Requests -> Codes]
        BY <1>t, <2>1, <2>2, WriteTyped
    <2>. QED
        BY <1>1, <1>t, <2>3 DEF Root, Enter, TypeOK, fanout
<1>2. ASSUME NEW r \in Requests, NEW ms \in Works, Work(r, ms)
      PROVE  TypeOK'
    <2>1. Clamp(ms, 0, MaxWork) \in 0 .. MaxWork
        BY <1>a, ClampRange
    <2>. QED
        BY <1>2, <1>t, <2>1 DEF Work, Enter, Goto, TypeOK, fanout
<1>3. ASSUME NEW r \in Requests, WorkEnds(r)
      PROVE  TypeOK'
    <2>1. PICK status \in {200, 500} : Write(r, status)
        BY <1>3 DEF WorkEnds
    <2>2. status \in Codes
        BY <2>1 DEF Codes
    <2>3. /\ pc' \in [Requests -> {"new", "working", "collecting", "written",
                                   "counted", "done"}]
          /\ code' \in [Requests -> Codes]
        BY <1>t, <2>1, <2>2, WriteTyped
    <2>. QED
        BY <1>3, <1>t, <2>3
            DEF WorkEnds, TypeOK, request, fanout, metrics
<1>4. ASSUME NEW r \in Requests, ChainUnconfigured(r)
      PROVE  TypeOK'
    <2>1. Write(r, 503)
        BY <1>4 DEF ChainUnconfigured
    <2>2. 503 \in Codes
        BY <2>1 DEF Codes
    <2>3. /\ pc' \in [Requests -> {"new", "working", "collecting", "written",
                                   "counted", "done"}]
          /\ code' \in [Requests -> Codes]
        BY <1>t, <2>1, <2>2, WriteTyped
    <2>. QED
        BY <1>4, <1>t, <2>3
            DEF ChainUnconfigured, Enter, TypeOK, fanout
<1>5. ASSUME NEW r \in Requests, NEW n \in CallCounts, NEW ms \in Works,
             Chain(r, n, ms)
      PROVE  TypeOK'
    <2> DEFINE c == Clamp(n, 1, MaxChainCalls)
    <2>1. Clamp(ms, 0, MaxWork) \in 0 .. MaxWork
        BY <1>a, ClampRange
    <2>5. c \in 1 .. MaxChainCalls
        <3>1. n \in Int /\ MaxChainCalls \in Int /\ 1 <= MaxChainCalls
            BY <1>a
        <3>2. Clamp(n, 1, MaxChainCalls) \in 1 .. MaxChainCalls
            BY <3>1 DEF Clamp
        <3>. QED
            BY <3>2 DEF c
    <2>6. c \in Nat
        BY <2>5, <1>a
    <2>2. [i \in 1 .. c |-> "calling"] \in Seq(Places)
        BY <2>6, FreshFanout
    <2>3. [i \in 1 .. c |-> Unwritten] \in Seq(Int)
        BY <2>6 DEF Unwritten
    <2> HIDE DEF c
    <2>4. /\ calls' = [calls EXCEPT ![r] = [i \in 1 .. c |-> "calling"]]
          /\ result' = [result EXCEPT ![r] = [i \in 1 .. c |-> Unwritten]]
        BY <1>5 DEF Chain, c
    <2>7. /\ calls' \in [Requests -> Seq(Places)]
          /\ result' \in [Requests -> Seq(Int)]
        BY <1>t, <2>2, <2>3, <2>4 DEF TypeOK
    <2>. QED
        BY <1>5, <1>t, <2>1, <2>7 DEF Chain, Enter, Goto, TypeOK
<1>6. ASSUME NEW r \in Requests, NEW i \in DOMAIN calls[r], CallPanics(r, i)
      PROVE  TypeOK'
    BY <1>6, <1>t DEF CallPanics, TypeOK, request, fanout, metrics
<1>7. ASSUME NEW r \in Requests, NEW i \in DOMAIN calls[r], CallReturns(r, i)
      PROVE  TypeOK'
    <2>1. calls' \in [Requests -> Seq(Places)]
        BY <1>7, <1>t DEF CallReturns, TypeOK, Places
    <2>2. PICK status \in {Failed, 503} \cup (IF WorkHadTime(r) THEN {200} ELSE {}) :
            result' = [result EXCEPT ![r][i] = status]
        BY <1>7 DEF CallReturns
    <2>3. status \in Int
        BY <2>2 DEF Failed
    <2>5. [result[r] EXCEPT ![i] = status] \in Seq(Int)
        <3>1. result[r] \in Seq(Int)
            BY <1>t DEF TypeOK
        <3>2. Len(result[r]) \in Nat /\ result[r] \in [1 .. Len(result[r]) -> Int]
            BY <3>1
        <3>3. [result[r] EXCEPT ![i] = status] \in [1 .. Len(result[r]) -> Int]
            BY <2>3, <3>2
        <3>. QED
            BY <3>2, <3>3
    <2>4. result' \in [Requests -> Seq(Int)]
        BY <1>t, <2>2, <2>5 DEF TypeOK
    <2>. QED
        BY <1>7, <1>t, <2>1, <2>4 DEF CallReturns, TypeOK, request, metrics
<1>8. ASSUME NEW r \in Requests, NEW i \in DOMAIN calls[r], Signal(r, i)
      PROVE  TypeOK'
    <2>1. calls' \in [Requests -> Seq(Places)]
        BY <1>8, <1>t DEF Signal, TypeOK, Places
    <2>. QED
        BY <1>8, <1>t, <2>1 DEF Signal, TypeOK, request, metrics
<1>9. ASSUME NEW r \in Requests, Respond(r)
      PROVE  TypeOK'
    <2>1. PICK status \in {200, 502} : Write(r, status)
        BY <1>9 DEF Respond
    <2>2. status \in Codes
        BY <2>1 DEF Codes
    <2>3. /\ pc' \in [Requests -> {"new", "working", "collecting", "written",
                                   "counted", "done"}]
          /\ code' \in [Requests -> Codes]
        BY <1>t, <2>1, <2>2, WriteTyped
    <2>. QED
        BY <1>9, <1>t, <2>3
            DEF Respond, TypeOK, request, fanout, metrics
<1>10. ASSUME NEW r \in Requests, Count(r)
       PROVE  TypeOK'
    BY <1>10, <1>t DEF Count, Goto, TypeOK, request, fanout
<1>11. ASSUME NEW r \in Requests, Leave(r)
       PROVE  TypeOK'
    BY <1>11, <1>t, <1>a DEF Leave, Goto, TypeOK, fanout
<1>12. ASSUME NEW r \in Requests, ClientGone(r)
       PROVE  TypeOK'
    BY <1>12, <1>t DEF ClientGone, TypeOK, request, fanout, metrics
<1>13. CASE Tick
    BY <1>13, <1>t DEF Tick, TypeOK, request, fanout, metrics
<1>14. CASE UNCHANGED vars
    BY <1>14, <1>t DEF vars, TypeOK
<1>. QED
    BY <1>1, <1>2, <1>3, <1>4, <1>5, <1>6, <1>7, <1>8, <1>9, <1>10, <1>11,
        <1>12, <1>13, <1>14 DEF Next, Serve

\* A request that a step leaves alone, at the same time.
Same(q) ==
    /\ now' = now
    /\ alive' => alive
    /\ pc'[q] = pc[q]
    /\ started'[q] = started[q]
    /\ work'[q] = work[q]
    /\ calls'[q] = calls[q]
    /\ result'[q] = result[q]
    /\ received'[q] = received[q]
    /\ code'[q] = code[q]

\* What holds of a request holds of it after a step that leaves it alone.
LEMMA FanoutSame ==
    ASSUME NEW q, FanoutOf(q), TimelyOf(q), Same(q)
    PROVE  FanoutOf(q)' /\ TimelyOf(q)'
BY DEF Same, FanoutOf, TimelyOf, Answered

\* A request that enters has no chain, so nothing stands behind what it writes.
LEMMA PlainKept ==
    ASSUME FanoutInv, NEW r \in Requests, TypeOK',
           now' = now, calls'[r] = calls[r], result'[r] = result[r],
           received'[r] = received[r], pc[r] \in {"new", "working"},
           pc'[r] \in {"working", "written"},
           pc'[r] = "working" => now <= started'[r] + work'[r]
    PROVE  FanoutOf(r)' /\ TimelyOf(r)'
<1>1. FanoutOf(r) /\ TimelyOf(r)
    BY DEF FanoutInv
<1>2. calls[r] = << >> /\ Len(result[r]) = 0
    BY <1>1 DEF FanoutOf
<1>3. result[r] \in Seq(Int)
    BY DEF FanoutInv, TypeOK
<1>4. DOMAIN calls[r] = {} /\ DOMAIN result[r] = {}
    BY <1>2, <1>3
<1>. QED
    BY <1>1, <1>2, <1>4 DEF FanoutOf, TimelyOf, Answered

\* A chain starts with every call under way and no receive.
LEMMA ChainKept ==
    ASSUME FanoutInv, NEW r \in Requests, NEW n \in CallCounts, NEW ms \in Works,
           Chain(r, n, ms), TypeOK'
    PROVE  FanoutOf(r)' /\ TimelyOf(r)'
<1> DEFINE c == Clamp(n, 1, MaxChainCalls)
<1>1. FanoutOf(r) /\ TimelyOf(r) /\ TypeOK
    BY DEF FanoutInv
<1>2. c \in 1 .. MaxChainCalls /\ c \in Nat
    BY ChainAssumption DEF Clamp
<1>3. /\ calls'[r] = [i \in 1 .. c |-> "calling"]
      /\ result'[r] = [i \in 1 .. c |-> Unwritten]
      /\ pc[r] = "new" /\ pc'[r] = "collecting"
      /\ started'[r] = now /\ now' = now /\ received' = received
    BY <1>1 DEF Chain, Enter, Goto, TypeOK
<1> HIDE DEF c
<1>4. Len(calls'[r]) = c /\ Exited(calls'[r]) = 0
    BY <1>2, <1>3, FreshFanout
<1>5. Len(result'[r]) = c /\ DOMAIN result'[r] = 1 .. c
    BY <1>2, <1>3
<1>6. received[r] = 0
    <2>1. received[r] = Exited(<< >>)
        BY <1>1, <1>3 DEF FanoutOf
    <2>2. Gone(<< >>) = {}
        BY DEF Gone
    <2>. QED
        BY <2>1, <2>2, FS_EmptySet DEF Exited
<1>7. FanoutOf(r)'
    BY <1>3, <1>4, <1>5, <1>6 DEF FanoutOf, Answered
<1>8. TimelyOf(r)'
    <2>1. now \in Nat /\ ClientTimeout \in Nat
        BY <1>1, ChainAssumption DEF TypeOK
    <2>2. \A i \in DOMAIN result'[r] : result'[r][i] # 200
        BY <1>3, <1>5 DEF Unwritten
    <2>. QED
        BY <1>3, <2>1, <2>2 DEF TimelyOf
<1>. QED
    BY <1>7, <1>8

\* A call that returns is written, and a 200 had the time its work takes before
\* the timeout.
LEMMA ReturnKept ==
    ASSUME FanoutInv, NEW r \in Requests, NEW i \in DOMAIN calls[r],
           CallReturns(r, i), TypeOK'
    PROVE  FanoutOf(r)' /\ TimelyOf(r)'
<1>1. FanoutOf(r) /\ TimelyOf(r) /\ TypeOK
    BY DEF FanoutInv
<1>2. PICK status \in {Failed, 503}
                    \cup (IF WorkHadTime(r) THEN {200} ELSE {}) :
        /\ TimedOut(r) \/ r \in gone => status = Failed
        /\ result' = [result EXCEPT ![r][i] = status]
    BY DEF CallReturns
<1>3. /\ calls[r] \in Seq(Places) /\ result[r] \in Seq(Int)
      /\ Len(result[r]) = Len(calls[r])
    BY <1>1 DEF TypeOK, FanoutOf
<1>4. /\ calls[r][i] = "calling"
      /\ calls'[r] = [calls[r] EXCEPT ![i] = "returned"]
      /\ result'[r] = [result[r] EXCEPT ![i] = status]
      /\ pc' = pc /\ now' = now /\ alive' = alive /\ started' = started
      /\ work' = work /\ received' = received /\ code' = code
    <2>1. calls \in [Requests -> Seq(Places)] /\ result \in [Requests -> Seq(Int)]
        BY <1>1 DEF TypeOK
    <2>2. calls[r][i] = "calling" /\ calls'[r] = [calls[r] EXCEPT ![i] = "returned"]
        BY <2>1 DEF CallReturns
    <2>3. result'[r] = [result[r] EXCEPT ![i] = status]
        BY <1>2, <2>1
    <2>. QED
        BY <2>2, <2>3 DEF CallReturns, request
<1>5. /\ DOMAIN result[r] = DOMAIN calls[r]
      /\ DOMAIN calls'[r] = DOMAIN calls[r]
      /\ DOMAIN result'[r] = DOMAIN result[r]
      /\ Len(calls'[r]) = Len(calls[r]) /\ Len(result'[r]) = Len(result[r])
    BY <1>3, <1>4
<1>6. status # Unwritten
    BY <1>2 DEF Failed, Unwritten
<1>7. Exited(calls'[r]) = Exited(calls[r])
    BY <1>3, <1>4, NoneGone
<1>8. ~ Answered(r) /\ calls[r] # << >>
    BY <1>1, <1>3, <1>4 DEF FanoutOf
<1>9. FanoutOf(r)'
    <2>1. \A j \in DOMAIN calls'[r] :
            calls'[r][j] # "calling" => result'[r][j] # Unwritten
        BY <1>1, <1>3, <1>4, <1>5, <1>6 DEF FanoutOf
    <2>. QED
        BY <1>1, <1>3, <1>4, <1>5, <1>7, <1>8, <2>1 DEF FanoutOf, Answered
<1>10. status = 200 => work[r] <= ClientTimeout
    <2>1. /\ now \in Nat /\ started[r] \in Nat /\ work[r] \in Nat
          /\ ClientTimeout \in Nat
        BY <1>1, ChainAssumption DEF TypeOK
    <2>2. status = 200 => ~ TimedOut(r) /\ WorkHadTime(r)
        BY <1>2 DEF Failed
    <2>. QED
        BY <2>1, <2>2 DEF TimedOut, WorkHadTime
<1>11. TimelyOf(r)'
    BY <1>1, <1>3, <1>4, <1>5, <1>10 DEF TimelyOf
<1>. QED
    BY <1>9, <1>11

\* A goroutine whose send meets a receive is gone and counted.
LEMMA SignalKept ==
    ASSUME FanoutInv, NEW r \in Requests, NEW i \in DOMAIN calls[r],
           Signal(r, i), TypeOK'
    PROVE  FanoutOf(r)' /\ TimelyOf(r)'
<1>1. FanoutOf(r) /\ TimelyOf(r) /\ TypeOK
    BY DEF FanoutInv
<1>2. /\ calls[r] \in Seq(Places) /\ received[r] \in Nat
      /\ Len(result[r]) = Len(calls[r])
    BY <1>1 DEF TypeOK, FanoutOf
<1>3. /\ calls[r][i] = "returned"
      /\ calls'[r] = [calls[r] EXCEPT ![i] = "exited"]
      /\ received'[r] = received[r] + 1
      /\ result' = result /\ pc' = pc /\ now' = now /\ alive' = alive
      /\ started' = started /\ work' = work /\ code' = code
      /\ pc[r] = "collecting"
    BY <1>1 DEF Signal, TypeOK, request
<1>4. /\ DOMAIN calls'[r] = DOMAIN calls[r]
      /\ Len(calls'[r]) = Len(calls[r])
    BY <1>2, <1>3
<1>5. Exited(calls'[r]) = Exited(calls[r]) + 1
    BY <1>2, <1>3, OneMoreGone
<1>6. \A j \in DOMAIN calls'[r] :
        calls'[r][j] # "calling" => result'[r][j] # Unwritten
    BY <1>1, <1>2, <1>3, <1>4 DEF FanoutOf
<1>7. FanoutOf(r)'
    BY <1>1, <1>2, <1>3, <1>4, <1>5, <1>6 DEF FanoutOf, Answered
<1>8. TimelyOf(r)'
    BY <1>1, <1>3 DEF TimelyOf
<1>. QED
    BY <1>7, <1>8

\* A chain that has received once per call has met every goroutine.
LEMMA RespondKept ==
    ASSUME FanoutInv, NEW r \in Requests, Respond(r), TypeOK'
    PROVE  FanoutOf(r)' /\ TimelyOf(r)'
<1>1. FanoutOf(r) /\ TimelyOf(r) /\ TypeOK
    BY DEF FanoutInv
<1>2. calls[r] \in Seq(Places) /\ received[r] = Len(calls[r])
    BY <1>1 DEF TypeOK, Respond, Collected
<1>3. \A i \in DOMAIN calls[r] : calls[r][i] = "exited"
    BY <1>1, <1>2, AllGone DEF FanoutOf
<1>4. /\ calls' = calls /\ received' = received /\ result' = result
      /\ now' = now /\ alive' = alive /\ started' = started /\ work' = work
      /\ pc'[r] = "written"
      /\ code'[r] = IF \A i \in DOMAIN result[r] : result[r][i] = 200
                    THEN 200 ELSE 502
    BY <1>1 DEF Respond, Write, Goto, TypeOK, request, fanout
<1>5. code'[r] = 200 => \A i \in DOMAIN result[r] : result[r][i] = 200
    BY <1>4
<1>6. FanoutOf(r)'
    BY <1>1, <1>3, <1>4, <1>5 DEF FanoutOf, Answered
<1>7. TimelyOf(r)'
    BY <1>1, <1>4 DEF TimelyOf
<1>. QED
    BY <1>6, <1>7

\* Time passes no timeout that is due: a chain at its timeout has calls to end,
\* sends to receive or results to answer with.
LEMMA TickKept ==
    ASSUME FanoutInv, Tick, NEW r \in Requests
    PROVE  FanoutOf(r)' /\ TimelyOf(r)'
<1>1. FanoutOf(r) /\ TimelyOf(r) /\ TypeOK
    BY DEF FanoutInv
<1>2. /\ pc' = pc /\ calls' = calls /\ received' = received
      /\ result' = result /\ alive' = alive /\ started' = started
      /\ work' = work /\ code' = code /\ now' = now + 1
    BY DEF Tick, request, fanout
<1>3. FanoutOf(r)'
    BY <1>1, <1>2 DEF FanoutOf, Answered
<1>4. /\ now \in Nat /\ started[r] \in Nat /\ work[r] \in Nat
      /\ ClientTimeout \in Nat /\ calls[r] \in Seq(Places)
    BY <1>1, ChainAssumption DEF TypeOK
<1>5. CASE ~ alive
    BY <1>1, <1>2, <1>3, <1>5 DEF TimelyOf
<1>6. CASE alive
    <2>1. ~ Overdue(r)
        BY <1>6 DEF Tick
    <2>2. pc[r] = "working" => now + 1 <= started[r] + work[r]
        BY <1>4, <2>1 DEF Overdue, WorkHadTime
    <2>3. ASSUME pc[r] = "collecting"
          PROVE  now + 1 <= started[r] + ClientTimeout
        <3>1. received[r] # Len(calls[r])
            BY <2>1, <2>3 DEF Overdue, Collected
        <3>2. PICK i \in DOMAIN calls[r] : calls[r][i] # "exited"
            BY <1>1, <1>4, <3>1, AllGone DEF FanoutOf
        <3>3. calls[r][i] = "calling"
            <4>1. calls[r][i] \in Places
                BY <1>4
            <4>. QED
                BY <2>1, <2>3, <3>2, <4>1 DEF Overdue, Places
        <3>4. ~ TimedOut(r)
            BY <2>1, <3>3 DEF Overdue
        <3>. QED
            BY <1>4, <3>4 DEF TimedOut
    <2>. QED
        BY <1>1, <1>2, <1>3, <2>2, <2>3 DEF TimelyOf
<1>. QED
    BY <1>5, <1>6

\* FanoutInv is inductive.
LEMMA FanoutStep == FanoutInv /\ [Next]_vars => FanoutInv'
<1> SUFFICES ASSUME FanoutInv, [Next]_vars
             PROVE  FanoutInv'
    OBVIOUS
<1>t. TypeOK /\ TypeOK'
    BY FanoutTyped DEF FanoutInv
<1>q. \A q \in Requests : FanoutOf(q) /\ TimelyOf(q)
    BY DEF FanoutInv
<1>n. now \in Nat /\ MaxWork \in Nat /\ Works \subseteq Int
    BY <1>t, ChainAssumption DEF TypeOK
<1>1. ASSUME NEW r \in Requests, NEW q \in Requests,
             q # r => Same(q), FanoutOf(r)' /\ TimelyOf(r)'
      PROVE  FanoutOf(q)' /\ TimelyOf(q)'
    BY <1>1, <1>q, FanoutSame
<1>2. ASSUME NEW r \in Requests, Root(r), NEW q \in Requests
      PROVE  FanoutOf(q)' /\ TimelyOf(q)'
    <2>1. q # r => Same(q)
        BY <1>2, <1>t DEF Root, Enter, Write, Goto, TypeOK, fanout, Same
    <2>2. FanoutOf(r)' /\ TimelyOf(r)'
        <3>1. /\ now' = now /\ calls' = calls /\ result' = result
              /\ received' = received /\ pc[r] = "new" /\ pc'[r] = "written"
            BY <1>2, <1>t DEF Root, Enter, Write, Goto, TypeOK, fanout
        <3>. QED
            BY <1>t, <3>1, PlainKept
    <2>. QED
        BY <1>1, <2>1, <2>2
<1>3. ASSUME NEW r \in Requests, NEW ms \in Works, Work(r, ms),
             NEW q \in Requests
      PROVE  FanoutOf(q)' /\ TimelyOf(q)'
    <2>1. q # r => Same(q)
        BY <1>3, <1>t DEF Work, Enter, Goto, TypeOK, fanout, Same
    <2>2. FanoutOf(r)' /\ TimelyOf(r)'
        <3>1. /\ now' = now /\ calls' = calls /\ result' = result
              /\ received' = received /\ pc[r] = "new" /\ pc'[r] = "working"
              /\ started'[r] = now
            BY <1>3, <1>t DEF Work, Enter, Goto, TypeOK, fanout
        <3>2. work'[r] \in 0 .. MaxWork
            BY <1>t DEF TypeOK
        <3>3. now <= started'[r] + work'[r]
            BY <1>n, <3>1, <3>2
        <3>. QED
            BY <1>t, <3>1, <3>3, PlainKept
    <2>. QED
        BY <1>1, <2>1, <2>2
<1>4. ASSUME NEW r \in Requests, WorkEnds(r), NEW q \in Requests
      PROVE  FanoutOf(q)' /\ TimelyOf(q)'
    <2>1. q # r => Same(q)
        BY <1>4, <1>t
            DEF WorkEnds, Write, Goto, TypeOK, request, fanout, metrics, Same
    <2>2. FanoutOf(r)' /\ TimelyOf(r)'
        <3>1. /\ now' = now /\ calls' = calls /\ result' = result
              /\ received' = received /\ pc[r] = "working" /\ pc'[r] = "written"
            BY <1>4, <1>t DEF WorkEnds, Write, Goto, TypeOK, fanout
        <3>. QED
            BY <1>t, <3>1, PlainKept
    <2>. QED
        BY <1>1, <2>1, <2>2
<1>5. ASSUME NEW r \in Requests, ChainUnconfigured(r), NEW q \in Requests
      PROVE  FanoutOf(q)' /\ TimelyOf(q)'
    <2>1. q # r => Same(q)
        BY <1>5, <1>t
            DEF ChainUnconfigured, Enter, Write, Goto, TypeOK, fanout, Same
    <2>2. FanoutOf(r)' /\ TimelyOf(r)'
        <3>1. /\ now' = now /\ calls' = calls /\ result' = result
              /\ received' = received /\ pc[r] = "new" /\ pc'[r] = "written"
            BY <1>5, <1>t
                DEF ChainUnconfigured, Enter, Write, Goto, TypeOK, fanout
        <3>. QED
            BY <1>t, <3>1, PlainKept
    <2>. QED
        BY <1>1, <2>1, <2>2
<1>6. ASSUME NEW r \in Requests, NEW n \in CallCounts, NEW ms \in Works,
             Chain(r, n, ms), NEW q \in Requests
      PROVE  FanoutOf(q)' /\ TimelyOf(q)'
    <2>1. q # r => Same(q)
        BY <1>6, <1>t DEF Chain, Enter, Goto, TypeOK, Same
    <2>. QED
        BY <1>1, <1>6, <1>t, <2>1, ChainKept
<1>7. ASSUME NEW r \in Requests, NEW i \in DOMAIN calls[r], CallPanics(r, i),
             NEW q \in Requests
      PROVE  FanoutOf(q)' /\ TimelyOf(q)'
    <2>1. Same(q)
        BY <1>7 DEF CallPanics, request, fanout, metrics, Same
    <2>. QED
        BY <1>q, <2>1, FanoutSame
<1>8. ASSUME NEW r \in Requests, NEW i \in DOMAIN calls[r], CallReturns(r, i),
             NEW q \in Requests
      PROVE  FanoutOf(q)' /\ TimelyOf(q)'
    <2>1. q # r => Same(q)
        <3>1. q # r => calls'[q] = calls[q]
            BY <1>8, <1>t DEF CallReturns, TypeOK
        <3>2. q # r => result'[q] = result[q]
            BY <1>8, <1>t DEF CallReturns, TypeOK
        <3>. QED
            BY <1>8, <3>1, <3>2 DEF CallReturns, request, Same
    <2>. QED
        BY <1>1, <1>8, <1>t, <2>1, ReturnKept
<1>9. ASSUME NEW r \in Requests, NEW i \in DOMAIN calls[r], Signal(r, i),
             NEW q \in Requests
      PROVE  FanoutOf(q)' /\ TimelyOf(q)'
    <2>1. q # r => Same(q)
        BY <1>9, <1>t DEF Signal, TypeOK, request, Same
    <2>. QED
        BY <1>1, <1>9, <1>t, <2>1, SignalKept
<1>10. ASSUME NEW r \in Requests, Respond(r), NEW q \in Requests
       PROVE  FanoutOf(q)' /\ TimelyOf(q)'
    <2>1. q # r => Same(q)
        BY <1>10, <1>t DEF Respond, Write, Goto, TypeOK, request, fanout, Same
    <2>. QED
        BY <1>1, <1>10, <1>t, <2>1, RespondKept
<1>11. ASSUME NEW r \in Requests, Count(r), NEW q \in Requests
       PROVE  FanoutOf(q)' /\ TimelyOf(q)'
    <2>1. q # r => Same(q)
        BY <1>11, <1>t DEF Count, Goto, TypeOK, request, fanout, Same
    <2>2. FanoutOf(r)' /\ TimelyOf(r)'
        BY <1>11, <1>t, <1>q DEF Count, Goto, TypeOK, request, fanout,
            FanoutOf, TimelyOf, Answered
    <2>. QED
        BY <1>1, <2>1, <2>2
<1>12. ASSUME NEW r \in Requests, Leave(r), NEW q \in Requests
       PROVE  FanoutOf(q)' /\ TimelyOf(q)'
    <2>1. q # r => Same(q)
        BY <1>12, <1>t DEF Leave, Goto, TypeOK, fanout, Same
    <2>2. FanoutOf(r)' /\ TimelyOf(r)'
        <3>1. /\ calls' = calls /\ result' = result /\ received' = received
              /\ code' = code /\ pc[r] = "counted" /\ pc'[r] = "done"
              /\ work'[r] = 0 /\ ClientTimeout \in Nat
            BY <1>12, <1>t, ChainAssumption DEF Leave, Goto, TypeOK, fanout
        <3>. QED
            BY <1>q, <3>1 DEF FanoutOf, TimelyOf, Answered
    <2>. QED
        BY <1>1, <2>1, <2>2
<1>13. ASSUME NEW r \in Requests, ClientGone(r), NEW q \in Requests
       PROVE  FanoutOf(q)' /\ TimelyOf(q)'
    <2>1. Same(q)
        BY <1>13 DEF ClientGone, request, fanout, metrics, Same
    <2>. QED
        BY <1>q, <2>1, FanoutSame
<1>14. ASSUME Tick, NEW q \in Requests
       PROVE  FanoutOf(q)' /\ TimelyOf(q)'
    BY <1>14, TickKept
<1>15. ASSUME UNCHANGED vars, NEW q \in Requests
       PROVE  FanoutOf(q)' /\ TimelyOf(q)'
    <2>1. Same(q)
        BY <1>15 DEF vars, Same
    <2>. QED
        BY <1>q, <2>1, FanoutSame
<1>16. ASSUME NEW q \in Requests
       PROVE  FanoutOf(q)' /\ TimelyOf(q)'
    BY <1>2, <1>3, <1>4, <1>5, <1>6, <1>7, <1>8, <1>9, <1>10, <1>11, <1>12,
        <1>13, <1>14, <1>15 DEF Next, Serve
<1>. QED
    BY <1>t, <1>16 DEF FanoutInv

\* No request has come yet.
LEMMA FanoutStart == Init => FanoutInv
<1> SUFFICES ASSUME Init
             PROVE  FanoutInv
    OBVIOUS
<1>1. << >> \in Seq(Places) /\ << >> \in Seq(Int) /\ 200 \in Codes
    BY DEF Codes
<1>2. MaxWork \in Nat
    BY ChainAssumption
<1>3. TypeOK
    BY <1>1, <1>2 DEF Init, TypeOK
<1>4. Exited(<< >>) = 0
    <2>1. Gone(<< >>) = {}
        BY DEF Gone
    <2>. QED
        BY <2>1, FS_EmptySet DEF Exited
<1>5. ASSUME NEW r \in Requests
      PROVE  FanoutOf(r) /\ TimelyOf(r)
    BY <1>4 DEF Init, FanoutOf, TimelyOf, Answered
<1>. QED
    BY <1>3, <1>5 DEF FanoutInv

\* FanoutInv is an invariant.
LEMMA FanoutInvCorrect == Spec => []FanoutInv
BY FanoutStart, FanoutStep, PTL DEF Spec

\* However the calls of a chain end and in whatever order, its handler reads
\* only what their goroutines wrote, and answers 200 only if all were 200.
THEOREM OkOnlyIfAllOkCorrect == Spec => []OkOnlyIfAllOk
<1>1. FanoutInv => OkOnlyIfAllOk
    <2> SUFFICES ASSUME FanoutInv, NEW r \in Requests, IsChain(r), Answered(r)
                 PROVE  /\ \A i \in DOMAIN result[r] : result[r][i] # Unwritten
                        /\ code[r] = 200 =>
                            \A i \in DOMAIN result[r] : result[r][i] = 200
        BY DEF OkOnlyIfAllOk
    <2>1. /\ FanoutOf(r)
          /\ calls[r] \in Seq(Places) /\ result[r] \in Seq(Int)
        BY DEF FanoutInv, TypeOK
    <2>2. DOMAIN result[r] = DOMAIN calls[r]
        BY <2>1 DEF FanoutOf
    <2>. QED
        BY <2>1, <2>2 DEF FanoutOf
<1>. QED
    BY <1>1, FanoutInvCorrect, PTL

\* A handler that returns leaves no goroutine behind.
THEOREM NoGoroutineLeftCorrect == Spec => []NoGoroutineLeft
<1>1. FanoutInv => NoGoroutineLeft
    BY DEF FanoutInv, FanoutOf, NoGoroutineLeft
<1>. QED
    BY <1>1, FanoutInvCorrect, PTL

\* Work ends within the clamp and a chain within one timeout, however many
\* calls it makes, and no call that outlasts the timeout succeeds.
THEOREM HandlersEndInTimeCorrect == Spec => []HandlersEndInTime
<1>1. FanoutInv => HandlersEndInTime
    <2> SUFFICES ASSUME FanoutInv, alive, NEW r \in Requests
                 PROVE  /\ pc[r] = "working" => now <= started[r] + MaxWork
                        /\ pc[r] = "collecting" =>
                            now <= started[r] + ClientTimeout
                        /\ IsChain(r) /\ Answered(r) /\ code[r] = 200 =>
                            work[r] <= ClientTimeout
        BY DEF HandlersEndInTime
    <2>1. /\ FanoutOf(r) /\ TimelyOf(r)
          /\ calls[r] \in Seq(Places) /\ result[r] \in Seq(Int)
          /\ now \in Nat /\ started[r] \in Nat /\ work[r] \in 0 .. MaxWork
        BY DEF FanoutInv, TypeOK
    <2>2. MaxWork \in Nat
        BY ChainAssumption
    <2>3. ASSUME IsChain(r), Answered(r), code[r] = 200
          PROVE  work[r] <= ClientTimeout
        <3>1. 1 \in DOMAIN result[r]
            BY <2>1, <2>3 DEF IsChain, FanoutOf
        <3>. QED
            BY <2>1, <2>3, <3>1 DEF FanoutOf, TimelyOf
    <2>. QED
        BY <2>1, <2>2, <2>3 DEF TimelyOf
<1>. QED
    BY <1>1, FanoutInvCorrect, PTL

-----------------------------------------------------------------------------
(* The metrics.                                                            *)

Inside == {r \in Requests : pc[r] \notin {"new", "done"}}
CountedAs(c) == {r \in Requests : pc[r] \in {"counted", "done"} /\ code[r] = c}

\* MetricsExact is inductive by itself, once the types are known.
LEMMA MetricsStep ==
    ASSUME IsFiniteSet(Requests), TypeOK, MetricsExact, [Next]_vars
    PROVE  MetricsExact'
<1>t. TypeOK
    OBVIOUS
<1>1. /\ inflight = Cardinality(Inside)
      /\ \A c \in Codes : total[c] = Cardinality(CountedAs(c))
    BY DEF MetricsExact, Inside, CountedAs
<1>2. /\ IsFiniteSet(Inside)
      /\ \A c \in Codes : IsFiniteSet(CountedAs(c))
    BY FS_Subset DEF Inside, CountedAs
<1>3. ASSUME inflight' = Cardinality(Inside'),
             \A c \in Codes : total'[c] = Cardinality(CountedAs(c)')
      PROVE  MetricsExact'
    BY <1>3 DEF MetricsExact, Inside, CountedAs
<1>4. ASSUME NEW r \in Requests, pc[r] = "new",
             pc'[r] \in {"working", "collecting", "written"},
             \A q \in Requests \ {r} : pc'[q] = pc[q] /\ code'[q] = code[q],
             inflight' = inflight + 1, total' = total
      PROVE  MetricsExact'
    <2>1. Inside' = Inside \cup {r} /\ r \notin Inside
        BY <1>4 DEF Inside
    <2>2. \A c \in Codes : CountedAs(c)' = CountedAs(c)
        BY <1>4 DEF CountedAs
    <2>3. Cardinality(Inside') = Cardinality(Inside) + 1
        BY <1>2, <2>1, FS_AddElement
    <2>. QED
        BY <1>1, <1>3, <1>4, <2>2, <2>3
<1>5. ASSUME NEW r \in Requests, pc[r] \in {"working", "collecting"},
             pc'[r] = "written",
             \A q \in Requests \ {r} : pc'[q] = pc[q] /\ code'[q] = code[q],
             inflight' = inflight, total' = total
      PROVE  MetricsExact'
    <2>1. Inside' = Inside
        BY <1>5 DEF Inside
    <2>2. \A c \in Codes : CountedAs(c)' = CountedAs(c)
        BY <1>5 DEF CountedAs
    <2>. QED
        BY <1>1, <1>3, <1>5, <2>1, <2>2
<1>6. ASSUME pc' = pc, code' = code, inflight' = inflight, total' = total
      PROVE  MetricsExact'
    BY <1>6 DEF MetricsExact
<1>7. ASSUME NEW r \in Requests, Root(r)
      PROVE  MetricsExact'
    BY <1>4, <1>7, <1>t DEF Root, Enter, Write, Goto, TypeOK
<1>8. ASSUME NEW r \in Requests, NEW ms \in Works, Work(r, ms)
      PROVE  MetricsExact'
    BY <1>4, <1>8, <1>t DEF Work, Enter, Goto, TypeOK
<1>9. ASSUME NEW r \in Requests, WorkEnds(r)
      PROVE  MetricsExact'
    BY <1>5, <1>9, <1>t DEF WorkEnds, Write, Goto, TypeOK, metrics
<1>10. ASSUME NEW r \in Requests, ChainUnconfigured(r)
       PROVE  MetricsExact'
    BY <1>4, <1>10, <1>t DEF ChainUnconfigured, Enter, Write, Goto, TypeOK
<1>11. ASSUME NEW r \in Requests, NEW n \in CallCounts, NEW ms \in Works,
              Chain(r, n, ms)
       PROVE  MetricsExact'
    BY <1>4, <1>11, <1>t DEF Chain, Enter, Goto, TypeOK
<1>12. ASSUME NEW r \in Requests, NEW i \in DOMAIN calls[r],
              CallPanics(r, i) \/ CallReturns(r, i) \/ Signal(r, i)
       PROVE  MetricsExact'
    BY <1>6, <1>12 DEF CallPanics, CallReturns, Signal, metrics
<1>13. ASSUME NEW r \in Requests, Respond(r)
       PROVE  MetricsExact'
    BY <1>5, <1>13, <1>t DEF Respond, Write, Goto, TypeOK, metrics
<1>14. ASSUME NEW r \in Requests, Count(r)
       PROVE  MetricsExact'
    <2>1. /\ pc' = [pc EXCEPT ![r] = "counted"] /\ pc[r] = "written"
          /\ total' = [total EXCEPT ![code[r]] = @ + 1]
          /\ code' = code /\ inflight' = inflight
        BY <1>14 DEF Count, Goto
    <2>2. Inside' = Inside
        BY <2>1, <1>t DEF Inside, TypeOK
    <2>3. code[r] \in Codes /\ total \in [Codes -> Nat]
        BY <1>t DEF TypeOK
    <2>4. ASSUME NEW c \in Codes
          PROVE  total'[c] = Cardinality(CountedAs(c)')
        <3>1. CASE c = code[r]
            <4>1. CountedAs(c)' = CountedAs(c) \cup {r} /\ r \notin CountedAs(c)
                BY <2>1, <3>1, <1>t DEF CountedAs, TypeOK
            <4>2. Cardinality(CountedAs(c)') = Cardinality(CountedAs(c)) + 1
                BY <1>2, <4>1, FS_AddElement
            <4>. QED
                BY <1>1, <2>1, <2>3, <3>1, <4>2
        <3>2. CASE c # code[r]
            <4>1. CountedAs(c)' = CountedAs(c)
                BY <2>1, <3>2, <1>t DEF CountedAs, TypeOK
            <4>. QED
                BY <1>1, <2>1, <2>3, <3>2, <4>1
        <3>. QED
            BY <3>1, <3>2
    <2>. QED
        BY <1>1, <1>3, <2>1, <2>2, <2>4
<1>15. ASSUME NEW r \in Requests, Leave(r)
       PROVE  MetricsExact'
    <2>1. /\ pc' = [pc EXCEPT ![r] = "done"] /\ pc[r] = "counted"
          /\ code' = code /\ inflight' = inflight - 1 /\ total' = total
        BY <1>15 DEF Leave, Goto
    <2>2. Inside' = Inside \ {r} /\ r \in Inside
        BY <2>1, <1>t DEF Inside, TypeOK
    <2>3. \A c \in Codes : CountedAs(c)' = CountedAs(c)
        BY <2>1, <1>t DEF CountedAs, TypeOK
    <2>4. Cardinality(Inside') = Cardinality(Inside) - 1
        BY <1>2, <2>2, FS_RemoveElement
    <2>. QED
        BY <1>1, <1>3, <2>1, <2>3, <2>4
<1>16. ASSUME NEW r \in Requests, ClientGone(r)
       PROVE  MetricsExact'
    BY <1>6, <1>16 DEF ClientGone, metrics
<1>17. CASE Tick
    BY <1>6, <1>17 DEF Tick, metrics
<1>18. CASE UNCHANGED vars
    BY <1>6, <1>18 DEF vars
<1>. QED
    BY <1>7, <1>8, <1>9, <1>10, <1>11, <1>12, <1>13, <1>14, <1>15, <1>16,
        <1>17, <1>18 DEF Next, Serve

\* The gauge and the counters tell what happened, through panics, failures and
\* clients that leave.
THEOREM MetricsExactCorrect ==
    ASSUME IsFiniteSet(Requests)
    PROVE  Spec => []MetricsExact
<1>1. Init => MetricsExact
    <2> SUFFICES ASSUME Init
                 PROVE  MetricsExact
        OBVIOUS
    <2>1. Inside = {} /\ \A c \in Codes : CountedAs(c) = {}
        BY DEF Init, Inside, CountedAs
    <2>2. inflight = 0 /\ \A c \in Codes : total[c] = 0
        BY DEF Init
    <2>. QED
        BY <2>1, <2>2, FS_EmptySet DEF MetricsExact, Inside, CountedAs
<1>2. FanoutInv /\ MetricsExact /\ [Next]_vars => MetricsExact'
    BY MetricsStep DEF FanoutInv
<1>. QED
    BY <1>1, <1>2, FanoutInvCorrect, PTL DEF Spec

=============================================================================
