----------------------------- MODULE ChainFanout -----------------------------
(***************************************************************************)
(* The requests of sample-api (apps/sample-api/main.go:123-283): instrument *)
(* around every handler, and handleChain, which starts a goroutine per     *)
(* call to the worker and waits for all of them on an unbuffered channel.  *)
(*                                                                         *)
(* The clock counts seconds.  Goroutines run at once: time does not pass a *)
(* timeout that is due, a goroutine that can go on or a handler that can.  *)
(* What the network, the mesh and the worker do to a call is external: it  *)
(* may fail at any time, and succeed once the work has had its time.       *)
(***************************************************************************)
EXTENDS Integers, FiniteSets, Sequences

CONSTANTS
    Requests,       \* HTTP requests
    CallCounts,     \* the values of ?calls= that are asked for
    Works,          \* the values of ?ms= that are asked for, in seconds
    MaxChainCalls,  \* maxChainCalls, 8 in the code
    MaxWork,        \* maxWorkMs, 5 s
    ClientTimeout,  \* a.client.Timeout, 2 s
    WorkerURLs,     \* what WORKER_URL may be: "none", "good" or "malformed"
    MaxTime         \* bound on the clock

ASSUME ChainAssumption ==
    /\ CallCounts \subseteq Int /\ Works \subseteq Int
    /\ MaxChainCalls \in Nat \ {0}
    /\ {MaxWork, ClientTimeout, MaxTime} \subseteq Nat
    /\ WorkerURLs \subseteq {"none", "good", "malformed"}

VARIABLES
    now,
    url,        \* a.cfg.WorkerURL, fixed at the start
    alive,      \* the process has not crashed
    pc,         \* where each request is
    started,    \* when it arrived
    work,       \* its clamped ms
    calls,      \* the goroutines of a chain and where they are
    result,     \* its results array
    received,   \* how often it has received from done
    code,       \* sw.code, and what the client sees
    gone,       \* requests whose client disconnected
    inflight,   \* the gauge http_requests_in_flight
    total       \* http_requests_total by code

vars == <<now, url, alive, pc, started, work, calls, result, received, code,
          gone, inflight, total>>

request == <<started, work>>
fanout == <<calls, result, received>>
metrics == <<inflight, total>>

Codes == {200, 404, 500, 502, 503}
Unwritten == -1
Failed == 0   \* results[i].Status after a transport error

\* clampQueryInt: below min gives min for calls and 0 for ms.
Clamp(v, min, max) == IF v < min THEN min ELSE IF v > max THEN max ELSE v

Init ==
    /\ now = 0
    /\ url \in WorkerURLs
    /\ alive = TRUE
    /\ pc = [r \in Requests |-> "new"]
    /\ started = [r \in Requests |-> 0]
    /\ work = [r \in Requests |-> 0]
    /\ calls = [r \in Requests |-> << >>]
    /\ result = [r \in Requests |-> << >>]
    /\ received = [r \in Requests |-> 0]
    /\ code = [r \in Requests |-> 200]
    /\ gone = {}
    /\ inflight = 0
    /\ total = [c \in Codes |-> 0]

Goto(r, label) == pc' = [pc EXCEPT ![r] = label]

\* The handler writes its status and returns to instrument.
Write(r, status) ==
    /\ Goto(r, "written")
    /\ code' = [code EXCEPT ![r] = status]

\* instrument, on the way in.  No request comes too late for the clock to see
\* it end.
Enter(r) ==
    /\ alive
    /\ now + MaxWork <= MaxTime
    /\ pc[r] = "new"
    /\ inflight' = inflight + 1
    /\ started' = [started EXCEPT ![r] = now]
    /\ UNCHANGED <<now, url, alive, gone, total>>

-----------------------------------------------------------------------------
(* The handlers.                                                           *)

\* handleRoot answers at once: the service, or not found.
Root(r) ==
    /\ Enter(r)
    /\ \E status \in {200, 404} : Write(r, status)
    /\ UNCHANGED <<work, fanout>>

\* handleWork burns its clamped ms.
Work(r, ms) ==
    /\ Enter(r)
    /\ Goto(r, "working")
    /\ work' = [work EXCEPT ![r] = Clamp(ms, 0, MaxWork)]
    /\ UNCHANGED <<fanout, code>>

\* r has been served for as long as its work takes.
WorkHadTime(r) == now >= started[r] + work[r]

\* It ends with a 200 and does not look whether its client is still there, or
\* panics and is recovered by instrument, which writes a 500.
WorkEnds(r) ==
    /\ alive
    /\ pc[r] = "working"
    /\ \/ WorkHadTime(r) /\ Write(r, 200)
       \/ Write(r, 500)
    /\ UNCHANGED <<now, url, alive, request, fanout, gone, metrics>>

\* handleChain without a worker.
ChainUnconfigured(r) ==
    /\ url = "none"
    /\ Enter(r)
    /\ Write(r, 503)
    /\ UNCHANGED <<work, fanout>>

\* handleChain starts its goroutines.
Chain(r, n, ms) ==
    /\ url # "none"
    /\ Enter(r)
    /\ Goto(r, "collecting")
    /\ work' = [work EXCEPT ![r] = Clamp(ms, 0, MaxWork)]
    /\ LET all == 1 .. Clamp(n, 1, MaxChainCalls)
       IN  /\ calls' = [calls EXCEPT ![r] = [i \in all |-> "calling"]]
           /\ result' = [result EXCEPT ![r] = [i \in all |-> Unwritten]]
    /\ UNCHANGED <<received, code>>

\* The error of http.NewRequest is dropped, and Do panics on the nil request
\* in a goroutine that instrument's recover does not cover.
CallPanics(r, i) ==
    /\ alive
    /\ url = "malformed"
    /\ calls[r][i] = "calling"
    /\ alive' = FALSE
    /\ UNCHANGED <<now, url, pc, request, fanout, code, gone, metrics>>

TimedOutNever(r) == FALSE  \* mutant: a client without a timeout

\* a.client.Timeout has run out for the calls of r.
TimedOut(r) == now >= started[r] + ClientTimeout

CallForgets(r, i) ==  \* mutant: done is signalled after a success only
    /\ alive
    /\ url = "good"
    /\ calls[r][i] = "calling"
    /\ \E status \in {Failed, 503} \cup (IF WorkHadTime(r) THEN {200} ELSE {}) :
        /\ TimedOut(r) \/ r \in gone => status = Failed
        /\ result' = [result EXCEPT ![r][i] = status]
        /\ calls' = [calls EXCEPT ![r][i] =
                        IF status = Failed THEN "exited" ELSE "returned"]
    /\ UNCHANGED <<now, url, alive, pc, request, received, code, gone, metrics>>

\* Do returns to a goroutine, which writes its own element of results: the
\* worker's answer, or an error of the network, the timeout or the context.
CallReturns(r, i) ==
    /\ alive
    /\ url = "good"
    /\ calls[r][i] = "calling"
    /\ \E status \in {Failed, 503} \cup (IF WorkHadTime(r) THEN {200} ELSE {}) :
        /\ TimedOut(r) \/ r \in gone => status = Failed
        /\ result' = [result EXCEPT ![r][i] = status]
    /\ calls' = [calls EXCEPT ![r][i] = "returned"]
    /\ UNCHANGED <<now, url, alive, pc, request, received, code, gone, metrics>>

\* The deferred send meets the receive of the handler.
Signal(r, i) ==
    /\ alive
    /\ pc[r] = "collecting"
    /\ calls[r][i] = "returned"
    /\ received[r] < Len(calls[r])
    /\ calls' = [calls EXCEPT ![r][i] = "exited"]
    /\ received' = [received EXCEPT ![r] = @ + 1]
    /\ UNCHANGED <<now, url, alive, pc, request, result, code, gone, metrics>>

CollectedAllButOne(r) ==  \* mutant: the loop ends one short
    received[r] >= Len(calls[r]) - 1
CollectedFailFast(r) ==  \* mutant: the first bad result ends the loop
    \/ received[r] = Len(calls[r])
    \/ \E i \in DOMAIN calls[r] :
        calls[r][i] = "exited" /\ result[r][i] # 200

\* The handler has received once per call.
Collected(r) == received[r] = Len(calls[r])

\* It reads the results: 200 if every call was 200.
Respond(r) ==
    /\ alive
    /\ pc[r] = "collecting"
    /\ Collected(r)
    /\ Write(r, IF \A i \in DOMAIN result[r] : result[r][i] = 200
                THEN 200 ELSE 502)
    /\ UNCHANGED <<now, url, alive, request, fanout, gone, metrics>>

-----------------------------------------------------------------------------
(* instrument, on the way out: the deferred functions.                     *)

CountDefault(r) ==  \* mutant: statusWriter does not keep the code
    /\ alive
    /\ pc[r] = "written"
    /\ Goto(r, "counted")
    /\ total' = [total EXCEPT ![200] = @ + 1]
    /\ UNCHANGED <<now, url, alive, request, fanout, code, gone, inflight>>

Count(r) ==
    /\ alive
    /\ pc[r] = "written"
    /\ Goto(r, "counted")
    /\ total' = [total EXCEPT ![code[r]] = @ + 1]
    /\ UNCHANGED <<now, url, alive, request, fanout, code, gone, inflight>>

\* The gauge is decremented last, and the request's locals are gone.
Leave(r) ==
    /\ alive
    /\ pc[r] = "counted"
    /\ Goto(r, "done")
    /\ inflight' = inflight - 1
    /\ started' = [started EXCEPT ![r] = 0]
    /\ work' = [work EXCEPT ![r] = 0]
    /\ UNCHANGED <<now, url, alive, fanout, code, gone, total>>

-----------------------------------------------------------------------------
(* The environment.                                                        *)

\* A client disconnects.  Only the calls of a chain look at the context.
ClientGone(r) ==
    /\ pc[r] = "collecting"
    /\ r \notin gone
    /\ gone' = gone \cup {r}
    /\ UNCHANGED <<now, url, alive, pc, request, fanout, code, metrics>>

Overdue(r) ==
    \/ pc[r] = "working" /\ WorkHadTime(r)
    \/ \E i \in DOMAIN calls[r] :
        calls[r][i] = "calling" /\ (TimedOut(r) \/ r \in gone)
    \/ \E i \in DOMAIN calls[r] :
        calls[r][i] = "returned" /\ pc[r] = "collecting"
    \/ pc[r] = "collecting" /\ Collected(r)

Tick ==
    /\ now < MaxTime
    /\ alive => \A r \in Requests : ~ Overdue(r)
    /\ now' = now + 1
    /\ UNCHANGED <<url, alive, pc, request, fanout, code, gone, metrics>>

\* The steps of a request's goroutines.
Serve(r) ==
    \/ WorkEnds(r)
    \/ \E i \in DOMAIN calls[r] :
        CallPanics(r, i) \/ CallReturns(r, i) \/ Signal(r, i)
    \/ Respond(r)
    \/ Count(r)
    \/ Leave(r)

Next ==
    \/ \E r \in Requests :
        \/ Root(r)
        \/ \E ms \in Works : Work(r, ms)
        \/ ChainUnconfigured(r)
        \/ \E n \in CallCounts, ms \in Works : Chain(r, n, ms)
        \/ Serve(r)
        \/ ClientGone(r)
    \/ Tick

Spec == Init /\ [][Next]_vars

\* Goroutines run; a call that nothing answers is ended by the client's timeout,
\* so the clock has to move.
FairSpec ==
    /\ Spec
    /\ WF_vars(Tick)
    /\ \A r \in Requests : WF_vars(Serve(r))

-----------------------------------------------------------------------------
(* Properties.                                                             *)

IsChain(r) == calls[r] # << >>
Answered(r) == pc[r] \in {"written", "counted", "done"}

\* The handler reads no element of results before its goroutine has written
\* it, and answers 200 only if every call was a 200 (main.go:236-263).
OkOnlyIfAllOk ==
    \A r \in Requests : IsChain(r) /\ Answered(r) =>
        /\ \A i \in DOMAIN result[r] : result[r][i] # Unwritten
        /\ code[r] = 200 => \A i \in DOMAIN result[r] : result[r][i] = 200

\* When the handler returns no goroutine of it is left, blocked on a channel
\* that nobody receives from: each has met its receive (main.go:241, 253-255).
NoGoroutineLeft ==
    \A r \in Requests : Answered(r) =>
        \A i \in DOMAIN calls[r] : calls[r][i] = "exited"

\* No handler holds its goroutine longer than MaxWork, whatever is asked for
\* ("a self-DoS button", main.go:197-199), and no chain longer than the one
\* timeout that its calls share, however many there are; so work that the clamp
\* lets through but that outlasts the timeout never succeeds (main.go:32, 103,
\* 229-230).
HandlersEndInTime ==
    alive => \A r \in Requests :
        /\ pc[r] = "working" => now <= started[r] + MaxWork
        /\ pc[r] = "collecting" => now <= started[r] + ClientTimeout
        /\ IsChain(r) /\ Answered(r) /\ code[r] = 200 => work[r] <= ClientTimeout

\* The metrics tell what happened, also after panics and failures: the gauge is
\* the number of requests inside instrument, and every request that ended was
\* counted once, under the status its client saw (main.go:155-167, 178-181).
MetricsExact ==
    /\ inflight = Cardinality({r \in Requests : pc[r] \notin {"new", "done"}})
    /\ \A c \in Codes :
        total[c] = Cardinality({r \in Requests :
                        pc[r] \in {"counted", "done"} /\ code[r] = c})

\* Every request comes to its end and leaves the gauge, whatever the worker,
\* the mesh and the client do; unless the process is gone, which only a
\* WORKER_URL that does not parse can bring about (main.go:150, 243).
EveryRequestLeaves ==
    \A r \in Requests :
        pc[r] # "new" ~> (pc[r] = "done" \/ (url = "malformed" /\ ~ alive))
=============================================================================
