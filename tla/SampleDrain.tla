----------------------------- MODULE SampleDrain -----------------------------
(***************************************************************************)
(* The death of one sample-api pod (apps/sample-api/main.go:114-148,       *)
(* 291-332) under the clocks of its deployment                             *)
(* (gitops/apps/sample-api/base/deployment-api.yaml).                      *)
(*                                                                         *)
(* The application fails readiness, keeps serving for SHUTDOWN_DELAY, then *)
(* closes its listener and waits for the requests in flight; the goroutine *)
(* that serves ends it at once if its listener breaks.  The kubelet,       *)
(* which probes readiness and kills the pod after its grace period, and    *)
(* the balancer, which sends requests until it has heard, are external.    *)
(* The clock counts seconds from SIGTERM; time does not pass an event that *)
(* is due, save that the application may run up to Slack late.             *)
(***************************************************************************)
EXTENDS Integers, FiniteSets

CONSTANTS
    Requests,         \* client requests around the shutdown
    Durations,        \* how long a handler may run
    ShutdownDelay,    \* SHUTDOWN_DELAY
    ShutdownTimeout,  \* the timeout given to srv.Shutdown
    Grace,            \* terminationGracePeriodSeconds
    ProbePeriod,      \* readinessProbe.periodSeconds
    FailureThreshold, \* readinessProbe.failureThreshold
    Propagation,      \* longest from an unready pod to the last request sent
    Slack,            \* how late a timer of the application may fire
    Horizon           \* bound on the clock

ASSUME DrainAssumption ==
    /\ Durations \subseteq Nat
    /\ {ShutdownDelay, ShutdownTimeout, Grace, Propagation, Slack, Horizon}
        \subseteq Nat
    /\ {ProbePeriod, FailureThreshold} \subseteq Nat \ {0}

\* The two timers of shutdown fit into the grace period, each of them late.
\* (main.go:9-10 adds the balancer's 30 s in place of the timeout's 25 s, which
\* does not fit: 45 is not more than 15 + 30.)
ASSUME GraceAssumption ==
    ShutdownDelay + Slack + ShutdownTimeout + Slack < Grace

\* The delay outlasts the probes that fail and what comes after them
\* (deployment-api.yaml:75-76; docs/SCALING.md:158-159).
ASSUME ProbeAssumption ==
    FailureThreshold * ProbePeriod + Propagation < ShutdownDelay

VARIABLES
    clock,      \* seconds since SIGTERM
    phase,      \* where main is
    broke,      \* the listener broke: ListenAndServe returned its error
    ready,      \* a.ready
    closedAt,   \* when the listener was closed, once it is
    takes,      \* how long the handler of a running or cut request may run
    request,    \* what became of each request
    due,        \* when that handler returns at the latest
    nextProbe,  \* when the kubelet probes /readyz next
    failures,   \* consecutive failed probes
    removeBy,   \* when the balancer has heard at the latest, once it will
    routed      \* the balancer still sends requests to the pod

vars == <<clock, phase, broke, ready, closedAt, takes, request, due, nextProbe,
          failures, removeBy, routed>>

app == <<phase, broke, ready, closedAt>>
kubelet == <<nextProbe, failures, removeBy>>
clients == <<takes, request, due>>

Unset == -1

Init ==
    /\ clock = 0
    /\ phase = "serving"
    /\ broke = FALSE
    /\ ready = TRUE
    /\ closedAt = Unset
    /\ takes = [r \in Requests |-> 0]
    /\ request = [r \in Requests |-> "none"]
    /\ due = [r \in Requests |-> 0]
    /\ nextProbe \in 0 .. ProbePeriod - 1
    /\ failures = 0
    /\ removeBy = Unset
    /\ routed = TRUE

Listening == phase \in {"serving", "delaying"} /\ ~ broke
Running == {r \in Requests : request[r] = "running"}

\* What happens to the requests in flight when the process goes away.
CutRunning ==
    request' = [r \in Requests |->
                    IF request[r] = "running" THEN "cut" ELSE request[r]]

-----------------------------------------------------------------------------
(* The application.                                                        *)

SigtermKeepsReady ==  \* mutant: beginDrain is not called
    /\ phase = "serving"
    /\ phase' = "delaying"
    /\ UNCHANGED <<clock, broke, ready, closedAt, clients, kubelet, routed>>

\* SIGTERM: shutdown flips readiness and starts to sleep.
Sigterm ==
    /\ phase = "serving"
    /\ phase' = "delaying"
    /\ ready' = FALSE
    /\ UNCHANGED <<clock, broke, closedAt, clients, kubelet, routed>>

DelayOver == clock >= ShutdownDelay

\* time.Sleep returns and srv.Shutdown closes the listener.
CloseListener ==
    /\ phase = "delaying"
    /\ DelayOver
    /\ phase' = "closing"
    /\ closedAt' = clock
    /\ UNCHANGED <<clock, broke, ready, clients, kubelet, routed>>

DrainedAlways == TRUE  \* mutant: Close instead of Shutdown
Drained == Running = {}

\* Shutdown returns once nothing is in flight, and main with it.
ExitDrained ==
    /\ phase = "closing"
    /\ Drained
    /\ phase' = "exited"
    /\ CutRunning
    /\ UNCHANGED <<clock, broke, ready, closedAt, takes, due, kubelet, routed>>

TimedOutFromSigterm ==  \* mutant: shutdownCtx is made before the sleep
    clock >= ShutdownTimeout
TimedOut == clock >= closedAt + ShutdownTimeout

\* Shutdown gives up at its timeout, and main returns all the same.
ExitForced ==
    /\ phase = "closing"
    /\ TimedOut
    /\ Running # {}
    /\ phase' = "exited"
    /\ CutRunning
    /\ UNCHANGED <<clock, broke, ready, closedAt, takes, due, kubelet, routed>>

\* Accepting fails for good: ListenAndServe closes the listener and returns.
ListenerBreaks ==
    /\ Listening
    /\ broke' = TRUE
    /\ UNCHANGED <<clock, phase, ready, closedAt, clients, kubelet, routed>>

\* os.Exit(1), wherever main is.
Die ==
    /\ broke
    /\ phase # "exited"
    /\ phase' = "exited"
    /\ CutRunning
    /\ UNCHANGED <<clock, broke, ready, closedAt, takes, due, kubelet, routed>>

\* A handler returns its response.
Respond(r) ==
    /\ request[r] = "running"
    /\ phase \in {"serving", "delaying", "closing"}
    /\ request' = [request EXCEPT ![r] = "answered"]
    /\ takes' = [takes EXCEPT ![r] = 0]
    /\ due' = [due EXCEPT ![r] = 0]
    /\ UNCHANGED <<clock, app, kubelet, routed>>

-----------------------------------------------------------------------------
(* Kubelet and balancer.                                                   *)

\* GET /readyz: 200 while ready, 503 while draining, refused once closed.
ReadyzPasses == Listening /\ ready

Probe ==
    /\ clock = nextProbe
    /\ phase # "exited"
    /\ nextProbe' = nextProbe + ProbePeriod
    /\ failures' = IF ReadyzPasses THEN 0 ELSE failures + 1
    /\ removeBy' = IF failures' = FailureThreshold THEN clock + Propagation
                   ELSE removeBy
    /\ UNCHANGED <<clock, app, clients, routed>>

\* The balancer stops sending.  It may have heard of the pod's deletion at any
\* time, and hears of its failed probes by removeBy.
Deregister ==
    /\ routed
    /\ phase # "serving"
    /\ routed' = FALSE
    /\ UNCHANGED <<clock, app, clients, kubelet>>

\* A new request: it is accepted while the listener is open.
Send(r) ==
    /\ routed
    /\ request[r] = "none"
    /\ \/ /\ Listening
          /\ request' = [request EXCEPT ![r] = "running"]
          /\ \E d \in Durations :
                /\ takes' = [takes EXCEPT ![r] = d]
                /\ due' = [due EXCEPT ![r] = clock + d]
       \/ /\ ~ Listening
          /\ request' = [request EXCEPT ![r] = "refused"]
          /\ UNCHANGED <<takes, due>>
    /\ UNCHANGED <<clock, app, kubelet, routed>>

-----------------------------------------------------------------------------
(* Time.                                                                   *)

Overdue ==
    \/ phase = "serving"
    \/ broke
    \/ phase = "delaying" /\ clock >= ShutdownDelay + Slack
    \/ phase = "closing" /\ Running = {}
    \/ phase = "closing" /\ TimedOut /\ clock >= closedAt + ShutdownTimeout + Slack
    \/ clock >= nextProbe
    \/ routed /\ removeBy # Unset /\ clock >= removeBy
    \/ \E r \in Running : clock >= due[r]

\* A second passes.  The clock stops with the process.
Tick ==
    /\ clock < Horizon
    /\ phase # "exited"
    /\ ~ Overdue
    /\ clock' = clock + 1
    /\ UNCHANGED <<app, clients, kubelet, routed>>

Next ==
    \/ Sigterm
    \/ CloseListener
    \/ ExitDrained
    \/ ExitForced
    \/ ListenerBreaks
    \/ Die
    \/ \E r \in Requests : Respond(r) \/ Send(r)
    \/ Probe
    \/ Deregister
    \/ Tick

Spec == Init /\ [][Next]_vars

\* Time passes, timers fire, and main and its goroutine run on.
FairSpec ==
    /\ Spec
    /\ WF_vars(Tick)
    /\ WF_vars(CloseListener)
    /\ WF_vars(ExitDrained)
    /\ WF_vars(ExitForced)
    /\ WF_vars(Die)
    /\ WF_vars(Probe)
    /\ WF_vars(Deregister /\ removeBy # Unset)
    /\ \A r \in Requests : WF_vars(Respond(r))

-----------------------------------------------------------------------------
(* Properties.                                                             *)

\* "Traffic stops before serving stops" (docs/SCALING.md:158-159): when the
\* listener closes, the balancer has stopped sending, whatever the phase of
\* the readiness probe at SIGTERM and however late the balancer hears.  So no
\* request of a rolling deploy is refused, unless the listener broke.
TrafficStopsFirst == ~ Listening => ~ routed \/ broke

\* However long a handler takes, it is cut only after it had the whole timeout
\* of Shutdown to finish (main.go:326): the sleep does not count against it.
\* Only a listener that broke cuts it earlier (main.go:309-312).
CutHadTheTimeout ==
    \A r \in Requests : request[r] = "cut" =>
        broke \/ clock >= (due[r] - takes[r]) + ShutdownTimeout

\* main has returned before the kubelet's SIGKILL (main.go:9-10), even when a
\* handler outlasts the timeout of Shutdown.
ExitsBeforeKill == clock >= Grace => phase = "exited"

\* On SIGTERM sample-api stops in order, whatever is in flight.
OrderlyStop == CutHadTheTimeout /\ ExitsBeforeKill

\* Every request sent to the pod is accepted and in the end answered, unless
\* its handler outlasts the timeout of Shutdown (main.go:6-8) or the listener
\* breaks.
EveryRequestAnswered ==
    \A r \in Requests :
        request[r] # "none" ~>
            \/ request[r] = "answered"
            \/ request[r] = "cut" /\ takes[r] > ShutdownTimeout
            \/ broke
=============================================================================
