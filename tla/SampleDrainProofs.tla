-------------------------- MODULE SampleDrainProofs --------------------------
(***************************************************************************)
(* Proofs about the death of a sample-api pod, for any clocks that leave   *)
(* room for the two timers of shutdown before the kubelet's SIGKILL, and   *)
(* for the failing probes within the delay.                                *)
(***************************************************************************)
EXTENDS SampleDrain, TLAPS

TypeOK ==
    /\ clock \in Nat
    /\ phase \in {"serving", "delaying", "closing", "exited"}
    /\ broke \in BOOLEAN
    /\ ready \in BOOLEAN
    /\ closedAt \in Int
    /\ takes \in [Requests -> Nat]
    /\ request \in [Requests -> {"none", "running", "answered", "refused",
                                 "cut"}]
    /\ due \in [Requests -> Nat]
    /\ nextProbe \in Nat
    /\ failures \in Nat
    /\ removeBy \in Int
    /\ routed \in BOOLEAN

\* How late it can be wherever main is.
MainClock ==
    /\ phase = "serving" => clock = 0
    /\ phase = "delaying" => clock <= ShutdownDelay + Slack
    /\ phase = "closing" =>
        /\ closedAt <= clock
        /\ closedAt <= ShutdownDelay + Slack
        /\ clock <= closedAt + ShutdownTimeout + Slack

\* When a request was accepted: before now, and before the listener closed.
Accepted(r) == due[r] - takes[r]

AcceptedInTime ==
    \A r \in Requests : request[r] = "running" =>
        /\ Accepted(r) <= clock
        /\ phase = "closing" => Accepted(r) <= closedAt

StopInv == TypeOK /\ MainClock /\ AcceptedInTime /\ CutHadTheTimeout

\* The probe that is due, and the failing ones before it.
ProbeClock ==
    /\ phase = "serving" => ready
    /\ phase \in {"delaying", "closing"} => ~ ready
    /\ phase = "serving" /\ ~ broke =>
        failures = 0 /\ removeBy = Unset /\ nextProbe <= ProbePeriod
    /\ phase # "exited" => clock <= nextProbe
    /\ failures < FailureThreshold =>
        removeBy = Unset /\ nextProbe <= (failures + 1) * ProbePeriod
    /\ failures >= FailureThreshold =>
        /\ removeBy # Unset
        /\ removeBy <= FailureThreshold * ProbePeriod + Propagation

\* How long the balancer goes on sending.
Routing ==
    /\ phase \in {"closing", "exited"} => ~ routed \/ broke
    /\ routed /\ removeBy # Unset => clock <= removeBy

TrafficInv == TypeOK /\ MainClock /\ ProbeClock /\ Routing

-----------------------------------------------------------------------------

\* Multiples of the probe period.
LEMMA Multiples ==
    ASSUME NEW p \in Nat, NEW k \in Nat, NEW n \in Nat
    PROVE  /\ k * p \in Nat
           /\ (k + 1) * p = k * p + p
           /\ 1 * p = p
           /\ k <= n => k * p <= n * p
OBVIOUS

\* At SIGTERM nothing is late, nobody is served and no probe has failed.
LEMMA DrainStart ==
    Init => /\ TypeOK /\ MainClock /\ AcceptedInTime /\ CutHadTheTimeout
            /\ ProbeClock /\ Routing
<1> SUFFICES ASSUME Init
             PROVE  /\ TypeOK /\ MainClock /\ AcceptedInTime
                    /\ CutHadTheTimeout /\ ProbeClock /\ Routing
    OBVIOUS
<1>1. TypeOK
    <2>1. nextProbe \in Nat
        BY DrainAssumption DEF Init
    <2>2. /\ takes \in [Requests -> Nat] /\ due \in [Requests -> Nat]
          /\ request \in [Requests -> {"none", "running", "answered",
                                        "refused", "cut"}]
        BY DEF Init
    <2>3. /\ clock \in Nat /\ failures \in Nat
          /\ closedAt \in Int /\ removeBy \in Int
          /\ phase \in {"serving", "delaying", "closing", "exited"}
        BY DEF Init, Unset
    <2>4. broke \in BOOLEAN /\ ready \in BOOLEAN /\ routed \in BOOLEAN
        BY DEF Init
    <2>. QED
        BY <2>1, <2>2, <2>3, <2>4 DEF TypeOK
<1>2. MainClock /\ AcceptedInTime
    BY DEF Init, MainClock, AcceptedInTime
<1>3. \A r \in Requests : request[r] # "cut"
    BY DEF Init
<1>4. CutHadTheTimeout
    BY <1>3 DEF CutHadTheTimeout
<1>5. /\ clock = 0 /\ phase = "serving" /\ ready /\ failures = 0
      /\ removeBy = Unset /\ nextProbe \in 0 .. ProbePeriod - 1
    BY DEF Init
<1>6. ProbeClock
    <2>1. (0 + 1) * ProbePeriod = ProbePeriod
        BY DrainAssumption, Multiples
    <2>. QED
        BY <1>5, <2>1, DrainAssumption DEF ProbeClock
<1>7. Routing
    BY <1>5 DEF Routing
<1>. QED
    BY <1>1, <1>2, <1>4, <1>6, <1>7

\* Every step keeps the types.
LEMMA DrainTyped == TypeOK /\ [Next]_vars => TypeOK'
<1> SUFFICES ASSUME TypeOK, [Next]_vars
             PROVE  TypeOK'
    OBVIOUS
<1> USE DrainAssumption DEF TypeOK, app, kubelet, clients, CutRunning
<1>1. CASE Sigterm
    BY <1>1 DEF Sigterm
<1>2. CASE CloseListener
    BY <1>2 DEF CloseListener
<1>3. CASE ExitDrained
    BY <1>3 DEF ExitDrained
<1>4. CASE ExitForced
    BY <1>4 DEF ExitForced
<1>5. CASE ListenerBreaks
    BY <1>5 DEF ListenerBreaks, Listening
<1>6. CASE Die
    BY <1>6 DEF Die
<1>7. ASSUME NEW r \in Requests, Respond(r)
      PROVE  TypeOK'
    BY <1>7 DEF Respond
<1>8. ASSUME NEW r \in Requests, Send(r)
      PROVE  TypeOK'
    BY <1>8 DEF Send
<1>9. CASE Probe
    BY <1>9 DEF Probe
<1>10. CASE Deregister
    BY <1>10 DEF Deregister
<1>11. CASE Tick
    BY <1>11 DEF Tick
<1>12. CASE UNCHANGED vars
    BY <1>12 DEF vars
<1>. QED
    BY <1>1, <1>2, <1>3, <1>4, <1>5, <1>6, <1>7, <1>8, <1>9, <1>10, <1>11, <1>12
        DEF Next

\* Main is never later than its timers.
LEMMA MainClockStep == TypeOK /\ MainClock /\ [Next]_vars => MainClock'
<1> SUFFICES ASSUME TypeOK, MainClock, [Next]_vars
             PROVE  MainClock'
    OBVIOUS
<1> USE DrainAssumption DEF TypeOK, MainClock, app, kubelet, clients
<1>1. CASE Sigterm
    BY <1>1 DEF Sigterm
<1>2. CASE CloseListener
    BY <1>2 DEF CloseListener
<1>3. CASE ExitDrained
    BY <1>3 DEF ExitDrained
<1>4. CASE ExitForced
    BY <1>4 DEF ExitForced
<1>5. CASE ListenerBreaks
    BY <1>5 DEF ListenerBreaks, Listening
<1>6. CASE Die
    BY <1>6 DEF Die
<1>7. ASSUME NEW r \in Requests, Respond(r) \/ Send(r)
      PROVE  MainClock'
    BY <1>7 DEF Respond, Send
<1>8. CASE Probe
    BY <1>8 DEF Probe
<1>9. CASE Deregister
    BY <1>9 DEF Deregister
<1>10. CASE Tick
    BY <1>10 DEF Tick, Overdue, TimedOut
<1>11. CASE UNCHANGED vars
    BY <1>11 DEF vars
<1>. QED
    BY <1>1, <1>2, <1>3, <1>4, <1>5, <1>6, <1>7, <1>8, <1>9, <1>10, <1>11
        DEF Next

\* Requests are accepted before the listener closes, and cut a timeout later.
LEMMA RequestsStep ==
    StopInv /\ [Next]_vars => (AcceptedInTime /\ CutHadTheTimeout)'
<1> SUFFICES ASSUME StopInv, [Next]_vars
             PROVE  (AcceptedInTime /\ CutHadTheTimeout)'
    OBVIOUS
<1> USE DrainAssumption DEF StopInv, TypeOK, MainClock, app, kubelet, clients,
        AcceptedInTime, CutHadTheTimeout, Accepted
<1>1. CASE Sigterm
    BY <1>1 DEF Sigterm
<1>2. CASE CloseListener
    BY <1>2 DEF CloseListener
<1>3. CASE ExitDrained
    BY <1>3 DEF ExitDrained, CutRunning, Drained, Running
<1>4. CASE ExitForced
    BY <1>4 DEF ExitForced, CutRunning, TimedOut
<1>5. CASE ListenerBreaks
    BY <1>5 DEF ListenerBreaks, Listening
<1>6. CASE Die
    BY <1>6 DEF Die, CutRunning
<1>7. ASSUME NEW r \in Requests, Respond(r)
      PROVE  (AcceptedInTime /\ CutHadTheTimeout)'
    BY <1>7 DEF Respond
<1>8. ASSUME NEW r \in Requests, Send(r)
      PROVE  (AcceptedInTime /\ CutHadTheTimeout)'
    BY <1>8 DEF Send, Listening
<1>9. CASE Probe
    BY <1>9 DEF Probe
<1>10. CASE Deregister
    BY <1>10 DEF Deregister
<1>11. CASE Tick
    BY <1>11 DEF Tick
<1>12. CASE UNCHANGED vars
    BY <1>12 DEF vars
<1>. QED
    BY <1>1, <1>2, <1>3, <1>4, <1>5, <1>6, <1>7, <1>8, <1>9, <1>10, <1>11, <1>12
        DEF Next

\* However long handlers take, nobody is cut who has not had the whole timeout
\* of Shutdown, and main has returned before SIGKILL.
THEOREM OrderlyStopCorrect == Spec => []OrderlyStop
<1>1. Init => StopInv
    BY DrainStart DEF StopInv
<1>2. StopInv /\ [Next]_vars => StopInv'
    BY DrainTyped, MainClockStep, RequestsStep DEF StopInv
<1>3. StopInv => OrderlyStop
    BY DrainAssumption, GraceAssumption DEF StopInv, TypeOK, MainClock,
        OrderlyStop, ExitsBeforeKill
<1>. QED
    BY <1>1, <1>2, <1>3, PTL DEF Spec

-----------------------------------------------------------------------------
(* Readiness, probes and the balancer.                                     *)

\* A probe fails unless the pod is ready, and comes a period after the last.
LEMMA ProbeStep ==
    TypeOK /\ MainClock /\ ProbeClock /\ [Next]_vars => ProbeClock'
<1> SUFFICES ASSUME TypeOK, MainClock, ProbeClock, [Next]_vars
             PROVE  ProbeClock'
    OBVIOUS
<1> USE DrainAssumption DEF TypeOK, MainClock, ProbeClock, app, kubelet,
        clients, Unset
<1>1. CASE Sigterm
    BY <1>1, Multiples DEF Sigterm
<1>2. CASE CloseListener
    BY <1>2 DEF CloseListener
<1>3. CASE ExitDrained
    BY <1>3 DEF ExitDrained
<1>4. CASE ExitForced
    BY <1>4 DEF ExitForced
<1>5. CASE ListenerBreaks
    BY <1>5 DEF ListenerBreaks, Listening
<1>6. CASE Die
    BY <1>6 DEF Die
<1>7. ASSUME NEW r \in Requests, Respond(r) \/ Send(r)
      PROVE  ProbeClock'
    BY <1>7 DEF Respond, Send
<1>8. CASE Probe
    <2> DEFINE p == ProbePeriod
               n == FailureThreshold
    <2>1. /\ p \in Nat \ {0} /\ n \in Nat \ {0} /\ failures \in Nat
          /\ (failures + 1) * p \in Nat /\ n * p \in Nat /\ Propagation \in Nat
        BY Multiples
    <2>2. CASE ReadyzPasses
        BY <1>8, <2>1, <2>2, Multiples DEF Probe, ReadyzPasses, Listening
    <2>3. CASE ~ ReadyzPasses
        <3>1. /\ clock = nextProbe /\ nextProbe' = nextProbe + p
              /\ failures' = failures + 1
              /\ phase' = phase /\ ready' = ready /\ clock' = clock
              /\ removeBy' = IF failures + 1 = n THEN clock + Propagation
                             ELSE removeBy
              /\ phase = "serving" => broke
              /\ broke' = broke
            BY <1>8, <2>3 DEF Probe, ReadyzPasses, Listening
        <3>2. (failures + 1 + 1) * p = (failures + 1) * p + p
            BY <2>1, Multiples
        <3>3. failures + 1 = n => (failures + 1) * p = n * p
            OBVIOUS
        <3>4. CASE failures + 1 < n
            BY <2>1, <3>1, <3>2, <3>4
        <3>5. CASE failures + 1 = n
            BY <2>1, <3>1, <3>3, <3>5
        <3>6. CASE failures + 1 > n
            BY <2>1, <3>1, <3>6
        <3>. QED
            BY <2>1, <3>4, <3>5, <3>6
    <2>. QED
        BY <2>2, <2>3
<1>9. CASE Deregister
    BY <1>9 DEF Deregister
<1>10. CASE Tick
    BY <1>10 DEF Tick, Overdue
<1>11. CASE UNCHANGED vars
    BY <1>11 DEF vars
<1>. QED
    BY <1>1, <1>2, <1>3, <1>4, <1>5, <1>6, <1>7, <1>8, <1>9, <1>10, <1>11
        DEF Next

\* The balancer has heard of the failed probes before the delay is over.
LEMMA RoutingStep == TrafficInv /\ [Next]_vars => Routing'
<1> SUFFICES ASSUME TrafficInv, [Next]_vars
             PROVE  Routing'
    OBVIOUS
<1> USE DrainAssumption DEF TrafficInv, TypeOK, ProbeClock, Routing, app,
        kubelet, clients, Unset
<1>1. CASE Sigterm
    BY <1>1 DEF Sigterm
<1>2. CASE CloseListener
    <2>1. phase = "delaying" /\ clock >= ShutdownDelay /\ removeBy' = removeBy
          /\ routed' = routed /\ clock' = clock
        BY <1>2 DEF CloseListener, DelayOver
    <2>2. SUFFICES ASSUME routed
                   PROVE  FALSE
        BY <2>1
    <2>3. FailureThreshold * ProbePeriod + Propagation < ShutdownDelay
        BY ProbeAssumption
    <2>4. FailureThreshold * ProbePeriod \in Nat
        BY Multiples
    <2>5. CASE failures < FailureThreshold
        <3>1. failures + 1 <= FailureThreshold /\ failures + 1 \in Nat
            BY <2>5
        <3>2. (failures + 1) * ProbePeriod <= FailureThreshold * ProbePeriod
            BY <3>1, Multiples
        <3>3. (failures + 1) * ProbePeriod \in Nat
            BY <3>1, Multiples
        <3>. QED
            BY <2>1, <2>3, <2>4, <2>5, <3>2, <3>3
    <2>6. CASE failures >= FailureThreshold
        BY <2>1, <2>2, <2>3, <2>4, <2>6
    <2>. QED
        BY <2>5, <2>6
<1>3. CASE ExitDrained
    BY <1>3 DEF ExitDrained
<1>4. CASE ExitForced
    BY <1>4 DEF ExitForced
<1>5. CASE ListenerBreaks
    BY <1>5 DEF ListenerBreaks, Listening
<1>6. CASE Die
    BY <1>6 DEF Die
<1>7. ASSUME NEW r \in Requests, Respond(r) \/ Send(r)
      PROVE  Routing'
    BY <1>7 DEF Respond, Send
<1>8. CASE Probe
    BY <1>8 DEF Probe
<1>9. CASE Deregister
    BY <1>9 DEF Deregister
<1>10. CASE Tick
    BY <1>10 DEF Tick, Overdue
<1>11. CASE UNCHANGED vars
    BY <1>11 DEF vars
<1>. QED
    BY <1>1, <1>2, <1>3, <1>4, <1>5, <1>6, <1>7, <1>8, <1>9, <1>10, <1>11
        DEF Next

\* Whatever the phase of the probe at SIGTERM and however late the balancer
\* hears, nobody sends any more when the listener closes.
THEOREM TrafficStopsFirstCorrect == Spec => []TrafficStopsFirst
<1>1. Init => TrafficInv
    BY DrainStart DEF TrafficInv
<1>2. TrafficInv /\ [Next]_vars => TrafficInv'
    BY DrainTyped, MainClockStep, ProbeStep, RoutingStep DEF TrafficInv
<1>3. TrafficInv => TrafficStopsFirst
    BY DEF TrafficInv, TypeOK, Routing, TrafficStopsFirst, Listening
<1>. QED
    BY <1>1, <1>2, <1>3, PTL DEF Spec

=============================================================================
