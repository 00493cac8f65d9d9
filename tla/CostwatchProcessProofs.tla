----------------------- MODULE CostwatchProcessProofs -----------------------
(***************************************************************************)
(* Proof that costwatch stops in order, for any clocks that leave room for *)
(* the timeout and two late timers before the kubelet's SIGKILL.           *)
(***************************************************************************)
EXTENDS CostwatchProcess, TLAPS

TypeOK ==
    /\ now \in Nat
    /\ signalled \in BOOLEAN
    /\ main \in {"setup", "waiting", "shutting", "returned"}
    /\ server \in {"none", "starting", "listening", "failing", "returned"}
    /\ broke \in BOOLEAN
    /\ closed \in BOOLEAN
    /\ deadline \in Nat
    /\ exitCode \in {0, 1, 143, NoCode}
    /\ request \in [Requests -> {"unsent", "handling", "answered", "refused",
                                 "cut"}]

\* Nobody is served before the server listens, and nobody is cut while the
\* process runs: so only what ends it after that can cut.  The goroutine ends it
\* only for a listener that broke.
ServedByListener ==
    /\ main = "setup" => server = "none"
    /\ server \in {"none", "starting"} => Handling = {}
    /\ server = "failing" => broke
    /\ Running => \A r \in Requests : request[r] # "cut"

\* How late it can be wherever main is.
Clock ==
    /\ ~ signalled => now = 0
    /\ Running =>
        /\ main # "returned"
        /\ main = "setup" => ~ signalled
        /\ main = "waiting" => now <= Slack
        /\ main = "shutting" =>
            /\ ShutdownTimeout <= deadline
            /\ deadline <= Slack + ShutdownTimeout
            /\ now <= deadline + Slack

StopInv == TypeOK /\ ServedByListener /\ Clock /\ CutHadTheTimeout

\* StopInv is an invariant.
LEMMA StopInvCorrect == Spec => []StopInv
<1> USE ProcessAssumption
<1>1. Init => StopInv
    <2> SUFFICES ASSUME Init
                 PROVE  StopInv
        OBVIOUS
    <2>1. TypeOK
        BY DEF Init, TypeOK
    <2>2. \A r \in Requests : request[r] = "unsent"
        BY DEF Init
    <2>3. ServedByListener /\ CutHadTheTimeout
        BY <2>2 DEF Init, ServedByListener, CutHadTheTimeout, Handling
    <2>4. Clock
        BY DEF Init, Clock
    <2>. QED
        BY <2>1, <2>3, <2>4 DEF StopInv
<1>2. StopInv /\ [Next]_vars => StopInv'
    <2> SUFFICES ASSUME StopInv, [Next]_vars
                 PROVE  StopInv'
        OBVIOUS
    <2> USE DEF StopInv, TypeOK, ServedByListener, Clock, CutHadTheTimeout,
            Running, Handling, NoCode
    <2>1. CASE Start
        BY <2>1 DEF Start
    <2>2. CASE BeginShutdown
        BY <2>2 DEF BeginShutdown
    <2>3. CASE Stopped
        BY <2>3 DEF Stopped, Exit, TimedOut
    <2>4. CASE Listen
        BY <2>4 DEF Listen
    <2>5. CASE ListenerBreaks
        BY <2>5 DEF ListenerBreaks, MayListen
    <2>6. CASE Fatal
        BY <2>6 DEF Fatal, Exit
    <2>7. CASE ServerClosed
        BY <2>7 DEF ServerClosed
    <2>8. CASE Sigterm
        BY <2>8 DEF Sigterm, Exit
    <2>9. ASSUME NEW r \in Requests, Send(r)
          PROVE  StopInv'
        BY <2>9 DEF Send
    <2>10. ASSUME NEW r \in Requests, Respond(r)
          PROVE  StopInv'
        BY <2>10 DEF Respond
    <2>11. CASE Tick
        BY <2>11 DEF Tick, TimedOut
    <2>12. CASE UNCHANGED vars
        BY <2>12 DEF vars
    <2>. QED
        BY <2>1, <2>2, <2>3, <2>4, <2>5, <2>6, <2>7, <2>8, <2>9, <2>10,
            <2>11, <2>12 DEF Next
<1>. QED
    BY <1>1, <1>2, PTL DEF Spec

\* Wherever SIGTERM meets main and the server's goroutine, nobody is cut who
\* has not had the whole timeout, unless the listener broke, and the process is
\* gone before SIGKILL.
THEOREM OrderlyStopCorrect == Spec => []OrderlyStop
<1>1. StopInv => OrderlyStop
    BY ProcessAssumption DEF StopInv, TypeOK, Clock, OrderlyStop,
        ExitsBeforeKill
<1>. QED
    BY <1>1, StopInvCorrect, PTL
=============================================================================
