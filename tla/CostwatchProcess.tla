--------------------------- MODULE CostwatchProcess ---------------------------
(***************************************************************************)
(* The costwatch process (cmd/costwatch/main.go:66-92): main registers for *)
(* SIGTERM, starts the server in a goroutine, waits for the signal, and    *)
(* shuts the server down; the goroutine may end the process as well.       *)
(*                                                                         *)
(* Unlike sample-api it closes its listener at once.  The clock counts     *)
(* seconds and starts with SIGTERM, which may come before anything else.   *)
(***************************************************************************)
EXTENDS Naturals

CONSTANTS
    Requests,
    ShutdownTimeout,  \* 10 s
    Grace,            \* terminationGracePeriodSeconds
    Slack             \* how late a timer may fire

ASSUME ProcessAssumption ==
    /\ {ShutdownTimeout, Grace, Slack} \subseteq Nat
    /\ Slack + ShutdownTimeout + Slack < Grace

VARIABLES
    now,        \* seconds since SIGTERM
    signalled,  \* SIGTERM has been sent
    main,       \* where main is
    server,     \* the goroutine of ListenAndServe
    broke,      \* history: ListenAndServe returned another error than
                \* ErrServerClosed
    closed,     \* the server's inShutdown flag
    deadline,   \* of shutdownCtx
    exitCode,   \* NoCode while the process runs
    request     \* what became of each request

vars == <<now, signalled, main, server, broke, closed, deadline, exitCode,
          request>>

NoCode == 999
Running == exitCode = NoCode
Handling == {r \in Requests : request[r] = "handling"}

Init ==
    /\ now = 0
    /\ signalled = FALSE
    /\ main = "setup"
    /\ server = "none"
    /\ broke = FALSE
    /\ closed = FALSE
    /\ deadline = 0
    /\ exitCode = NoCode
    /\ request = [r \in Requests |-> "unsent"]

\* The process is gone, and with it the requests it was handling.
Exit(code) ==
    /\ exitCode' = code
    /\ request' = [r \in Requests |->
                    IF r \in Handling THEN "cut" ELSE request[r]]

-----------------------------------------------------------------------------
(* main.                                                                   *)

\* signal.NotifyContext, then go func.
Start ==
    /\ Running
    /\ main = "setup"
    /\ main' = "waiting"
    /\ server' = "starting"
    /\ UNCHANGED <<now, signalled, broke, closed, deadline, exitCode, request>>

\* ctx.Done: Shutdown sets its flag and closes the listener.
BeginShutdown ==
    /\ Running
    /\ main = "waiting"
    /\ signalled
    /\ main' = "shutting"
    /\ closed' = TRUE
    /\ deadline' = now + ShutdownTimeout
    /\ UNCHANGED <<now, signalled, server, broke, exitCode, request>>

\* shutdownCtx is done.
TimedOut == now >= deadline

\* Shutdown returns, its error is dropped, main returns.
Stopped ==
    /\ Running
    /\ main = "shutting"
    /\ Handling = {} \/ TimedOut
    /\ main' = "returned"
    /\ Exit(0)
    /\ UNCHANGED <<now, signalled, server, broke, closed, deadline>>

-----------------------------------------------------------------------------
(* The goroutine.                                                          *)

\* A server that has been shut down neither starts to listen nor accepts.
MayListen == ~ closed

Listen ==
    /\ Running
    /\ server = "starting"
    /\ MayListen
    /\ server' = "listening"
    /\ UNCHANGED <<now, signalled, main, broke, closed, deadline, exitCode,
                   request>>

\* The port is taken, or accepting fails for good: ListenAndServe returns, and
\* requests it has accepted run on.
ListenerBreaks ==
    /\ Running
    /\ server \in {"starting", "listening"}
    /\ MayListen
    /\ server' = "failing"
    /\ broke' = TRUE
    /\ UNCHANGED <<now, signalled, main, closed, deadline, exitCode, request>>

\* os.Exit(1), at once or when main is already shutting down.
Fatal ==
    /\ Running
    /\ server = "failing"
    /\ server' = "returned"
    /\ Exit(1)
    /\ UNCHANGED <<now, signalled, main, broke, closed, deadline>>

ServerClosedFatal ==  \* mutant: every error of ListenAndServe is fatal
    /\ Running
    /\ closed
    /\ server \in {"starting", "listening"}
    /\ server' = "failing"
    /\ UNCHANGED <<now, signalled, main, broke, closed, deadline, exitCode,
                   request>>

\* ErrServerClosed ends the goroutine and nothing else.
ServerClosed ==
    /\ Running
    /\ closed
    /\ server \in {"starting", "listening"}
    /\ server' = "returned"
    /\ UNCHANGED <<now, signalled, main, broke, closed, deadline, exitCode,
                   request>>

-----------------------------------------------------------------------------
(* The kubelet, the Service and the handlers.                              *)

\* Before NotifyContext the signal has its default action.
Sigterm ==
    /\ Running
    /\ ~ signalled
    /\ signalled' = TRUE
    /\ IF main = "setup" THEN Exit(143) ELSE UNCHANGED <<exitCode, request>>
    /\ UNCHANGED <<now, main, server, broke, closed, deadline>>

\* A request is accepted, or refused by a closed port.
Send(r) ==
    /\ request[r] = "unsent"
    /\ request' = [request EXCEPT ![r] =
            IF Running /\ server = "listening" /\ MayListen
            THEN "handling" ELSE "refused"]
    /\ UNCHANGED <<now, signalled, main, server, broke, closed, deadline,
                   exitCode>>

Respond(r) ==
    /\ Running
    /\ r \in Handling
    /\ request' = [request EXCEPT ![r] = "answered"]
    /\ UNCHANGED <<now, signalled, main, server, broke, closed, deadline,
                   exitCode>>

\* A second, unless a timer is due; SIGKILL comes when now is Grace.
Tick ==
    /\ Running
    /\ signalled
    /\ now < Grace
    /\ main = "waiting" => now < Slack
    /\ main = "shutting" /\ TimedOut => now < deadline + Slack
    /\ now' = now + 1
    /\ UNCHANGED <<signalled, main, server, broke, closed, deadline, exitCode,
                   request>>

Next ==
    \/ Start \/ BeginShutdown \/ Stopped
    \/ Listen \/ ListenerBreaks \/ Fatal \/ ServerClosed
    \/ Sigterm
    \/ \E r \in Requests : Send(r) \/ Respond(r)
    \/ Tick

Spec == Init /\ [][Next]_vars

-----------------------------------------------------------------------------
(* Properties.                                                             *)

\* A request is cut only if it outlasts the whole timeout: not by the goroutine
\* when Shutdown makes ListenAndServe return, not by a server that starts to
\* listen when main has already shut it down, not by SIGKILL (main.go:79-90).
\* A listener that breaks takes what was in flight with it, at any time, and the
\* exit code says so.
CutHadTheTimeout ==
    \A r \in Requests : request[r] = "cut" =>
        \/ exitCode = 0 /\ now >= ShutdownTimeout
        \/ exitCode = 1 /\ broke

\* Whatever is in flight, and wherever main was when SIGTERM came, the process
\* has ended before the kubelet kills it (main.go:88; deployment.yaml:21).
ExitsBeforeKill == now = Grace => ~ Running

\* On SIGTERM costwatch stops in order, whatever is in flight.
OrderlyStop == CutHadTheTimeout /\ ExitsBeforeKill
=============================================================================
