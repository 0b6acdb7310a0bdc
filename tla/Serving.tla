------------------------------ MODULE Serving ------------------------------
(***************************************************************************)
(* The life of the gateway process, cmd/gateway/main.go and buildRouter,   *)
(* around one service: boot behind the startup probe, serve, and drain on  *)
(* SIGTERM.  HealthChecker and RoundRobin are composed over the status     *)
(* map, healthy; one context, cancelled by the signal, reaches both the    *)
(* health checks and main.  The callers of Next are the requests.          *)
(***************************************************************************)
EXTENDS RoundRobinHistory

VARIABLES
    up, ctx, phase, check, everUp, everDown,   \* HealthChecker
    server,  \* "booting", "serving", "draining" or "exited"
    early    \* requests in progress accepted before the signal   (history)

checkerVars == <<up, ctx, phase, check, everUp, everDown>>
callVars    == <<counter, pc, tries, pick, alone>>
servingVars == <<historyVars, checkerVars, server, early>>

HC == INSTANCE HealthChecker WITH status <- healthy

ServingTypeOK ==
    /\ HC!TypeOK
    /\ HistoryTypeOK
    /\ server \in {"booting", "serving", "draining", "exited"}
    /\ early \subseteq Callers

ServingInit ==
    /\ HC!Init
    /\ HistoryInit
    /\ server = "booting"
    /\ early = {}

Running == server # "exited"
Built   == phase \in {"run", "stopped"}   \* buildRouter has returned

----------------------------------------------------------------------------

\* A step of the health checker.
Checks(step) ==
    /\ Running
    /\ step
    /\ Recheck
    /\ UNCHANGED <<callVars, server, early>>

CheckHealth == Checks(HC!Next)

\* buildRouter fails because Probe did: os.Exit(1).
BootFails ==
    /\ Running
    /\ phase = "refused"
    /\ server' = "exited"
    /\ UNCHANGED <<checkerVars, historyVars, early>>

\* The goroutine that runs ListenAndServe.
Listen ==
    /\ server = "booting"
    /\ Built
    /\ server' = "serving"
    /\ UNCHANGED <<checkerVars, historyVars, early>>

\* ListenAndServe returns an error, at once or later: os.Exit(1).
ListenFails ==
    /\ server \in {"booting", "serving"}
    /\ Built
    /\ server' = "exited"
    /\ UNCHANGED <<checkerVars, historyVars, early>>

\* <-ctx.Done in main, then srv.Shutdown: the listeners close, requests in
\* progress go on.  It may come before ListenAndServe, which then returns.
Shutdown ==
    /\ server \in {"booting", "serving"}
    /\ Built
    /\ ctx = "cancelled"
    /\ server' = "draining"
    /\ UNCHANGED <<checkerVars, historyVars, early>>

\* Slip: Shutdown is given a context without a deadline.
ExitNoDeadline ==
    /\ server = "draining"
    /\ \A r \in Callers : pc[r] = "idle"
    /\ server' = "exited"
    /\ UNCHANGED <<checkerVars, historyVars, early>>

\* srv.Shutdown returns, all requests being done or ten seconds having passed,
\* and main with it.
Exit ==
    /\ server = "draining"
    /\ server' = "exited"
    /\ UNCHANGED <<checkerVars, historyVars, early>>

\* A request arrives and calls lb.Next ...
Accept(r) ==
    /\ server = "serving"
    /\ HistoryBegin(r)
    /\ early' = IF ctx = "live" THEN early \cup {r} ELSE early
    /\ UNCHANGED <<checkerVars, server>>

\* ... takes a step of it ...
Balance(r) ==
    /\ Running
    /\ HistoryTicket(r) \/ HistoryLook(r)
    /\ UNCHANGED <<checkerVars, server, early>>

\* ... and is answered, with a 503 or through the proxy.
Answer(r) ==
    /\ Running
    /\ HistoryConsume(r)
    /\ early' = early \ {r}
    /\ UNCHANGED <<checkerVars, server>>

ServingNext ==
    \/ CheckHealth
    \/ BootFails
    \/ Listen
    \/ ListenFails
    \/ Shutdown
    \/ Exit
    \/ \E r \in Callers : Accept(r) \/ Balance(r) \/ Answer(r)

ServingSpec == ServingInit /\ [][ServingNext]_servingVars

\* Boot and shutdown are never blocked, the client's timeout ends every check and
\* the ticker goes on ticking; nothing is assumed of the requests.
FairServingSpec ==
    /\ ServingSpec
    /\ \A u \in Urls : WF_servingVars(Checks(HC!Answer(u) \/ HC!Store(u)))
    /\ WF_servingVars(Checks(HC!ProbeReturns \/ HC!StartReturns))
    /\ WF_servingVars(Checks(HC!Tick))
    /\ WF_servingVars(BootFails)
    /\ WF_servingVars(Shutdown)
    /\ WF_servingVars(Exit)

----------------------------------------------------------------------------

\* Until the process is told to stop, no request is refused for want of a
\* healthy upstream while every upstream has been up since the process began,
\* and one that no other request got in the way of only after each has been down:
\* boot order (Probe, Start, Listen), the polling and Next's loop leave no gap.
NoSpuriousOutage ==
    \A r \in Callers :
        Failed(r) /\ ctx = "live" => everDown # {} /\ (alone[r] => everDown = Urls)

\* "Graceful shutdown on SIGTERM/SIGINT": the signal changes nothing of that for
\* the requests accepted before it.
DrainIsGraceful == \A r \in early : Failed(r) => everDown # {}

\* A signal ends the process, from any stage of boot and whatever requests and
\* upstreams are doing: Shutdown's deadline sees to it.
SignalEnds == ctx = "cancelled" ~> server = "exited"

\* HealthChecker's promises, in the process it is part of: "the gateway refuses to
\* boot with all upstreams of a service dead" ...
NoDeadBoot == HC!NoDeadBoot /\ (server \in {"serving", "draining"} => everUp # {})

\* ... an upstream that has never been down is reported healthy until shutdown,
\* from the first request on ...
NoFalseAlarm ==
    /\ HC!NoFalseAlarm
    /\ server = "serving" /\ ctx = "live" => \A u \in Urls \ everDown : healthy[u]

\* ... and the verdicts follow the upstreams as long as the process runs.
VerdictsFollow == <>[]Running => HC!VerdictsFollow
=============================================================================
