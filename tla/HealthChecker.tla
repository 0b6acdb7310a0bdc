--------------------------- MODULE HealthChecker ---------------------------
(***************************************************************************)
(* internal/health/checker.go for one service: the startup Probe, Start's  *)
(* first pass, and the ticker goroutine, all running checkAll, which sends *)
(* one request per upstream and waits for the answers.                     *)
(*                                                                         *)
(* An upstream's condition changes on its own.  A check samples it when    *)
(* the request is answered and stores the verdict in a later step.         *)
(***************************************************************************)
CONSTANT Urls

VARIABLES
    up,        \* upstreams whose health endpoint answers 200 (environment)
    ctx,       \* the signal context: "live" or "cancelled"
    phase,     \* "probe", "start", "run", or at the end "refused", "stopped"
    check,     \* per upstream, the check in progress: "none", "sent",
               \* or answered and about to be stored: "yes", "no"
    status,    \* the sync.Map; an absent entry reads as unhealthy
    everUp,    \* upstreams up at some moment since the start     (history)
    everDown   \* upstreams down at some moment since the start   (history)

environment == <<up, everUp, everDown>>
vars == <<environment, ctx, phase, check, status>>

TypeOK ==
    /\ up \subseteq Urls
    /\ ctx \in {"live", "cancelled"}
    /\ phase \in {"probe", "start", "run", "refused", "stopped"}
    /\ check \in [Urls -> {"none", "sent", "yes", "no"}]
    /\ status \in [Urls -> BOOLEAN]
    /\ everUp \subseteq Urls
    /\ everDown \subseteq Urls

AllSent == [u \in Urls |-> "sent"]

\* Slip: the wait group counts one check only.
RoundOverEarly == \E u \in Urls : check[u] = "none"

\* wg.Wait has returned.
RoundOver == \A u \in Urls : check[u] = "none"

\* The process starts with Probe's checkAll.
Init ==
    /\ up \in SUBSET Urls
    /\ ctx = "live"
    /\ phase = "probe"
    /\ check = AllSent
    /\ status = [u \in Urls |-> FALSE]
    /\ everUp = up
    /\ everDown = Urls \ up

----------------------------------------------------------------------------

IsHealthy(u) == status[u]

\* client.Do returns: 200, or another status, an error or the client's
\* timeout.  A cancelled context fails the request, unless the answer wins.
Answer(u) ==
    /\ check[u] = "sent"
    /\ \/ u \in up /\ check' = [check EXCEPT ![u] = "yes"]
       \/ (u \notin up \/ ctx = "cancelled") /\ check' = [check EXCEPT ![u] = "no"]
    /\ UNCHANGED <<environment, ctx, phase, status>>

\* Slip: only a passed check is stored.
StoreOnlyTrue(u) ==
    /\ check[u] \in {"yes", "no"}
    /\ status' = [status EXCEPT ![u] = @ \/ check[u] = "yes"]
    /\ check' = [check EXCEPT ![u] = "none"]
    /\ UNCHANGED <<environment, ctx, phase>>

\* c.status.Store(url, ...)
Store(u) ==
    /\ check[u] \in {"yes", "no"}
    /\ status' = [status EXCEPT ![u] = check[u] = "yes"]
    /\ check' = [check EXCEPT ![u] = "none"]
    /\ UNCHANGED <<environment, ctx, phase>>

\* Slip: Probe's verdict is not looked at.
ProbeReturnsNil ==
    /\ phase = "probe"
    /\ RoundOver
    /\ phase' = "start" /\ check' = AllSent
    /\ UNCHANGED <<environment, ctx, status>>

\* Probe returns: an error ends the process, nil leads on to Start, which
\* begins with a pass of its own.
ProbeReturns ==
    /\ phase = "probe"
    /\ RoundOver
    /\ \/ (\E u \in Urls : IsHealthy(u)) /\ phase' = "start" /\ check' = AllSent
       \/ (\A u \in Urls : ~IsHealthy(u)) /\ phase' = "refused" /\ check' = check
    /\ UNCHANGED <<environment, ctx, status>>

\* Start returns, leaving its goroutine behind.
StartReturns ==
    /\ phase = "start"
    /\ RoundOver
    /\ phase' = "run"
    /\ UNCHANGED <<environment, ctx, check, status>>

\* Slip: only upstreams known as healthy are checked again.
TickSkipsUnhealthy ==
    /\ phase = "run"
    /\ RoundOver
    /\ check' = [u \in Urls |-> IF status[u] THEN "sent" ELSE "none"]
    /\ UNCHANGED <<environment, ctx, phase, status>>

\* case <-ticker.C.  It may be chosen although ctx.Done is ready as well.
Tick ==
    /\ phase = "run"
    /\ RoundOver
    /\ check' = AllSent
    /\ UNCHANGED <<environment, ctx, phase, status>>

\* case <-ctx.Done
Stop ==
    /\ phase = "run"
    /\ RoundOver
    /\ ctx = "cancelled"
    /\ phase' = "stopped"
    /\ UNCHANGED <<environment, ctx, check, status>>

\* SIGTERM or SIGINT.
Cancel ==
    /\ ctx = "live"
    /\ ctx' = "cancelled"
    /\ UNCHANGED <<environment, phase, check, status>>

\* An upstream goes down or comes back.
Flip(u) ==
    /\ up' = IF u \in up THEN up \ {u} ELSE up \cup {u}
    /\ everUp' = everUp \cup up'
    /\ everDown' = everDown \cup (Urls \ up')
    /\ UNCHANGED <<ctx, phase, check, status>>

Checking == (\E u \in Urls : Answer(u) \/ Store(u)) \/ ProbeReturns \/ StartReturns

Next == Checking \/ Tick \/ Stop \/ Cancel \/ (\E u \in Urls : Flip(u))

Spec == Init /\ [][Next]_vars

----------------------------------------------------------------------------

\* "the gateway refuses to boot with all upstreams of a service dead": past
\* Probe, some upstream has been up at some moment since the process started.
NoDeadBoot == phase \notin {"probe", "refused"} => everUp # {}

\* Until shutdown, an upstream that has never been down is never reported
\* unhealthy once Probe has returned.
NoFalseAlarm ==
    ctx = "live" /\ phase \in {"start", "run"} =>
        \A u \in Urls \ everDown : IsHealthy(u)

Polling == phase = "run" /\ ctx = "live"

\* The balancer learns of recoveries and of outages: the verdict on an upstream
\* that stays up, or down, while the checker polls is right from some moment on.
VerdictsFollow ==
    \A u \in Urls :
        /\ <>[](u \in up /\ Polling) => <>[]IsHealthy(u)
        /\ <>[](u \notin up /\ Polling) => <>[]~IsHealthy(u)
=============================================================================
