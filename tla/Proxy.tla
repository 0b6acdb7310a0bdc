------------------------------- MODULE Proxy -------------------------------
(***************************************************************************)
(* The request path of one service, internal/proxy/proxy.go: a request     *)
(* asks the balancer for an upstream, that upstream's circuit breaker      *)
(* admits or rejects it, and the reverse proxy's hooks report the outcome  *)
(* to the same breaker.  The balancer is RoundRobin; what the health       *)
(* checker stores changes at any time (Serving joins the two).             *)
(***************************************************************************)
EXTENDS CircuitBreaker, Sequences, Functions

CONSTANTS
    Requests, urls, CounterSize, NoHealthy,   \* see RoundRobin
    Oversize    \* the requests whose body may exceed max_body_bytes

Urls == Range(urls)

ASSUME ProxyAssumption ==
    /\ urls \in Seq(Urls) /\ Len(urls) > 0
    /\ CounterSize \in Nat \ {0}
    /\ NoHealthy \notin Urls
    /\ Oversize \subseteq Requests

VARIABLES
    healthy, counter, pc, tries, pick,   \* RoundRobin
    brk,         \* per upstream: its circuit breaker
    stage,       \* per request: how far it is, see Stages
    target,      \* per request: the upstream in its context, or NoHealthy
    test, late   \* requests in flight, see Breaker               (history)

balancerVars == <<healthy, counter, pc, tries, pick>>
vars == <<balancerVars, brk, stage, target, test, late>>

RR == INSTANCE RoundRobin WITH Callers <- Requests

Answered == {"upstream", "noHealthy", "breakerOpen", "tooLarge", "badGateway"}
InProxy  == {"proxied", "upgrading"}
Stages   == {"idle", "balancing"} \cup InProxy \cup Answered

TypeOK ==
    /\ RR!TypeOK
    /\ brk \in [Urls -> BreakerState]
    /\ stage \in [Requests -> Stages]
    /\ target \in [Requests -> Urls \cup {NoHealthy}]
    /\ \A r \in Requests : stage[r] \in InProxy => target[r] \in Urls
    /\ test \subseteq Requests
    /\ late \subseteq Requests

Init ==
    /\ RR!Init
    /\ brk = [u \in Urls |-> NewBreaker]
    /\ stage = [r \in Requests |-> "idle"]
    /\ target = [r \in Requests |-> NoHealthy]
    /\ test = {}
    /\ late = {}

----------------------------------------------------------------------------

\* A request reaches ServeHTTP, which calls h.lb.Next().
Accept(r) ==
    /\ stage[r] = "idle"
    /\ stage' = [stage EXCEPT ![r] = "balancing"]
    /\ RR!Begin(r)
    /\ UNCHANGED <<brk, target, test, late>>

\* A step of lb.Next.
Balance(r) ==
    /\ RR!Ticket(r) \/ RR!Look(r)
    /\ UNCHANGED <<brk, stage, target, test, late>>

\* The handler has answered the request.
Reply(r, answer) ==
    /\ stage' = [stage EXCEPT ![r] = answer]
    /\ target' = [target EXCEPT ![r] = NoHealthy]
    /\ test' = test \ {r}

\* lb.Next returned an error: 503.
NoUpstream(r) ==
    /\ stage[r] = "balancing"
    /\ RR!Consume(r)
    /\ pick[r] = NoHealthy
    /\ Reply(r, "noHealthy")
    /\ UNCHANGED <<brk, late>>

\* Slip: a rejected request counts as a failure of the upstream.
RejectCounts(r) ==
    /\ stage[r] = "balancing"
    /\ RR!Consume(r)
    /\ pick[r] # NoHealthy
    /\ ~Admits(brk[pick[r]])
    /\ Reply(r, "breakerOpen")
    /\ brk' = [brk EXCEPT ![pick[r]] = AfterFailure(@)]
    /\ UNCHANGED late

\* breaker.Allow returned ErrOpen: 503, no other upstream is tried.
Reject(r) ==
    /\ stage[r] = "balancing"
    /\ RR!Consume(r)
    /\ pick[r] # NoHealthy
    /\ ~Admits(brk[pick[r]])
    /\ Reply(r, "breakerOpen")
    /\ UNCHANGED <<brk, late>>

\* breaker.Allow returned nil: the request goes to the reverse proxy with the
\* upstream in its context, from where every later hook takes it.
Forward(r) ==
    /\ stage[r] = "balancing"
    /\ RR!Consume(r)
    /\ pick[r] # NoHealthy
    /\ Admits(brk[pick[r]])
    /\ brk' = [brk EXCEPT ![pick[r]] = AfterAllow(@)]
    /\ stage' = [stage EXCEPT ![r] = "proxied"]
    /\ target' = [target EXCEPT ![r] = pick[r]]
    /\ test' = IF brk[pick[r]].state = Open THEN test \cup {r} ELSE test
    /\ UNCHANGED late

At(u) == {r \in Requests : stage[r] \in InProxy /\ target[r] = u}

\* The target's breaker hears of a success, or of a failure.
Succeed(r) == brk' = [brk EXCEPT ![target[r]] = AfterSuccess(@)]

Fail(r) ==
    /\ brk' = [brk EXCEPT ![target[r]] = AfterFailure(@)]
    /\ late' = (late \cup {q \in At(target[r]) : Trips(brk[target[r]])}) \ {r}

\* ModifyResponse on a response below 500, or from 500 on.
GoodResponse(r) ==
    /\ stage[r] = "proxied"
    /\ Succeed(r)
    /\ Reply(r, "upstream")
    /\ late' = late \ {r}
    /\ UNCHANGED balancerVars

BadResponse(r) ==
    /\ stage[r] = "proxied"
    /\ Fail(r)
    /\ Reply(r, "upstream")
    /\ UNCHANGED balancerVars

\* ModifyResponse on a 101: below 500, hence a success; the reverse proxy then
\* fails to hijack the connection, and ErrorHandler follows.
Upgrade(r) ==
    /\ stage[r] = "proxied"
    /\ Succeed(r)
    /\ stage' = [stage EXCEPT ![r] = "upgrading"]
    /\ UNCHANGED <<balancerVars, target, test, late>>

\* ErrorHandler on a body over the limit: the client's fault, not reported.
BodyTooLarge(r) ==
    /\ r \in Oversize
    /\ stage[r] = "proxied"
    /\ Reply(r, "tooLarge")
    /\ late' = late \ {r}
    /\ UNCHANGED <<balancerVars, brk>>

\* ErrorHandler on anything else: connection refused or reset, a timeout, the
\* client gone, an upgrade that cannot be made.
ProxyError(r) ==
    /\ stage[r] \in InProxy
    /\ Fail(r)
    /\ Reply(r, "badGateway")
    /\ UNCHANGED balancerVars

\* The handler returns.
Done(r) ==
    /\ stage[r] \in Answered
    /\ stage' = [stage EXCEPT ![r] = "idle"]
    /\ UNCHANGED <<balancerVars, brk, target, test, late>>

\* Time passes for all breakers.
Tick ==
    /\ brk' = [u \in Urls |-> AfterTick(brk[u])]
    /\ UNCHANGED <<balancerVars, stage, target, test, late>>

\* The health checker stores a verdict.
SetHealth(u) ==
    /\ RR!SetHealth(u)
    /\ UNCHANGED <<brk, stage, target, test, late>>

Outcome(r) ==
    GoodResponse(r) \/ BadResponse(r) \/ Upgrade(r) \/ BodyTooLarge(r) \/ ProxyError(r)

Handle(r) ==
    Balance(r) \/ NoUpstream(r) \/ Reject(r) \/ Forward(r) \/ Outcome(r) \/ Done(r)

Next ==
    \/ \E r \in Requests : Accept(r) \/ Handle(r)
    \/ \E u \in Urls : SetHealth(u)
    \/ Tick

Spec == Init /\ [][Next]_vars

\* Clients keep sending, the clock runs, and no handler hangs for ever: every
\* upstream answers or its client gives up.
FairSpec ==
    /\ Spec
    /\ WF_vars(Tick)
    /\ \A r \in Requests : WF_vars(Accept(r)) /\ WF_vars(Handle(r))

----------------------------------------------------------------------------

\* Each upstream's breaker, with the requests at that upstream as its callers.
B(u) == INSTANCE Breaker WITH
    Callers <- Requests,
    Unrecorded <- Oversize,
    brk <- brk[u],
    call <- [r \in Requests |-> IF r \notin At(u) THEN "idle"
                                ELSE IF stage[r] = "proxied" THEN "admitted"
                                ELSE "upgrading"],
    test <- test \cap At(u),
    late <- late \cap At(u)

\* The proxy uses every breaker as Breaker assumes: one report at most per
\* admitted request (two for an upgrade), always to the breaker that admitted
\* it, and none from a request that was turned away.  All that is shown of one
\* breaker therefore holds of each upstream's.
BreakersImplemented ==
    /\ \A u \in Urls : B(u)!Init
    /\ [][\A u \in Urls : [B(u)!Next]_(B(u)!vars)]_vars

\* From some moment on every upstream is healthy and every request admitted
\* gets a good response.
Calm ==
    /\ <>[](\A u \in Urls : healthy[u])
    /\ <>[][\A r \in Requests :
               ~(BadResponse(r) \/ Upgrade(r) \/ BodyTooLarge(r) \/ ProxyError(r))]_vars

\* A breaker "stays open for the given timeout before allowing a test request":
\* once calm, every breaker closes for good, because the rotation brings each
\* upstream the test request it waits for.
ServiceRecovers ==
    Calm => \A u \in Urls : <>[](brk[u].state = Closed)

\* The breaker waits for the report of a test request that is no longer there.
Abandoned(u) == brk[u].state = HalfOpen /\ At(u) = {}

\* A test request that was never reported is all that can stand in the way: once
\* calm, every breaker closes for good or has been abandoned half-open.
RecoversUnlessAbandoned ==
    Calm => \A u \in Urls : <>[](brk[u].state = Closed) \/ <>[]Abandoned(u)
=============================================================================
