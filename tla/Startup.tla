------------------------------ MODULE Startup ------------------------------
(***************************************************************************)
(* A gateway process from main to exit: config.Load, otel.Setup,           *)
(* buildRouter with the probes of all services, serving, drain, and the    *)
(* deferred shutdown of the telemetry providers.  os.Exit skips what is    *)
(* deferred.  Serving looks closer at the requests and the checks of one   *)
(* service.                                                                *)
(*                                                                         *)
(* External: chi panics on a pattern that does not begin with "/" or that  *)
(* is mounted already; errgroup cancels its context on the first error; a  *)
(* provider exports what it holds from time to time and when it is shut    *)
(* down, and either may fail.                                              *)
(***************************************************************************)
EXTENDS Config

CONSTANTS
    FirstServices, LaterServices,   \* entries a file may begin and go on with
    MaxServices,
    Upstreams                       \* the upstreams a service may have

ASSUME ServicesAssumption == FirstServices \cup LaterServices \subseteq Services

VARIABLES
    pc,        \* where main is
    why,       \* how the process ended: "" as long as it has not
    cfg,       \* what Load has made of the file and the environment so far
    ctx,       \* the signal context, "live" or "cancelled"
    alive,     \* telemetry providers made and not told to shut down
    pending,   \* providers that have not exported the telemetry of the last
               \* request
    failed,    \* providers that have failed to since then          (history)
    key,       \* the JWT public key is loaded
    redis,     \* there is a Redis client
    built,     \* the services registered so far: middleware and arguments
    up,        \* upstreams that answer, as <<service, upstream>>  (environment)
    check,     \* per service being probed and upstream: "out", "ok", "failed"
    polling,   \* number of checkers started
    everDown,  \* upstreams that did not answer at some moment of the
               \* probes                                             (history)
    listening, \* the server has its listener
    busy,      \* a request is in progress
    overdue    \* the drain ran into its deadline                   (history)

loading   == <<cfg>>
telemetry == <<alive, pending, failed>>
building  == <<key, redis, built>>
probing   == <<up, check, polling, everDown>>
serving   == <<listening, busy, overdue>>
vars == <<pc, why, loading, ctx, telemetry, building, probing, serving>>

Providers == <<"traces", "metrics", "logs">>

NewConfig ==
    [services |-> <<>>, rateLimit |-> None, circuitBreaker |-> None, compression |-> FALSE,
     settings |-> [s \in Settings |-> "unset"], OTelEndpoint |-> FALSE, JWTPublicKey |-> "unset"]

Init ==
    /\ pc = "services" /\ why = ""
    /\ cfg = NewConfig
    /\ ctx = "live"
    /\ alive = {} /\ pending = {} /\ failed = {}
    /\ key = FALSE /\ redis = FALSE /\ built = <<>>
    /\ up = {} /\ check = <<>> /\ polling = 0 /\ everDown = {}
    /\ listening = FALSE /\ busy = FALSE /\ overdue = FALSE

Goto(label) == pc' = label /\ UNCHANGED why

\* os.Exit, a panic, or the return of main.
End(cause) == pc' = "exit" /\ why' = cause

----------------------------------------------------------------------------
\* config.Load

\* The next service of the file passes validation, or fails it.
LoadService ==
    /\ pc = "services"
    /\ Len(cfg.services) < MaxServices
    /\ \E svc \in IF cfg.services = <<>> THEN FirstServices ELSE LaterServices :
          \/ /\ ServiceOK(svc, cfg.services)
             /\ cfg' = [cfg EXCEPT !.services = Append(@, WithServiceDefaults(svc))]
             /\ Goto("services")
          \/ ~ServiceOK(svc, cfg.services) /\ End("config") /\ UNCHANGED cfg
    /\ UNCHANGED <<ctx, telemetry, building, probing, serving>>

\* There are no more services, and there must be one.
LoadServicesEnd ==
    /\ pc = "services"
    /\ IF cfg.services = <<>> THEN End("config") ELSE Goto("limits")
    /\ UNCHANGED <<loading, ctx, telemetry, building, probing, serving>>

\* validateRateLimit and validateCircuitBreaker
LoadLimits ==
    /\ pc = "limits"
    /\ \E rl \in RateLimits \cup {None}, cb \in CircuitBreakers \cup {None} :
          \/ /\ RateLimitOK(rl) /\ CircuitBreakerOK(cb)
             /\ cfg' = [cfg EXCEPT !.rateLimit = WithRateLimitDefaults(rl), !.circuitBreaker = cb]
             /\ Goto("defaults")
          \/ ~(RateLimitOK(rl) /\ CircuitBreakerOK(cb)) /\ End("config") /\ UNCHANGED cfg
    /\ UNCHANGED <<ctx, telemetry, building, probing, serving>>

\* The defaults, and what Load takes from the environment.
LoadDefaults ==
    /\ pc = "defaults"
    /\ \E settings \in [Settings -> Signs], compression, endpoint \in BOOLEAN,
          path \in {"unset", "good", "bad"} :
          cfg' = [cfg EXCEPT !.settings = WithDefaults(settings, compression),
                             !.compression = compression,
                             !.OTelEndpoint = endpoint, !.JWTPublicKey = path]
    /\ Goto(IF cfg'.OTelEndpoint THEN "resource" ELSE "build")
    /\ UNCHANGED <<ctx, telemetry, building, probing, serving>>

----------------------------------------------------------------------------
\* otel.Setup

\* provider.Shutdown of some providers: each exports what it still holds, or
\* fails to, whatever becomes of the others.
ShutDown(providers) ==
    /\ alive' = alive \ providers
    /\ \E broken \in SUBSET providers :
          failed' = failed \cup broken /\ pending' = pending \ (providers \ broken)

\* A step of Setup makes a provider, if it is one that does, and goes on ...
SetupStep(at, made, next) ==
    /\ pc = at
    /\ alive' = alive \cup made
    /\ Goto(next)
    /\ UNCHANGED <<loading, ctx, pending, failed, building, probing, serving>>

\* ... or fails: it shuts down the providers named, and main exits.
SetupError(at, providers) ==
    /\ pc = at
    /\ ShutDown(providers)
    /\ End("setup")
    /\ UNCHANGED <<loading, ctx, building, probing, serving>>

MergeResource     == SetupStep("resource", {}, "traces") \/ SetupError("resource", {})
NewTracerProvider == SetupStep("traces", {"traces"}, "metrics") \/ SetupError("traces", {})
NewMeterProvider  == SetupStep("metrics", {"metrics"}, "logs") \/ SetupError("metrics", {"traces"})

\* Slip: when the log exporter fails only the tracer provider is shut down.
NewLoggerProviderHalfway ==
    SetupStep("logs", {"logs"}, "runtime") \/ SetupError("logs", {"traces"})

NewLoggerProvider ==
    SetupStep("logs", {"logs"}, "runtime") \/ SetupError("logs", {"traces", "metrics"})

\* runtime.Start, whose error path calls sdk.Shutdown
StartRuntime == SetupStep("runtime", {}, "build") \/ SetupError("runtime", Range(Providers))

----------------------------------------------------------------------------
\* buildRouter

\* metrics.NewMetrics fails, or RegisterUpstreamHealth.
InstrumentsFail ==
    /\ pc = "build" \/ (pc = "register" /\ Len(built) = Len(cfg.services))
    /\ End("build")
    /\ UNCHANGED <<loading, ctx, telemetry, building, probing, serving>>

\* loadPublicKey, if a path is set; then the client of Redis, if that is the
\* backend, with a ping.
LoadKey ==
    /\ pc = "build"
    /\ IF cfg.JWTPublicKey = "bad" THEN End("build") ELSE Goto("redis")
    /\ key' = (cfg.JWTPublicKey = "good")
    /\ UNCHANGED <<loading, ctx, telemetry, redis, built, probing, serving>>

WantsRedis == cfg.rateLimit # None /\ cfg.rateLimit.backend = "redis"

BuildRedisClient ==
    /\ pc = "redis"
    /\ \/ ~WantsRedis /\ Goto("register") /\ UNCHANGED redis
       \/ WantsRedis /\ Goto("register") /\ redis' = TRUE
       \/ WantsRedis /\ End("build") /\ UNCHANGED redis
    /\ UNCHANGED <<loading, ctx, telemetry, key, built, probing, serving>>

\* buildServiceLimiter: the backend, the key and the arguments, or None.
Limiter(svc) ==
    LET own    == svc.rateLimit # None
        limits == IF own THEN svc.rateLimit ELSE cfg.rateLimit
        sweeps == IF cfg.rateLimit = None THEN {"positive"}
                  ELSE {cfg.rateLimit.interval, cfg.rateLimit.maxIdle}
    IN  IF limits = None THEN None
        ELSE [backend |-> IF redis THEN "redis" ELSE "memory",
              keyBy   |-> IF own THEN svc.rateLimit.keyBy ELSE "ip",
              args    |-> {limits.rate, limits.burst} \cup (IF redis THEN {} ELSE sweeps)]

\* The middleware r.Route mounts in front of the handler, outermost first.
Chain(svc) ==
    LET When(condition, name) == IF condition THEN <<name>> ELSE <<>>
    IN  When(svc.auth, "JWTAuth")
        \o When(svc.roles, "RequireAnyRole")
        \o When(Limiter(svc) # None, "RateLimit")
        \o When(svc.cache # None, "Cache")
        \o When(cfg.compression, "Compress")

\* The arguments of the constructors a service's requests depend on: NewChecker,
\* NewTransport, MaxBody, http.Server and Setup, NewBreaker (MaxInt and an hour
\* without a circuit_breaker section), the limiter's, NewLRU, Compress.
Arguments(svc) ==
    {cfg.settings[x] : x \in {"healthInterval", "transport", "maxBodyBytes", "maxHeaderBytes"}}
    \cup (IF cfg.OTelEndpoint
          THEN {cfg.settings[x] : x \in {"metricInterval", "traceBatchTimeout", "logBatchTimeout"}}
          ELSE {})
    \cup (IF cfg.circuitBreaker = None THEN {} ELSE Range(cfg.circuitBreaker))
    \cup (IF Limiter(svc) = None THEN {} ELSE Limiter(svc).args)
    \cup (IF svc.cache = None THEN {} ELSE Range(svc.cache))
    \cup (IF cfg.compression THEN {cfg.settings["minBytes"]} ELSE {})

\* What becomes of one service: [prefix, chain, keyBy, args].
Built(svc) ==
    [prefix |-> svc.prefix, chain |-> Chain(svc), args |-> Arguments(svc),
     keyBy |-> IF Limiter(svc) = None THEN "" ELSE Limiter(svc).keyBy]

Mountable(svc) ==
    /\ svc.prefix \in Rooted
    /\ \A b \in Range(built) : MountPath(b.prefix) # MountPath(svc.prefix)

\* One turn of the loop over cfg.Services: a service that needs a key the gateway
\* does not have is an error, a prefix chi does not take is a panic, which runs
\* the deferred sdk.Shutdown on its way out.
Register ==
    /\ pc = "register"
    /\ Len(built) < Len(cfg.services)
    /\ LET svc == cfg.services[Len(built) + 1]
       IN  \/ svc.auth /\ ~key /\ End("build") /\ UNCHANGED <<telemetry, built>>
           \/ /\ (svc.auth => key) /\ ~Mountable(svc)
              /\ End("panic") /\ ShutDown(alive) /\ UNCHANGED built
           \/ /\ (svc.auth => key) /\ Mountable(svc)
              /\ built' = Append(built, Built(svc))
              /\ Goto("register") /\ UNCHANGED telemetry
    /\ UNCHANGED <<loading, ctx, key, redis, probing, serving>>

\* The upstreams that are checked, as pairs.
Checked(checks) == UNION {{s} \X DOMAIN checks[s] : s \in DOMAIN checks}

\* All services are registered, and a probe of each is sent off, which checks each
\* of its upstreams.  From here on nothing looks at their configuration: they are
\* known by their number.
SendProbes ==
    /\ pc = "register"
    /\ Len(built) = Len(cfg.services)
    /\ Goto("probe")
    /\ check' \in [DOMAIN built -> {[u \in us |-> "out"] : us \in SUBSET Upstreams \ {{}}}]
    /\ up' \in SUBSET Checked(check')
    /\ everDown' = Checked(check') \ up'
    /\ cfg' = [NewConfig EXCEPT !.OTelEndpoint = cfg.OTelEndpoint]
    /\ built' = <<>>
    /\ UNCHANGED <<ctx, telemetry, key, redis, polling, serving>>

\* Probe: all checks are in and none found the upstream healthy.
ProbeFailed(s) == \A u \in DOMAIN check[s] : check[s][u] = "failed"

\* Slip: the first probe that returns cancels the others.
ProbesCancelledAlways ==
    ctx = "cancelled" \/ \E s \in DOMAIN check : \A u \in DOMAIN check[s] : check[s][u] # "out"

\* gctx is done: by the signal, or by another probe's error.
ProbesCancelled == ctx = "cancelled" \/ \E s \in DOMAIN check : ProbeFailed(s)

\* The check of one upstream ends, at a moment of its own.
CheckReturns(s, u) ==
    /\ pc = "probe" /\ s \in DOMAIN check /\ u \in DOMAIN check[s]
    /\ check[s][u] = "out"
    /\ \/ <<s, u>> \in up /\ check' = [check EXCEPT ![s][u] = "ok"]
       \/ (<<s, u>> \notin up \/ ProbesCancelled) /\ check' = [check EXCEPT ![s][u] = "failed"]
    /\ UNCHANGED <<pc, why, loading, ctx, telemetry, building, up, polling, everDown, serving>>

ChecksIn == \A s \in DOMAIN check : \A u \in DOMAIN check[s] : check[s][u] # "out"

\* Slip: only successes are waited for.
ProbesDoneIfOK ==
    /\ pc = "probe"
    /\ ChecksIn /\ ~\E s \in DOMAIN check : ProbeFailed(s)
    /\ Goto("start")
    /\ check' = [s \in DOMAIN check |-> <<>>]
    /\ up' = {} /\ everDown' = {}
    /\ UNCHANGED <<loading, ctx, telemetry, building, polling, serving>>

\* g.Wait returns: the error of a probe is buildRouter's.  Without one, what the
\* probes found is of no more use here.
ProbesDone ==
    /\ pc = "probe"
    /\ ChecksIn
    /\ IF \E s \in DOMAIN check : ProbeFailed(s)
       THEN End("probe") /\ UNCHANGED <<up, check, everDown>>
       ELSE Goto("start") /\ check' = [s \in DOMAIN check |-> <<>>] /\ up' = {} /\ everDown' = {}
    /\ UNCHANGED <<loading, ctx, telemetry, building, polling, serving>>

\* checker.Start, one service after the other; each waits for its first pass.
StartChecker ==
    /\ pc = "start"
    /\ polling' = polling + 1
    /\ Goto(IF polling' = Len(check) THEN "serve" ELSE "start")
    /\ UNCHANGED <<loading, ctx, telemetry, building, up, check, everDown, serving>>

\* An upstream goes down or comes back.
Flip(s, u) ==
    /\ pc = "probe" /\ <<s, u>> \in Checked(check)
    /\ up' = IF <<s, u>> \in up THEN up \ {<<s, u>>} ELSE up \cup {<<s, u>>}
    /\ everDown' = everDown \cup (Checked(check) \ up')
    /\ UNCHANGED <<pc, why, loading, ctx, telemetry, building, check, polling, serving>>

----------------------------------------------------------------------------
\* main, from ListenAndServe on

\* SIGTERM or SIGINT.  Until NotifyContext is called it kills the process.
Signal ==
    /\ pc \notin {"services", "limits", "defaults", "exit"}
    /\ ctx = "live"
    /\ ctx' = "cancelled"
    /\ UNCHANGED <<pc, why, loading, telemetry, building, probing, serving>>

\* srv.ListenAndServe, in a goroutine of its own: once Shutdown has been called it
\* does not begin to listen any more ...
Listen ==
    /\ pc = "serve" /\ ~listening
    /\ listening' = TRUE
    /\ UNCHANGED <<pc, why, loading, ctx, telemetry, building, probing, busy, overdue>>

\* ... but may still fail to, whatever main is doing by then.
ListenFails ==
    /\ pc = "serve" \/ (pc \in {"drain", "flush"} /\ ~listening)
    /\ End("listen")
    /\ UNCHANGED <<loading, ctx, telemetry, building, probing, serving>>

\* A request comes in.  While Shutdown waits, and after it has given up, that may
\* be the first one of a connection that was there before.
Accept ==
    /\ pc \in {"serve", "drain"} \/ (pc = "flush" /\ overdue)
    /\ listening /\ ~busy
    /\ busy' = TRUE
    /\ UNCHANGED <<pc, why, loading, ctx, telemetry, building, probing, listening, overdue>>

\* A request ends, and its span, log line and counts go to the providers; one that
\* has been shut down will not export them.
Finish ==
    /\ pc # "exit" /\ busy
    /\ busy' = FALSE
    /\ pending' = IF cfg.OTelEndpoint THEN Range(Providers) ELSE {}
    /\ failed' = {}
    /\ UNCHANGED <<pc, why, loading, ctx, alive, building, probing, listening, overdue>>

\* A provider's interval has passed: it exports what it holds, or fails to.
Export(p) ==
    /\ pc # "exit" /\ p \in alive \cap pending
    /\ \/ pending' = pending \ {p} /\ UNCHANGED failed
       \/ failed' = failed \cup {p} /\ UNCHANGED pending
    /\ UNCHANGED <<pc, why, loading, ctx, alive, building, probing, serving>>

\* <-ctx.Done, then srv.Shutdown ...
Shutdown ==
    /\ pc = "serve" /\ ctx = "cancelled"
    /\ Goto("drain")
    /\ UNCHANGED <<loading, ctx, telemetry, building, probing, serving>>

\* Slip: main does not wait for Shutdown.
DrainedAtOnce ==
    /\ pc = "drain"
    /\ Goto("flush")
    /\ UNCHANGED <<loading, ctx, telemetry, building, probing, serving>>

\* ... which returns when no request is in progress ...
Drained ==
    /\ pc = "drain" /\ ~busy
    /\ Goto("flush")
    /\ UNCHANGED <<loading, ctx, telemetry, building, probing, serving>>

\* ... or when the ten seconds are over; its error is logged.
DrainTimesOut ==
    /\ pc = "drain"
    /\ overdue' = TRUE
    /\ Goto("flush")
    /\ UNCHANGED <<loading, ctx, telemetry, building, probing, listening, busy>>

\* Slip: the first provider that fails is the last to be shut down.
FlushUntilError ==
    /\ pc = "flush"
    /\ \/ \E i \in DOMAIN Providers :
             /\ failed = {}
             /\ Providers[i] \in alive /\ \A j \in 1..(i - 1) : Providers[j] \notin alive
             /\ ShutDown({Providers[i]})
             /\ Goto("flush")
       \/ (alive = {} \/ failed # {}) /\ End("done") /\ UNCHANGED telemetry
    /\ UNCHANGED <<loading, ctx, building, probing, serving>>

\* The deferred sdk.Shutdown, if there is one, provider by provider: its error, or
\* the end of its five seconds, is only logged.  Then main returns.
Flush ==
    /\ pc = "flush"
    /\ \/ \E i \in DOMAIN Providers :
             /\ Providers[i] \in alive /\ \A j \in 1..(i - 1) : Providers[j] \notin alive
             /\ ShutDown({Providers[i]})
             /\ Goto("flush")
       \/ alive = {} /\ End("done") /\ UNCHANGED telemetry
    /\ UNCHANGED <<loading, ctx, building, probing, serving>>

Load == LoadService \/ LoadServicesEnd \/ LoadLimits \/ LoadDefaults
Setup ==
    \/ MergeResource \/ NewTracerProvider \/ NewMeterProvider \/ NewLoggerProvider
    \/ StartRuntime
Build ==
    \/ InstrumentsFail \/ LoadKey \/ BuildRedisClient \/ Register \/ SendProbes
    \/ ProbesDone \/ StartChecker
Serve ==
    \/ Listen \/ ListenFails \/ Accept \/ Finish
    \/ \E p \in Range(Providers) : Export(p)
    \/ Shutdown \/ Drained \/ DrainTimesOut \/ Flush

Next ==
    \/ Load \/ Setup \/ Build
    \/ \E s \in DOMAIN check, u \in Upstreams : CheckReturns(s, u) \/ Flip(s, u)
    \/ Signal \/ Serve

Spec == Init /\ [][Next]_vars

\* Every step of boot returns, at the latest by a timeout of its own: five
\* seconds for the ping, two for a check.
FairSpec ==
    /\ Spec
    /\ WF_vars(Load \/ Setup \/ Build)
    /\ \A s \in 1..MaxServices, u \in Upstreams : WF_vars(CheckReturns(s, u))

----------------------------------------------------------------------------

\* What a component assumes of its arguments and of its place is given in every
\* accepted configuration: intervals (NewTicker panics on others), rates and
\* sizes are positive; "RequireAnyRole ... Must be used after JWTAuth", and so
\* must KeyByJWTSub.
BuiltAsAssumed ==
    \A b \in Range(built) :
        /\ b.args = {"positive"}
        /\ "RequireAnyRole" \in Range(b.chain) \/ b.keyBy = "jwt_sub" => Head(b.chain) = "JWTAuth"

\* A Setup that fails has shut down every provider it had made: each of its five
\* error paths names the right ones.
SetupLeaksNothing == why = "setup" => alive = {}

\* "Call Shutdown on application exit to flush buffered telemetry data": when
\* main returns, the telemetry of every request has been exported, unless its
\* provider failed at that, which is no excuse for the others, or the drain ran
\* into its deadline, so that requests ended behind the shutdown's back.
TelemetryKept == why = "done" /\ ~overdue => pending \subseteq failed

\* The same of every end of the process.
FlushedAtExit == pc = "exit" /\ ~overdue => pending \subseteq failed

\* The startup probes refuse to boot only if each upstream of some service was
\* down at some moment meanwhile, though not all at the same, or the process was
\* told to stop: a probe that succeeds does not fail the others, and one that
\* fails them has a cause of its own.
RefusalHasCause ==
    why = "probe" =>
        \/ ctx = "cancelled"
        \/ \E s \in DOMAIN check : \A u \in DOMAIN check[s] : <<s, u>> \in everDown

\* buildRouter "returns an error instead of exiting".
BuildReturns == why # "panic"

\* Boot comes to an end, whatever fails in it.
BootEnds == <>(pc \in {"serve", "exit"})
=============================================================================
