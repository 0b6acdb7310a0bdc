--------------------------- MODULE StartupProofs ---------------------------
(***************************************************************************)
(* The safety of a gateway process from Load to exit, for any services,    *)
(* limits and settings a configuration may hold; and of the programs that  *)
(* come with it, for any number of requests in the example service, any    *)
(* limit on its connections and any number of users of the load test.      *)
(***************************************************************************)
EXTENDS Startup, Companions, FiniteSetTheorems, TLAPS

----------------------------------------------------------------------------
\* What validation leaves behind

AcceptedServices ==
    {svc \in Services :
        /\ svc.roles => svc.auth
        /\ svc.rateLimit # None =>
              /\ svc.rateLimit.rate = "positive"
              /\ svc.rateLimit.burst = "positive"
              /\ svc.rateLimit.keyBy = "jwt_sub" => svc.auth
        /\ svc.cache # None => \A f \in DOMAIN svc.cache : svc.cache[f] = "positive"}

AcceptedRateLimits ==
    {rl \in RateLimits : /\ rl.rate = "positive" /\ rl.burst = "positive"
                         /\ rl.interval = "positive" /\ rl.maxIdle = "positive"}

AcceptedCircuitBreakers ==
    {cb \in CircuitBreakers : cb.maxFailures = "positive" /\ cb.timeout = "positive"}

\* A service that passes ServiceOK is accepted once it has its defaults.
LEMMA ServiceAccepted ==
    ASSUME NEW svc \in Services, NEW earlier, ServiceOK(svc, earlier)
    PROVE  WithServiceDefaults(svc) \in AcceptedServices
<1> DEFINE d == WithServiceDefaults(svc)
<1>1. /\ svc.rateLimit \in ServiceRateLimits \cup {None}
      /\ svc.cache \in ServiceCaches \cup {None}
  BY DEF Services
<1>2. d.rateLimit \in ServiceRateLimits \cup {None}
  BY <1>1, Zenon DEF WithServiceDefaults, Services, ServiceRateLimits, KeyBys
<1>3. d.cache \in ServiceCaches \cup {None}
      /\ (d.cache # None => \A f \in DOMAIN d.cache : d.cache[f] = "positive")
  BY <1>1 DEF WithServiceDefaults, Services, ServiceCaches, Signs
<1>4. d \in Services /\ d.roles = svc.roles /\ d.auth = svc.auth
  BY <1>2, <1>3, Zenon DEF WithServiceDefaults, Services
<1>5. d.rateLimit # None =>
          /\ d.rateLimit.rate = "positive"
          /\ d.rateLimit.burst = "positive"
          /\ d.rateLimit.keyBy = "jwt_sub" => svc.auth
  BY <1>1, Zenon DEF WithServiceDefaults, Services, ServiceOK, ServiceRateLimitOK, ServiceRateLimits
<1> QED
  BY <1>3, <1>4, <1>5, Zenon DEF AcceptedServices, ServiceOK

\* So is a rate_limit section that passes RateLimitOK.
LEMMA RateLimitAccepted ==
    ASSUME NEW rl \in RateLimits \cup {None}, RateLimitOK(rl)
    PROVE  WithRateLimitDefaults(rl) \in AcceptedRateLimits \cup {None}
  BY Zenon DEF RateLimitOK, WithRateLimitDefaults, RateLimits, AcceptedRateLimits, Backends, Signs

----------------------------------------------------------------------------
\* What buildRouter makes of it

\* Concatenation keeps a first element, and adds no elements of its own.
LEMMA Concatenation ==
    ASSUME NEW S, NEW s \in Seq(S), NEW t \in Seq(S)
    PROVE  /\ s \o t \in Seq(S)
           /\ s # <<>> => Head(s \o t) = Head(s) /\ s \o t # <<>>
           /\ Range(s \o t) \subseteq Range(s) \cup Range(t)
<1>1. s \o t \in Seq(S) /\ (s # <<>> => Head(s \o t) = Head(s) /\ s \o t # <<>>)
  OBVIOUS
<1>2. ASSUME NEW i \in DOMAIN (s \o t) PROVE (s \o t)[i] \in Range(s) \cup Range(t)
  <2>1. CASE i <= Len(s)
    BY <1>2, <2>1 DEF Range
  <2>2. CASE i > Len(s)
    <3>1. i - Len(s) \in DOMAIN t /\ (s \o t)[i] = t[i - Len(s)]
      BY <1>2, <2>2
    <3> QED
      BY <3>1 DEF Range
  <2> QED
    BY <2>1, <2>2
<1> QED
  BY <1>1, <1>2 DEF Range

Layers == {"JWTAuth", "RequireAnyRole", "RateLimit", "Cache", "Compress"}

\* The chain of an accepted service: JWTAuth is its first layer if the service
\* wants authentication, and RequireAnyRole is there only in that case.
LEMMA ChainOrder ==
    ASSUME NEW svc \in AcceptedServices
    PROVE  /\ Chain(svc) \in Seq(Layers)
           /\ svc.auth => Head(Chain(svc)) = "JWTAuth"
           /\ "RequireAnyRole" \in Range(Chain(svc)) => svc.auth
<1> DEFINE When(condition, name) == IF condition THEN <<name>> ELSE <<>>
           a == When(svc.auth, "JWTAuth")
           b == When(svc.roles, "RequireAnyRole")
           c == When(Limiter(svc) # None, "RateLimit")
           d == When(svc.cache # None, "Cache")
           e == When(cfg.compression, "Compress")
<1>1. Chain(svc) = (((a \o b) \o c) \o d) \o e
  BY DEF Chain
<1>2. a \in Seq(Layers) /\ b \in Seq(Layers) /\ c \in Seq(Layers) /\ d \in Seq(Layers)
      /\ e \in Seq(Layers)
  <2>1. <<>> \in Seq(Layers) /\ \A name \in Layers : <<name>> \in Seq(Layers)
    OBVIOUS
  <2> QED
    BY <2>1, Zenon DEF Layers
<1>3. svc.auth => a # <<>> /\ Head(a) = "JWTAuth"
  OBVIOUS
<1>4. ~svc.auth => "RequireAnyRole" \notin Range(a) \cup Range(b) \cup Range(c) \cup Range(d) \cup Range(e)
  <2>1. svc.roles => svc.auth
    BY DEF AcceptedServices
  <2> QED
    BY <2>1 DEF Range
<1> HIDE DEF a, b, c, d, e
<1>5. /\ a \o b \in Seq(Layers) /\ Range(a \o b) \subseteq Range(a) \cup Range(b)
      /\ a # <<>> => Head(a \o b) = Head(a) /\ a \o b # <<>>
  BY <1>2, Concatenation
<1> DEFINE ab == a \o b
<1> HIDE DEF ab
<1>6. /\ ab \o c \in Seq(Layers) /\ Range(ab \o c) \subseteq Range(ab) \cup Range(c)
      /\ ab # <<>> => Head(ab \o c) = Head(ab) /\ ab \o c # <<>>
  BY <1>2, <1>5, Concatenation, Zenon DEF ab
<1> DEFINE abc == ab \o c
<1> HIDE DEF abc
<1>7. /\ abc \o d \in Seq(Layers) /\ Range(abc \o d) \subseteq Range(abc) \cup Range(d)
      /\ abc # <<>> => Head(abc \o d) = Head(abc) /\ abc \o d # <<>>
  BY <1>2, <1>6, Concatenation, Zenon DEF abc
<1> DEFINE abcd == abc \o d
<1> HIDE DEF abcd
<1>8. /\ abcd \o e \in Seq(Layers) /\ Range(abcd \o e) \subseteq Range(abcd) \cup Range(e)
      /\ abcd # <<>> => Head(abcd \o e) = Head(abcd) /\ abcd \o e # <<>>
  BY <1>2, <1>7, Concatenation, Zenon DEF abcd
<1>9. Chain(svc) = abcd \o e
  BY <1>1 DEF ab, abc, abcd
<1>10. svc.auth => Head(Chain(svc)) = "JWTAuth"
  BY <1>3, <1>5, <1>6, <1>7, <1>8, <1>9 DEF ab, abc, abcd
<1>11. ~svc.auth => "RequireAnyRole" \notin Range(Chain(svc))
  <2>1. Range(abcd \o e) \subseteq Range(a) \cup Range(b) \cup Range(c) \cup Range(d) \cup Range(e)
    BY <1>5, <1>6, <1>7, <1>8, Zenon DEF ab, abc, abcd
  <2> QED
    BY <1>4, <1>9, <2>1
<1> QED
  BY <1>8, <1>9, <1>10, <1>11, Zenon

Configs ==
    [services: Seq(AcceptedServices),
     rateLimit: AcceptedRateLimits \cup {None},
     circuitBreaker: AcceptedCircuitBreakers \cup {None},
     compression: BOOLEAN,
     settings: [Settings -> Signs],
     OTelEndpoint: BOOLEAN,
     JWTPublicKey: {"unset", "good", "bad"}]

\* The defaults have been applied.
DefaultsApplied ==
    \A x \in Settings : x # "minBytes" \/ cfg.compression => cfg.settings[x] = "positive"

\* Services registered as their components assume.
Registered ==
    {b \in [prefix: PathPrefixes, chain: Seq(Layers), args: {{"positive"}}, keyBy: KeyBys] :
        "RequireAnyRole" \in Range(b.chain) \/ b.keyBy = "jwt_sub" => Head(b.chain) = "JWTAuth"}

\* An accepted service is registered so.
LEMMA BuiltRegistered ==
    ASSUME cfg \in Configs, DefaultsApplied, NEW svc \in AcceptedServices
    PROVE  Built(svc) \in Registered
<1>1. svc \in Services /\ cfg.rateLimit \in AcceptedRateLimits \cup {None}
  BY DEF AcceptedServices, Configs
<1>2. Limiter(svc) # None =>
          /\ Limiter(svc).args \subseteq {"positive"}
          /\ Limiter(svc).keyBy \in KeyBys
          /\ Limiter(svc).keyBy = "jwt_sub" => svc.auth
  <2>1. CASE svc.rateLimit # None
    BY <1>1, <2>1 DEF Limiter, AcceptedServices, AcceptedRateLimits, Services, ServiceRateLimits
  <2>2. CASE svc.rateLimit = None /\ cfg.rateLimit # None
    BY <1>1, <2>2 DEF Limiter, AcceptedRateLimits, KeyBys
  <2>3. CASE svc.rateLimit = None /\ cfg.rateLimit = None
    BY <2>3 DEF Limiter
  <2> QED
    BY <2>1, <2>2, <2>3
<1>3. Arguments(svc) = {"positive"}
  <2>1. /\ \A x \in {"healthInterval", "transport", "maxBodyBytes", "maxHeaderBytes",
                    "metricInterval", "traceBatchTimeout", "logBatchTimeout"} :
              cfg.settings[x] = "positive"
        /\ cfg.compression => cfg.settings["minBytes"] = "positive"
    BY DEF DefaultsApplied, Settings
  <2>2. cfg.circuitBreaker # None => Range(cfg.circuitBreaker) \subseteq {"positive"}
    BY DEF Configs, AcceptedCircuitBreakers, CircuitBreakers, Range
  <2>3. svc.cache # None => Range(svc.cache) \subseteq {"positive"}
    BY DEF AcceptedServices, Range
  <2> QED
    BY <1>2, <2>1, <2>2, <2>3 DEF Arguments
<1>4. Built(svc).keyBy \in KeyBys /\ (Built(svc).keyBy = "jwt_sub" => svc.auth)
  BY <1>2, Zenon DEF Built, KeyBys
<1> QED
  BY <1>1, <1>3, <1>4, ChainOrder, Zenon DEF Built, Registered, Services

----------------------------------------------------------------------------

Loaded ==
    /\ cfg \in Configs
    /\ pc \in {"resource", "traces", "metrics", "logs", "runtime", "build", "redis", "register"}
          => DefaultsApplied

\* Some service's upstreams have all been down, each at some moment.
Deserved == \E s \in DOMAIN check : \A u \in DOMAIN check[s] : <<s, u>> \in everDown

\* A check fails because its upstream is down, or because of the signal or of a
\* service that has deserved it.
ProbesHonest ==
    pc = "probe" =>
        /\ Checked(check) \ up \subseteq everDown
        /\ \A s \in DOMAIN check : \A u \in DOMAIN check[s] :
              check[s][u] = "failed" => <<s, u>> \in everDown \/ ctx = "cancelled" \/ Deserved

\* The providers there are at each step of Setup, and from its end to the end of
\* the drain.
ProvidersUp ==
    /\ pc \in {"services", "limits", "defaults", "resource", "traces"} => alive = {}
    /\ pc = "metrics" => alive = {"traces"}
    /\ pc = "logs" => alive = {"traces", "metrics"}
    /\ pc = "runtime" => alive = Range(Providers)
    /\ cfg.OTelEndpoint /\ pc \in {"build", "redis", "register", "probe", "start", "serve", "drain"}
          => alive = Range(Providers)

\* Requests are there while the providers are, or after a drain that ran out of
\* time.  Until then no provider is gone that has neither exported what it was
\* given nor failed to.
TelemetryUp ==
    /\ ProvidersUp
    /\ busy => pc \in {"serve", "drain", "flush", "exit"}
    /\ pc = "flush" /\ busy => overdue
    /\ ~overdue => pending \subseteq alive \cup failed

\* RefusalHasCause and the others speak of the end of the process; the rest of the
\* invariant is what is true on the way there.
IInv ==
    /\ Loaded
    /\ built \in Seq(Registered)
    /\ ProbesHonest
    /\ TelemetryUp
    /\ why # "" => pc = "exit"
    /\ SetupLeaksNothing /\ TelemetryKept /\ RefusalHasCause

\* Load's empty Config is one.
LEMMA NewConfigIsOne == NewConfig \in Configs
  BY DEF NewConfig, Configs, Signs

\* The process starts in a state that satisfies it.
LEMMA InitIInv == Init => IInv
<1> SUFFICES ASSUME Init PROVE IInv
  OBVIOUS
<1>1. built \in Seq(Registered)
  <2>1. built = <<>>
    BY Zenon DEF Init
  <2> QED
    BY <2>1
<1>2. TelemetryUp /\ TelemetryKept
  BY Zenon DEF Init, TelemetryUp, ProvidersUp, TelemetryKept
<1>3. Loaded /\ ProbesHonest
  BY NewConfigIsOne, Zenon DEF Init, Loaded, ProbesHonest
<1> QED
  BY <1>1, <1>2, <1>3, Zenon DEF Init, IInv, SetupLeaksNothing, RefusalHasCause

\* Load: what it accepts is a configuration with the defaults of DefaultsApplied.
LEMMA LoadIInv == IInv /\ Load => IInv'
<1> SUFFICES ASSUME IInv, Load PROVE IInv'
  BY SMTT(15)
<1>1. /\ pc \in {"services", "limits", "defaults"}
      /\ pc' \in {"services", "limits", "defaults", "resource", "build", "exit"}
      /\ why' # "" => pc' = "exit"
      /\ why' \in {why, "config"}
      /\ UNCHANGED <<ctx, telemetry, building, probing, serving>>
  BY Zenon DEF IInv, Load, LoadService, LoadServicesEnd, LoadLimits, LoadDefaults, Goto, End
<1>2. /\ cfg' \in Configs
      /\ pc' = "resource" => DefaultsApplied'
      /\ pc' = "build" => DefaultsApplied' /\ ~cfg'.OTelEndpoint
  <2>0. cfg \in Configs
    BY Zenon DEF IInv, Loaded
  <2>1. CASE LoadService
    <3>1. PICK svc \in FirstServices \cup LaterServices :
              \/ /\ ServiceOK(svc, cfg.services)
                 /\ cfg' = [cfg EXCEPT !.services = Append(@, WithServiceDefaults(svc))]
              \/ UNCHANGED cfg
      BY <2>1 DEF LoadService
    <3>2. cfg' \in Configs
      <4>1. CASE UNCHANGED cfg
        BY <2>0, <4>1
      <4>2. CASE /\ ServiceOK(svc, cfg.services)
                 /\ cfg' = [cfg EXCEPT !.services = Append(@, WithServiceDefaults(svc))]
        <5>1. svc \in Services
          BY ServicesAssumption
        <5>2. WithServiceDefaults(svc) \in AcceptedServices
          BY <4>2, <5>1, ServiceAccepted
        <5>3. Append(cfg.services, WithServiceDefaults(svc)) \in Seq(AcceptedServices)
          BY <2>0, <5>2 DEF Configs
        <5> QED
          BY <2>0, <4>2, <5>3, Zenon DEF Configs
      <4> QED
        BY <3>1, <4>1, <4>2
    <3>3. pc' \in {"services", "exit"}
      BY <2>1 DEF LoadService, Goto, End
    <3> QED
      BY <3>2, <3>3
  <2>2. CASE LoadServicesEnd
    BY <2>0, <2>2 DEF LoadServicesEnd, Goto, End, loading
  <2>3. CASE LoadLimits
    <3>1. PICK rl \in RateLimits \cup {None}, cb \in CircuitBreakers \cup {None} :
              \/ /\ RateLimitOK(rl) /\ CircuitBreakerOK(cb)
                 /\ cfg' = [cfg EXCEPT !.rateLimit = WithRateLimitDefaults(rl),
                                       !.circuitBreaker = cb]
              \/ UNCHANGED cfg
      BY <2>3, Zenon DEF LoadLimits
    <3>2. RateLimitOK(rl) => WithRateLimitDefaults(rl) \in AcceptedRateLimits \cup {None}
      BY RateLimitAccepted
    <3>3. CircuitBreakerOK(cb) => cb \in AcceptedCircuitBreakers \cup {None}
      BY DEF CircuitBreakerOK, AcceptedCircuitBreakers
    <3>4. cfg' \in Configs
      BY <2>0, <3>1, <3>2, <3>3, Zenon DEF Configs
    <3>5. pc' \in {"defaults", "exit"}
      BY <2>3 DEF LoadLimits, Goto, End
    <3> QED
      BY <3>4, <3>5
  <2>4. CASE LoadDefaults
    <3>1. PICK settings \in [Settings -> Signs], compression \in BOOLEAN, endpoint \in BOOLEAN,
               path \in {"unset", "good", "bad"} :
              cfg' = [cfg EXCEPT !.settings = WithDefaults(settings, compression),
                                 !.compression = compression,
                                 !.OTelEndpoint = endpoint, !.JWTPublicKey = path]
      BY <2>4, Zenon DEF LoadDefaults
    <3>2. WithDefaults(settings, compression) \in [Settings -> Signs]
      BY DEF WithDefaults, Signs
    <3>3. /\ cfg' \in Configs
          /\ cfg'.settings = WithDefaults(settings, compression)
          /\ cfg'.compression = compression
      BY <2>0, <3>1, <3>2, Zenon DEF Configs
    <3>4. DefaultsApplied'
      BY <3>3 DEF DefaultsApplied, WithDefaults
    <3>5. pc' = IF cfg'.OTelEndpoint THEN "resource" ELSE "build"
      BY <2>4 DEF LoadDefaults, Goto
    <3> QED
      BY <3>3, <3>4, <3>5
  <2> QED
    BY <2>1, <2>2, <2>3, <2>4 DEF Load
<1>3. Loaded' /\ ProbesHonest' /\ built' \in Seq(Registered)
  BY <1>1, <1>2, Zenon DEF IInv, Loaded, ProbesHonest, building
<1>4. TelemetryUp'
  BY <1>1, <1>2, Zenon DEF IInv, TelemetryUp, ProvidersUp, telemetry, serving
<1>5. SetupLeaksNothing' /\ TelemetryKept' /\ RefusalHasCause'
  BY <1>1, Zenon DEF IInv, SetupLeaksNothing, TelemetryKept, RefusalHasCause, telemetry, serving, probing
<1> QED
  BY <1>1, <1>3, <1>4, <1>5, Zenon DEF IInv

\* A provider that is shut down has exported what it was given, or has failed to.
LEMMA ShutDownAccounts ==
    ASSUME NEW providers, ShutDown(providers), pending \subseteq alive \cup failed
    PROVE  pending' \subseteq alive' \cup failed'
  BY Zenon DEF ShutDown

\* A step of otel.Setup: it adds a provider to those there are, or shuts them all
\* down.
LEMMA SetupEffect ==
    ASSUME IInv, Setup
    PROVE  /\ pc \in {"resource", "traces", "metrics", "logs", "runtime"} /\ why = ""
           /\ pc' \in {"traces", "metrics", "logs", "runtime", "build", "exit"}
           /\ why' # "" => pc' = "exit" /\ alive' = {}
           /\ why' \in {"", "setup"}
           /\ UNCHANGED <<loading, ctx, building, probing, serving>>
           /\ ProvidersUp'
           /\ pending \subseteq alive \cup failed => pending' \subseteq alive' \cup failed'
<1>1. ASSUME NEW here \in {"resource", "traces", "metrics", "logs", "runtime"}, NEW made,
             NEW next \in {"traces", "metrics", "logs", "runtime", "build"}, SetupStep(here, made, next)
      PROVE  /\ pc = here /\ pc' = next /\ why = "" /\ why' = "" /\ alive' = alive \cup made
             /\ UNCHANGED <<loading, ctx, building, probing, serving>>
             /\ pending \subseteq alive \cup failed => pending' \subseteq alive' \cup failed'
  BY <1>1, Zenon DEF IInv, SetupStep, Goto
<1>2. ASSUME NEW here \in {"resource", "traces", "metrics", "logs", "runtime"}, NEW providers,
             SetupError(here, providers)
      PROVE  /\ pc = here /\ pc' = "exit" /\ why = "" /\ why' = "setup" /\ alive' = alive \ providers
             /\ UNCHANGED <<loading, ctx, building, probing, serving>>
             /\ pending \subseteq alive \cup failed => pending' \subseteq alive' \cup failed'
  BY <1>2, ShutDownAccounts, Zenon DEF IInv, SetupError, End, ShutDown
<1>3. ProvidersUp
  BY Zenon DEF IInv, TelemetryUp
<1>4. Range(Providers) = {"traces", "metrics", "logs"}
  BY DEF Range, Providers
<1>5. CASE MergeResource
  BY <1>1, <1>2, <1>3, <1>5 DEF MergeResource, ProvidersUp
<1>6. CASE NewTracerProvider
  BY <1>1, <1>2, <1>3, <1>6 DEF NewTracerProvider, ProvidersUp
<1>7. CASE NewMeterProvider
  BY <1>1, <1>2, <1>3, <1>7 DEF NewMeterProvider, ProvidersUp
<1>8. CASE NewLoggerProvider
  <2>1. pc = "logs" => alive = {"traces", "metrics"}
    BY <1>3, Zenon DEF ProvidersUp
  <2>2. CASE SetupStep("logs", {"logs"}, "runtime")
    <3>1. /\ pc = "logs" /\ pc' = "runtime" /\ why = "" /\ why' = "" /\ alive' = alive \cup {"logs"}
          /\ UNCHANGED <<loading, ctx, building, probing, serving>>
          /\ pending \subseteq alive \cup failed => pending' \subseteq alive' \cup failed'
      BY <1>1, <2>2, Zenon
    <3>2. alive' = Range(Providers)
      BY <1>4, <2>1, <3>1
    <3> QED
      BY <3>1, <3>2, Zenon DEF ProvidersUp
  <2>3. CASE SetupError("logs", {"traces", "metrics"})
    BY <1>2, <2>1, <2>3 DEF ProvidersUp
  <2> QED
    BY <1>8, <2>2, <2>3, Zenon DEF NewLoggerProvider
<1>9. CASE StartRuntime
  <2>1. pc = "runtime" => alive = Range(Providers)
    BY <1>3, Zenon DEF ProvidersUp
  <2>2. CASE SetupStep("runtime", {}, "build")
    <3>1. /\ pc = "runtime" /\ pc' = "build" /\ why = "" /\ why' = "" /\ alive' = alive \cup {}
          /\ UNCHANGED <<loading, ctx, building, probing, serving>>
          /\ pending \subseteq alive \cup failed => pending' \subseteq alive' \cup failed'
      BY <1>1, <2>2, Zenon
    <3>2. alive' = Range(Providers)
      BY <2>1, <3>1
    <3> QED
      BY <3>1, <3>2, Zenon DEF ProvidersUp
  <2>3. CASE SetupError("runtime", Range(Providers))
    BY <1>2, <2>1, <2>3, Zenon DEF ProvidersUp
  <2> QED
    BY <1>9, <2>2, <2>3, Zenon DEF StartRuntime
<1> QED
  BY <1>5, <1>6, <1>7, <1>8, <1>9, Zenon DEF Setup

\* otel.Setup: it returns with providers, or without.
LEMMA SetupIInv == IInv /\ Setup => IInv'
<1> SUFFICES ASSUME IInv, Setup PROVE IInv'
  OBVIOUS
<1>1. /\ pc \in {"resource", "traces", "metrics", "logs", "runtime"} /\ why = ""
      /\ pc' \in {"traces", "metrics", "logs", "runtime", "build", "exit"}
      /\ why' # "" => pc' = "exit" /\ alive' = {}
      /\ why' \in {"", "setup"}
      /\ UNCHANGED <<loading, ctx, building, probing, serving>>
      /\ ProvidersUp'
      /\ pending \subseteq alive \cup failed => pending' \subseteq alive' \cup failed'
  BY SetupEffect, Zenon
<1>2. Loaded' /\ ProbesHonest' /\ built' \in Seq(Registered)
  BY <1>1, Zenon DEF IInv, Loaded, ProbesHonest, building, loading, DefaultsApplied
<1>3. TelemetryUp'
  BY <1>1, Zenon DEF IInv, TelemetryUp, serving
<1>4. SetupLeaksNothing' /\ TelemetryKept' /\ RefusalHasCause'
  BY <1>1, Zenon DEF SetupLeaksNothing, TelemetryKept, RefusalHasCause
<1> QED
  BY <1>1, <1>2, <1>3, <1>4, Zenon DEF IInv

\* A turn of the loop over cfg.Services adds a service as it should be.
LEMMA RegisterBuilds == IInv /\ Register => built' \in Seq(Registered)
<1> SUFFICES ASSUME IInv, Register PROVE built' \in Seq(Registered)
  OBVIOUS
<1> DEFINE svc == cfg.services[Len(built) + 1]
<1>1. built \in Seq(Registered) /\ cfg \in Configs /\ DefaultsApplied
  BY Zenon DEF IInv, Loaded, Register
<1>2. svc \in AcceptedServices
  <2>1. cfg.services \in Seq(AcceptedServices)
    BY <1>1 DEF Configs
  <2>2. Len(built) + 1 \in 1..Len(cfg.services)
    BY <1>1, <2>1 DEF Register
  <2> QED
    BY <2>1, <2>2
<1>3. Built(svc) \in Registered
  BY <1>1, <1>2, BuiltRegistered
<1>4. built' = built \/ built' = Append(built, Built(svc))
  BY DEF Register
<1> QED
  BY <1>1, <1>3, <1>4

\* buildRouter, up to the checkers' first pass.
LEMMA BuildIInv == IInv /\ Build => IInv'
<1> SUFFICES ASSUME IInv, Build PROVE IInv'
  OBVIOUS
<1>1. /\ pc \in {"build", "redis", "register", "probe", "start"} /\ why = ""
      /\ pc' \in {"redis", "register", "probe", "start", "serve", "exit"}
      /\ pc' \in {"redis", "register"} => pc \in {"build", "redis", "register"} /\ UNCHANGED cfg
      /\ why' # "" => pc' = "exit"
      /\ pc' # "exit" => UNCHANGED telemetry
      /\ why' \in {"", "build", "panic", "probe"}
      /\ UNCHANGED <<ctx, serving>>
      /\ pending \subseteq alive \cup failed => pending' \subseteq alive' \cup failed'
  BY ShutDownAccounts, Zenon DEF IInv, Build, InstrumentsFail, LoadKey, BuildRedisClient, Register, SendProbes, ProbesDone,
         StartChecker, Goto, End, loading, telemetry
<1>2. cfg' \in Configs /\ cfg'.OTelEndpoint = cfg.OTelEndpoint
  <2>1. cfg \in Configs
    BY Zenon DEF IInv, Loaded
  <2>2. CASE SendProbes
    <3>1. cfg' = [NewConfig EXCEPT !.OTelEndpoint = cfg.OTelEndpoint]
      BY <2>2, Zenon DEF SendProbes
    <3> QED
      BY <2>1, <3>1, NewConfigIsOne, Zenon DEF Configs
  <2>3. CASE ~SendProbes
    BY <2>1, <2>3 DEF Build, InstrumentsFail, LoadKey, BuildRedisClient, Register, ProbesDone,
                      StartChecker, loading
  <2> QED
    BY <2>2, <2>3
<1>3. built' \in Seq(Registered)
  <2>1. CASE Register
    BY <2>1, RegisterBuilds
  <2>2. CASE SendProbes
    <3>1. built' = <<>>
      BY <2>2, Zenon DEF SendProbes
    <3> QED
      BY <3>1
  <2>3. CASE ~Register /\ ~SendProbes
    BY <2>3, Zenon DEF IInv, Build, InstrumentsFail, LoadKey, BuildRedisClient, ProbesDone, StartChecker,
                building
  <2> QED
    BY <2>1, <2>2, <2>3
<1>4. ProbesHonest' /\ RefusalHasCause'
  <2>1. CASE SendProbes
    <3>1. /\ check' \in [DOMAIN built -> {[u \in us |-> "out"] : us \in SUBSET Upstreams \ {{}}}]
          /\ everDown' = Checked(check') \ up'
          /\ pc' = "probe" /\ why' = ""
      BY <1>1, <2>1, Zenon DEF SendProbes, Goto
    <3>2. ASSUME NEW s \in DOMAIN check', NEW u \in DOMAIN check'[s]
          PROVE  check'[s][u] # "failed"
      <4>1. PICK us \in SUBSET Upstreams : check'[s] = [x \in us |-> "out"]
        BY <3>1, <3>2, Zenon
      <4> QED
        BY <3>2, <4>1
    <3> QED
      BY <3>1, <3>2, Zenon DEF ProbesHonest, RefusalHasCause
  <2>2. CASE ProbesDone
    <3>1. pc = "probe" /\ pc' # "probe" /\ why = ""
      BY <2>2, <1>1 DEF ProbesDone, Goto, End
    <3>2. ASSUME why' = "probe" PROVE ctx' = "cancelled" \/ Deserved'
      <4>1. PICK s \in DOMAIN check : ProbeFailed(s)
        BY <2>2, <3>1, <3>2, Zenon DEF ProbesDone, Goto
      <4>2. UNCHANGED <<ctx, check, everDown>>
        BY <1>1, <2>2, <3>1, <3>2, <4>1, Zenon DEF ProbesDone
      <4>3. \A u \in DOMAIN check[s] : <<s, u>> \in everDown \/ ctx = "cancelled" \/ Deserved
        BY <3>1, <4>1, Zenon DEF IInv, ProbesHonest, ProbeFailed
      <4> QED
        BY <4>2, <4>3, Zenon DEF Deserved
    <3> QED
      BY <3>1, <3>2, Zenon DEF ProbesHonest, RefusalHasCause, Deserved
  <2>3. CASE ~SendProbes /\ ~ProbesDone
    <3>1. pc' # "probe" /\ why' # "probe"
      BY <1>1, <2>3, Zenon DEF Build, InstrumentsFail, LoadKey, BuildRedisClient, Register, StartChecker,
                        Goto, End
    <3> QED
      BY <3>1 DEF ProbesHonest, RefusalHasCause
  <2> QED
    BY <2>1, <2>2, <2>3
<1>5. Loaded'
  BY <1>1, <1>2, Zenon DEF IInv, Loaded, DefaultsApplied
<1>6. TelemetryUp'
  BY <1>1, <1>2, Zenon DEF IInv, TelemetryUp, ProvidersUp, telemetry, serving
<1>7. SetupLeaksNothing' /\ TelemetryKept'
  BY <1>1, Zenon DEF SetupLeaksNothing, TelemetryKept
<1> QED
  BY <1>1, <1>3, <1>4, <1>5, <1>6, <1>7, Zenon DEF IInv

\* The probes and the upstreams they ask.
LEMMA ProbingIInv ==
    ASSUME IInv, NEW s \in DOMAIN check, NEW u \in Upstreams, CheckReturns(s, u) \/ Flip(s, u)
    PROVE  IInv'
<1>1. /\ pc = "probe" /\ why = ""
      /\ UNCHANGED <<pc, why, loading, ctx, telemetry, building, serving>>
  BY Zenon DEF IInv, CheckReturns, Flip
<1>2. ProbesHonest'
  <2>0. /\ Checked(check) \ up \subseteq everDown
        /\ \A x \in DOMAIN check : \A v \in DOMAIN check[x] :
              check[x][v] = "failed" => <<x, v>> \in everDown \/ ctx = "cancelled" \/ Deserved
    BY <1>1, Zenon DEF IInv, ProbesHonest
  <2>1. CASE CheckReturns(s, u)
    <3>1. /\ UNCHANGED <<ctx, up, everDown>>
          /\ u \in DOMAIN check[s]
          /\ \/ check' = [check EXCEPT ![s][u] = "ok"]
             \/ /\ <<s, u>> \notin up \/ ProbesCancelled
                /\ check' = [check EXCEPT ![s][u] = "failed"]
      BY <2>1, Zenon DEF CheckReturns
    <3>2. /\ DOMAIN check' = DOMAIN check
          /\ \A x \in DOMAIN check : DOMAIN check'[x] = DOMAIN check[x]
      BY <3>1
    <3>3. Checked(check') = Checked(check)
      BY <3>2 DEF Checked
    <3>4. Deserved' <=> Deserved
      BY <3>1, <3>2, Zenon DEF Deserved
    <3>5. ProbesCancelled => ctx = "cancelled" \/ Deserved
      BY <2>0, Zenon DEF ProbesCancelled, ProbeFailed, Deserved
    <3>6. <<s, u>> \notin up => <<s, u>> \in everDown
      <4>1. <<s, u>> \in {s} \X DOMAIN check[s]
        BY <3>1
      <4>2. <<s, u>> \in Checked(check)
        BY <4>1, Zenon DEF Checked
      <4> QED
        BY <2>0, <4>2, Zenon
    <3>7. ASSUME NEW x \in DOMAIN check, NEW v \in DOMAIN check[x], check'[x][v] = "failed"
          PROVE  <<x, v>> \in everDown \/ ctx = "cancelled" \/ Deserved
      <4>1. CASE x = s /\ v = u /\ (<<s, u>> \notin up \/ ProbesCancelled)
        BY <3>5, <3>6, <4>1, Zenon
      <4>2. CASE ~(x = s /\ v = u /\ (<<s, u>> \notin up \/ ProbesCancelled))
        <5>1. check[x][v] = "failed"
          BY <3>1, <3>7, <4>2
        <5> QED
          BY <2>0, <5>1, Zenon
      <4> QED
        BY <4>1, <4>2
    <3> QED
      BY <2>0, <3>1, <3>2, <3>3, <3>4, <3>7, Zenon DEF ProbesHonest
  <2>2. CASE Flip(s, u)
    <3>1. /\ UNCHANGED <<check, ctx>>
          /\ everDown' = everDown \cup (Checked(check) \ up')
      BY <2>2, Zenon DEF Flip
    <3>2. Checked(check)' = Checked(check) /\ (Deserved => Deserved')
      BY <3>1, Zenon DEF Checked, Deserved
    <3> QED
      BY <2>0, <3>1, <3>2, Zenon DEF ProbesHonest
  <2> QED
    BY <2>1, <2>2
<1>3. Loaded' /\ built' \in Seq(Registered)
  BY <1>1, Zenon DEF IInv, Loaded, building, loading, DefaultsApplied
<1>4. TelemetryUp'
  BY <1>1, Zenon DEF IInv, TelemetryUp, ProvidersUp, loading, telemetry, serving
<1>5. SetupLeaksNothing' /\ TelemetryKept' /\ RefusalHasCause'
  BY <1>1, Zenon DEF SetupLeaksNothing, TelemetryKept, RefusalHasCause
<1> QED
  BY <1>1, <1>2, <1>3, <1>4, <1>5, Zenon DEF IInv

\* main from ListenAndServe on, and the signal: what is served, drained and flushed.
LEMMA ServeIInv == IInv /\ (Signal \/ Serve) => IInv'
<1> SUFFICES ASSUME IInv, Signal \/ Serve PROVE IInv'
  OBVIOUS
<1>1. /\ pc # "exit" /\ why = ""
      /\ pc' \in {pc, "drain", "flush", "exit"}
      /\ why' # "" => pc' = "exit"
      /\ why' \in {"", "listen", "done"}
      /\ ctx' \in {ctx, "cancelled"}
      /\ UNCHANGED <<loading, building, probing>>
  BY Zenon DEF IInv, Signal, Serve, Listen, ListenFails, Accept, Finish, Export, Shutdown, Drained,
               DrainTimesOut, Flush, Goto, End
<1>2. Loaded' /\ built' \in Seq(Registered)
  BY <1>1, Zenon DEF IInv, Loaded, building, loading, DefaultsApplied
<1>3. ProbesHonest' /\ SetupLeaksNothing' /\ RefusalHasCause'
  <2>1. UNCHANGED <<up, check, everDown>>
    BY <1>1, Zenon DEF probing
  <2>2. Deserved' <=> Deserved
    BY <2>1, Zenon DEF Deserved
  <2> QED
    BY <1>1, <2>1, <2>2, Zenon DEF IInv, ProbesHonest, Checked, SetupLeaksNothing, RefusalHasCause
<1>4. TelemetryUp' /\ TelemetryKept'
  <2>0. TelemetryUp /\ ProvidersUp /\ cfg' = cfg
    BY <1>1, Zenon DEF IInv, TelemetryUp, loading
  <2>1. CASE Signal \/ Listen \/ ListenFails
    <3>1. /\ pc' = pc \/ pc' = "exit"
          /\ why' # "done"
          /\ UNCHANGED <<alive, pending, failed, busy, overdue>>
      BY <1>1, <2>1, Zenon DEF Signal, Listen, ListenFails, End, telemetry, serving
    <3>2. pc' = "exit" => pc \in {"serve", "drain", "flush"}
      BY <1>1, <2>1, Zenon DEF Signal, Listen, ListenFails, End
    <3> QED
      BY <2>0, <3>1, <3>2, Zenon DEF TelemetryUp, ProvidersUp, TelemetryKept
  <2>2. CASE Accept
    BY <1>1, <2>0, <2>2, Zenon DEF Accept, TelemetryUp, ProvidersUp, TelemetryKept, telemetry
  <2>3. CASE Finish
    <3>1. /\ pc' = pc /\ why' = "" /\ ~busy' /\ busy
          /\ UNCHANGED <<alive, overdue>>
          /\ pending' = IF cfg.OTelEndpoint THEN Range(Providers) ELSE {}
      BY <1>1, <2>3, Zenon DEF Finish
    <3>2. ~overdue => pending' \subseteq alive
      BY <1>1, <2>0, <3>1, Zenon DEF TelemetryUp, ProvidersUp
    <3> QED
      BY <2>0, <3>1, <3>2, Zenon DEF TelemetryUp, ProvidersUp, TelemetryKept
  <2>4. CASE \E p \in Range(Providers) : Export(p)
    <3>1. /\ pc' = pc /\ why' = "" /\ UNCHANGED <<alive, busy, overdue>>
          /\ pending' \subseteq pending /\ failed \subseteq failed'
      BY <1>1, <2>4, Zenon DEF Export, serving
    <3> QED
      BY <2>0, <3>1, Zenon DEF TelemetryUp, ProvidersUp, TelemetryKept
  <2>5. CASE Shutdown \/ Drained \/ DrainTimesOut
    <3>1. /\ \/ pc = "serve" /\ pc' = "drain" /\ overdue' = overdue
             \/ pc = "drain" /\ pc' = "flush" /\ ~busy /\ overdue' = overdue
             \/ pc = "drain" /\ pc' = "flush" /\ overdue' = TRUE
          /\ why' = "" /\ UNCHANGED <<alive, pending, failed, busy>>
      BY <1>1, <2>5, Zenon DEF Shutdown, Drained, DrainTimesOut, Goto, telemetry, serving
    <3> QED
      BY <2>0, <3>1, Zenon DEF TelemetryUp, ProvidersUp, TelemetryKept
  <2>6. CASE Flush
    <3>1. pc = "flush" /\ pc' \in {"flush", "exit"} /\ UNCHANGED <<busy, overdue>>
      BY <2>6, Zenon DEF Flush, Goto, End, serving
    <3>2. pending \subseteq alive \cup failed => pending' \subseteq alive' \cup failed'
      BY <2>6, ShutDownAccounts, Zenon DEF Flush, telemetry
    <3>3. why' = "done" => alive' = {}
      BY <1>1, <2>6, Zenon DEF Flush, Goto, End, telemetry
    <3> QED
      BY <2>0, <3>1, <3>2, <3>3, Zenon DEF TelemetryUp, ProvidersUp, TelemetryKept
  <2> QED
    BY <2>1, <2>2, <2>3, <2>4, <2>5, <2>6 DEF Serve
<1> QED
  BY <1>1, <1>2, <1>3, <1>4, Zenon DEF IInv

\* Every step of the process keeps the invariant.
LEMMA NextIInv == IInv /\ [Next]_vars => IInv'
<1> SUFFICES ASSUME IInv, [Next]_vars PROVE IInv'
  OBVIOUS
<1>1. CASE UNCHANGED vars
  <2>1. UNCHANGED <<pc, why, cfg, ctx, alive, pending, failed, built, up, check, everDown, busy, overdue>>
    BY <1>1, Zenon DEF vars, loading, telemetry, building, probing, serving
  <2>2. Loaded' /\ built' \in Seq(Registered)
    BY <2>1, Zenon DEF IInv, Loaded, DefaultsApplied
  <2>3. ProbesHonest' /\ RefusalHasCause'
    BY <2>1, Zenon DEF IInv, ProbesHonest, Deserved, Checked, RefusalHasCause
  <2>4. TelemetryUp' /\ SetupLeaksNothing' /\ TelemetryKept'
    BY <2>1, Zenon DEF IInv, TelemetryUp, ProvidersUp, SetupLeaksNothing, TelemetryKept
  <2> QED
    BY <2>1, <2>2, <2>3, <2>4, Zenon DEF IInv
<1>2. CASE \E s \in DOMAIN check, u \in Upstreams : CheckReturns(s, u) \/ Flip(s, u)
  BY <1>2, ProbingIInv
<1> QED
  BY <1>1, <1>2, LoadIInv, SetupIInv, BuildIInv, ServeIInv DEF Next

\* It holds throughout.
LEMMA IInvHolds == Spec => []IInv
  BY InitIInv, NextIInv, PTL DEF Spec

----------------------------------------------------------------------------

\* Whatever configuration Load accepts, buildRouter gives each constructor the
\* arguments, and each middleware the place, that it assumes.
THEOREM AcceptedConfigsBuild == Spec => []BuiltAsAssumed
<1>1. IInv => BuiltAsAssumed
  <2> SUFFICES ASSUME IInv, NEW i \in DOMAIN built
               PROVE  /\ built[i].args = {"positive"}
                      /\ "RequireAnyRole" \in Range(built[i].chain) \/ built[i].keyBy = "jwt_sub"
                            => Head(built[i].chain) = "JWTAuth"
    BY Zenon DEF BuiltAsAssumed, Range
  <2>1. built \in Seq(Registered)
    BY Zenon DEF IInv
  <2>2. built[i] \in Registered
    BY <2>1
  <2> QED
    BY <2>2 DEF Registered
<1> QED
  BY <1>1, IInvHolds, PTL

\* Whichever of Setup's five error paths is taken, the providers it shuts down are
\* all of those made before.
THEOREM FailedSetupIsClean == Spec => []SetupLeaksNothing
<1>1. IInv => SetupLeaksNothing
  BY Zenon DEF IInv
<1> QED
  BY <1>1, IInvHolds, PTL

\* When main returns, every provider has exported the telemetry of all requests, or
\* has failed to export it, unless the drain ran out of time: one that fails does
\* not keep the others from being shut down.
THEOREM TelemetryIsFlushed == Spec => []TelemetryKept
<1>1. IInv => TelemetryKept
  BY Zenon DEF IInv
<1> QED
  BY <1>1, IInvHolds, PTL

\* Among any number of services with any number of upstreams, probed at once, boot
\* is refused only for one each of whose upstreams was down at some moment, or for
\* the signal.
THEOREM RefusalsDeserved == Spec => []RefusalHasCause
<1>1. IInv => RefusalHasCause
  BY Zenon DEF IInv
<1> QED
  BY <1>1, IInvHolds, PTL

----------------------------------------------------------------------------
\* The load test

\* The mutex is held between the copy and the reset, and the copy counts the
\* samples that are there to reset.
Locked ==
    /\ mu \in {"reporter", "main", "nobody"}
    /\ \A p \in UF!Printers :
          /\ at[p] = "taken" <=> mu = p
          /\ at[p] = "taken" => snap[p].samples = stats.samples

Tallies ==
    /\ stats \in UF!Tally
    /\ at \in [UF!Printers -> {"wait", "taken", "print", "gone"}]
    /\ snap \in [UF!Printers -> UF!Tally]

SamplesInv == Tallies /\ Locked /\ SamplesConserved

\* Nothing has been recorded at first.
LEMMA InitSamples == UF!Init => SamplesInv
  BY DEF UF!Init, UF!Printers, UF!Zero, UF!Tally, UF!Nobody, SamplesInv, Tallies, Locked,
         SamplesConserved, UF!SamplesConserved, UF!InHand

\* What a user does to the shared statistics, if anything, does not touch what a
\* printer has copied.
LEMMA UserSamples ==
    ASSUME SamplesInv, NEW u \in Users, UF!User(u)
    PROVE  SamplesInv'
<1> USE DEF UF!Printers, UF!Nobody, UF!reportVars, UF!Tally
<1>1. CASE UF!Loop(u) \/ UF!Send(u) \/ UF!Got(u)
  BY <1>1 DEF UF!Loop, UF!Send, UF!Got, SamplesInv, Tallies, Locked, SamplesConserved,
         UF!SamplesConserved, UF!InHand
<1>2. CASE UF!Record(u)
  <2>1. stats' = [samples |-> stats.samples + 1, errors |-> stats.errors]
    BY <1>2, Zenon DEF UF!Record, UF!Counted, SamplesInv, Tallies
  <2>2. owed' = owed + 1 /\ mu = "nobody" /\ UNCHANGED <<mu, at, snap>>
    BY <1>2 DEF UF!Record
  <2> QED
    BY <2>1, <2>2 DEF SamplesInv, Tallies, Locked, SamplesConserved, UF!SamplesConserved, UF!InHand
<1>3. CASE UF!Fail(u)
  <2>1. stats' \in UF!Tally /\ stats'.samples = stats.samples
    BY <1>3 DEF UF!Fail, UF!Counted, SamplesInv, Tallies
  <2>2. UNCHANGED <<mu, at, snap, owed>>
    BY <1>3 DEF UF!Fail
  <2> QED
    BY <2>1, <2>2 DEF SamplesInv, Tallies, Locked, SamplesConserved, UF!SamplesConserved, UF!InHand
<1> QED
  BY <1>1, <1>2, <1>3 DEF UF!User

\* A printer takes all that is there, and prints what it took.
LEMMA ReportSamples ==
    ASSUME SamplesInv, NEW p \in UF!Printers, UF!Report(p)
    PROVE  SamplesInv'
<1> USE DEF UF!Printers, UF!Nobody, UF!Tally, UF!Zero, UF!Printer, SamplesInv, Tallies, Locked,
        SamplesConserved, UF!SamplesConserved, UF!InHand
<1>1. CASE UF!Take(p)
  BY <1>1 DEF UF!Take
<1>2. CASE UF!Reset(p)
  BY <1>2 DEF UF!Reset
<1>3. CASE UF!PrintInterval(p)
  BY <1>3 DEF UF!PrintInterval
<1> QED
  BY <1>1, <1>2, <1>3 DEF UF!Report

\* Every step of the load test keeps the invariant.
LEMMA NextSamples == SamplesInv /\ [CompanionsNext]_companionsVars => SamplesInv'
<1> SUFFICES ASSUME SamplesInv, [CompanionsNext]_companionsVars PROVE SamplesInv'
  OBVIOUS
<1> USE DEF SamplesInv, Tallies, Locked, SamplesConserved, UF!SamplesConserved, UF!InHand
<1>1. CASE Serves(US!Next) \/ UNCHANGED companionsVars
  BY <1>1 DEF Serves, companionsVars, testVars
<1>2. CASE UF!Next
  <2>1. CASE UF!Expire
    BY <2>1 DEF UF!Expire, UF!reportVars
  <2>2. CASE UF!StopReporting
    BY <2>2 DEF UF!StopReporting, UF!Printer, UF!Printers
  <2> QED
    BY <1>2, <2>1, <2>2, UserSamples, ReportSamples DEF UF!Next
<1> QED
  BY <1>1, <1>2 DEF CompanionsNext, Tests

\* Every response a user of the load test records is in the statistics, in one
\* snapshot not yet printed, or has been printed once, for any number of users and
\* any way the two printers' snapshots fall between their records.
THEOREM EverySamplePrintedOnce == CompanionsSpec => []SamplesConserved
<1>1. CompanionsInit => SamplesInv
  BY InitSamples DEF CompanionsInit
<1>2. SamplesInv => SamplesConserved
  BY DEF SamplesInv
<1> QED
  BY <1>1, <1>2, NextSamples, PTL DEF CompanionsSpec

----------------------------------------------------------------------------
\* The example service

\* Requests that have a connection.
Held == {r \in Requests : stage[r] \in {"query", "rows", "closing"}}

\* No connection is lost or used twice: each one open is idle or with one
\* request, and there are no more than DB_MAX_CONNS allows.
PoolAccounted ==
    /\ life \in {"serving", "draining"} => open = free + Cardinality(Held)
    /\ maxConns > 0 => open <= maxConns

\* Until the service serves, its connections are those that warmPool holds.
Booting ==
    life \in {"opening", "warming"} =>
        /\ open = warm /\ free = 0
        /\ warm > 0 => warm <= maxConns
        /\ \A r \in Requests : stage[r] = "none"

Pool ==
    /\ maxConns \in Int /\ warm \in Nat /\ open \in Nat /\ free \in Nat
    /\ life \in {"opening", "warming", "serving", "draining", "exited"}
    /\ stage \in [Requests -> US!Stages]
    /\ life = "exited" => open = 0 /\ \A r \in Requests : stage[r] = "none"

PoolInv == Pool /\ Booting /\ PoolAccounted

\* There are only so many requests.
LEMMA HeldFinite == IsFiniteSet(Held) /\ Cardinality(Held) \in Nat
  BY CompanionsAssumption, FS_Subset, FS_CardinalityType DEF Held

\* Nobody has a connection at first.
LEMMA InitPool == US!Init => PoolInv
  BY CompanionsAssumption DEF US!Init, US!Stages, PoolInv, Pool, Booting, PoolAccounted

\* The process ends with all its connections.
LEMMA ExitPool ==
    ASSUME PoolInv, US!Exit
    PROVE  PoolInv'
  BY DEF US!Exit, US!Stages, PoolInv, Pool, Booting, PoolAccounted

\* warmPool opens as many connections as are allowed and the service starts with
\* all of them idle.
LEMMA BootPool ==
    ASSUME PoolInv, US!Boot
    PROVE  PoolInv'
<1> USE DEF US!pool, PoolInv, Pool, Booting, PoolAccounted
<1>1. CASE US!OpenDB
  BY <1>1 DEF US!OpenDB
<1>2. CASE US!OpenFails \/ US!WarmFails
  BY <1>2, ExitPool DEF US!OpenFails, US!WarmFails
<1>3. CASE US!WarmTake
  BY <1>3 DEF US!WarmTake
<1>4. CASE US!WarmDone
  <2>1. Held' = {}
    BY <1>4 DEF US!WarmDone, Held
  <2> QED
    BY <1>4, <2>1, FS_EmptySet DEF US!WarmDone
<1> QED
  BY <1>1, <1>2, <1>3, <1>4 DEF US!Boot

\* The pool's own timer and the service's end.
LEMMA EndPool ==
    ASSUME PoolInv, US!Expire \/ US!End
    PROVE  PoolInv'
<1> USE DEF US!pool, PoolInv, Pool, Booting, PoolAccounted
<1>1. CASE US!Expire
  <2>1. Held' = Held
    BY <1>1 DEF US!Expire, Held
  <2> QED
    BY <1>1, <2>1, HeldFinite DEF US!Expire
<1>2. CASE US!Killed \/ US!Drained \/ US!ListenFails
  BY <1>2, ExitPool DEF US!Killed, US!Drained, US!ListenFails
<1>3. CASE US!Shutdown
  <2>1. Held' = Held
    BY <1>3 DEF US!Shutdown, Held
  <2> QED
    BY <1>3, <2>1, HeldFinite DEF US!Shutdown
<1> QED
  BY <1>1, <1>2, <1>3 DEF US!End

\* A request takes a connection, or keeps what it has, or gives it back.
LEMMA HandlePool ==
    ASSUME PoolInv, NEW r \in Requests, NEW from, NEW to \in US!Stages, US!At(r, from, to),
           UNCHANGED <<maxConns, life, warm>>,
           from # "none" \/ life = "serving",
           LET Holding == {"query", "rows", "closing"} IN
               \/ UNCHANGED <<open, free>> /\ (from \in Holding <=> to \in Holding)
               \/ US!Release /\ from \in Holding /\ to \notin Holding
               \/ /\ from \notin Holding /\ to \in Holding
                  /\ \/ free > 0 /\ free' = free - 1 /\ UNCHANGED open
                     \/ free = 0 /\ (maxConns > 0 => open < maxConns) /\ open' = open + 1 /\ UNCHANGED free
    PROVE  PoolInv'
<1> DEFINE Holding == {"query", "rows", "closing"}
<1> USE DEF US!At
<1>1. stage' \in [Requests -> US!Stages] /\ life \notin {"opening", "warming", "exited"}
  BY DEF PoolInv, Pool, Booting
<1>2. open = free + Cardinality(Held)
  BY <1>1 DEF PoolInv, Pool, PoolAccounted
<1>3. CASE UNCHANGED <<open, free>> /\ (from \in Holding <=> to \in Holding)
  <2>1. Held' = Held
    BY <1>3 DEF Held, PoolInv, Pool
  <2> QED
    BY <1>1, <1>3, <2>1 DEF PoolInv, Pool, Booting, PoolAccounted
<1>4. CASE US!Release /\ from \in Holding /\ to \notin Holding
  <2>1. Held' = Held \ {r} /\ r \in Held
    BY <1>4 DEF Held, PoolInv, Pool
  <2>2. Cardinality(Held') = Cardinality(Held) - 1
    BY <2>1, HeldFinite, FS_RemoveElement, Zenon
  <2>3. Cardinality(Held') \in Nat /\ Cardinality(Held) \in Nat
    BY <2>1, HeldFinite, FS_RemoveElement, FS_CardinalityType
  <2> QED
    BY <1>1, <1>2, <1>4, <2>2, <2>3 DEF US!Release, PoolInv, Pool, Booting, PoolAccounted
<1>5. CASE /\ from \notin Holding /\ to \in Holding
           /\ \/ free > 0 /\ free' = free - 1 /\ UNCHANGED open
              \/ free = 0 /\ (maxConns > 0 => open < maxConns) /\ open' = open + 1 /\ UNCHANGED free
  <2>1. Held' = Held \cup {r} /\ r \notin Held
    BY <1>5 DEF Held, PoolInv, Pool
  <2>2. Cardinality(Held') = Cardinality(Held) + 1
    BY <2>1, HeldFinite, FS_AddElement, Zenon
  <2> QED
    BY <1>1, <1>2, <1>5, <2>2, HeldFinite DEF PoolInv, Pool, Booting, PoolAccounted
<1> QED
  BY <1>3, <1>4, <1>5

\* Every step keeps the invariant.
LEMMA NextPool == PoolInv /\ [CompanionsNext]_companionsVars => PoolInv'
<1> SUFFICES ASSUME PoolInv, [CompanionsNext]_companionsVars PROVE PoolInv'
  OBVIOUS
<1>1. CASE Tests(UF!Next) \/ UNCHANGED companionsVars
  BY <1>1 DEF Tests, companionsVars, serviceVars, PoolInv, Pool, Booting, PoolAccounted, Held
<1>2. ASSUME NEW r \in Requests, US!Handle(r) PROVE PoolInv'
  <2> USE HandlePool DEF US!pool, US!Handled, US!Stages
  <2>1. CASE US!RefusePayload(r)
    BY <2>1 DEF US!RefusePayload
  <2>2. CASE US!Ask(r)
    BY <2>2 DEF US!Ask
  <2>3. CASE US!TakeConn(r)
    BY <2>3 DEF US!TakeConn
  <2>4. CASE US!AskFails(r)
    BY <2>4 DEF US!AskFails
  <2>5. CASE US!ScanRow(r)
    BY <2>5 DEF US!ScanRow
  <2>6. CASE US!QueryFails(r)
    BY <2>6 DEF US!QueryFails
  <2>7. CASE US!QueryRows(r)
    BY <2>7 DEF US!QueryRows
  <2>8. CASE US!RowsEnd(r)
    BY <2>8 DEF US!RowsEnd
  <2>9. CASE US!ScanFails(r)
    BY <2>9 DEF US!ScanFails
  <2>10. CASE US!CloseRows(r)
    BY <2>10 DEF US!CloseRows
  <2> QED
    BY <1>2, <2>1, <2>2, <2>3, <2>4, <2>5, <2>6, <2>7, <2>8, <2>9, <2>10,
       Zenon DEF US!Handle
<1>3. ASSUME NEW r \in Requests, US!Leave(r) \/ \E x \in Routes : US!Arrive(r, x) PROVE PoolInv'
  BY <1>3, HandlePool DEF US!Leave, US!Arrive, US!pool, US!Stages
<1> QED
  BY <1>1, <1>2, <1>3, BootPool, EndPool DEF CompanionsNext, Serves, US!Next

----------------------------------------------------------------------------

\* When the service begins to serve, as many connections as the pool may have are
\* open and idle, whatever the limit.
THEOREM ServesWithAWarmPool == CompanionsSpec => WarmedPool
<1>1. CompanionsInit => PoolInv
  BY InitPool DEF CompanionsInit
<1>2. PoolInv /\ [CompanionsNext]_companionsVars =>
          [life' = "serving" /\ life # "serving" => open' = maxConns /\ free' = maxConns]_(US!vars)
  <2> SUFFICES ASSUME PoolInv, [CompanionsNext]_companionsVars, life' = "serving", life # "serving"
               PROVE  open' = maxConns /\ free' = maxConns
    OBVIOUS
  <2>1. US!Next
    BY SMTT(15) DEF CompanionsNext, Serves, Tests, companionsVars, serviceVars
  <2>2. US!WarmDone
    BY <2>1 DEF US!Next, US!Boot, US!End, US!OpenDB, US!OpenFails, US!WarmTake, US!WarmFails, US!Expire,
           US!Killed, US!Shutdown, US!Drained, US!ListenFails, US!Exit, US!Handle, US!Handled,
           US!RefusePayload, US!Ask, US!TakeConn, US!AskFails, US!ScanRow, US!QueryFails, US!QueryRows,
           US!RowsEnd, US!ScanFails, US!CloseRows, US!Leave, US!Arrive
  <2> QED
    BY <2>2 DEF US!WarmDone, PoolInv, Pool, Booting
<1> QED
  BY <1>1, <1>2, NextPool, PTL DEF CompanionsSpec, WarmedPool, US!WarmedPool

\* On every path through the handlers a connection is given back exactly once: none
\* leaks, none is counted twice, and the limit on them is kept, for any number of
\* requests and any limit.
THEOREM ConnectionsAccountedFor == CompanionsSpec => []PoolAccounted
<1>1. CompanionsInit => PoolInv
  BY InitPool DEF CompanionsInit
<1>2. PoolInv => PoolAccounted
  BY DEF PoolInv
<1> QED
  BY <1>1, <1>2, NextPool, PTL DEF CompanionsSpec
=============================================================================
