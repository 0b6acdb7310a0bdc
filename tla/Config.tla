------------------------------- MODULE Config -------------------------------
(***************************************************************************)
(* internal/config: what validate accepts and what it fills in.  Numbers   *)
(* and durations are told apart by their sign only, which is all that      *)
(* validate looks at and all that the constructors behind it depend on.    *)
(*                                                                         *)
(* A YAML section that is left out is None; services[].rate_limit and the  *)
(* like are pointers in the source.                                        *)
(***************************************************************************)
EXTENDS Naturals, Sequences, Functions

CONSTANT None

Signs == {"positive", "unset"}   \* unset: absent, zero or negative
Names == {"", "a", "b"}
Backends == {"", "memory", "redis", "other"}
KeyBys == {"", "ip", "jwt_sub", "other"}

\* A path prefix is known by the path it mounts; Rooted ones begin with "/".
PathPrefixes == {"", "/a", "/a/", "/b", "b"}
Rooted == {"/a", "/a/", "/b"}
MountPath(prefix) == IF prefix \in {"/a", "/a/"} THEN "a" ELSE "b"

ServiceRateLimits == [rate: Signs, burst: Signs, keyBy: KeyBys]
ServiceCaches == [TTL: Signs, MaxEntries: Signs, MaxBytes: Signs]

RateLimits ==
    [backend: Backends, addr: BOOLEAN, rate: Signs, burst: Signs, interval: Signs, maxIdle: Signs]

CircuitBreakers == [maxFailures: Signs, timeout: Signs]

\* Everything else that is a number: health_check, compression.min_bytes, the
\* server's limits, transport and telemetry.
Settings == {"healthInterval", "minBytes", "maxBodyBytes", "maxHeaderBytes",
             "transport", "metricInterval", "traceBatchTimeout", "logBatchTimeout"}

Services ==
    [name: Names, prefix: PathPrefixes, upstreams: BOOLEAN, auth: BOOLEAN, roles: BOOLEAN,
     rateLimit: ServiceRateLimits \cup {None}, cache: ServiceCaches \cup {None}]

----------------------------------------------------------------------------

\* Slip: jwt_sub is accepted on a service without authentication.
ServiceRateLimitOKAnyKey(svc) ==
    svc.rateLimit # None =>
        /\ svc.rateLimit.rate = "positive"
        /\ svc.rateLimit.burst = "positive"
        /\ svc.rateLimit.keyBy # "other"

ServiceRateLimitOK(svc) ==
    svc.rateLimit # None =>
        /\ svc.rateLimit.rate = "positive"
        /\ svc.rateLimit.burst = "positive"
        /\ svc.rateLimit.keyBy # "other"
        /\ svc.rateLimit.keyBy = "jwt_sub" => svc.auth

\* The body of validateServices' loop, the services before this one accepted.
ServiceOK(svc, earlier) ==
    /\ svc.name # "" /\ svc.prefix # "" /\ svc.upstreams
    /\ \A s \in Range(earlier) : s.name # svc.name /\ s.prefix # svc.prefix
    /\ svc.roles => svc.auth
    /\ ServiceRateLimitOK(svc)

\* KeyBy "" becomes "ip", and the numbers of a cache section get defaults.
WithServiceDefaults(svc) ==
    [svc EXCEPT
        !.rateLimit = IF @ # None /\ @.keyBy = "" THEN [@ EXCEPT !.keyBy = "ip"] ELSE @,
        !.cache = IF @ # None THEN [f \in DOMAIN @ |-> "positive"] ELSE @]

RateLimitOK(rl) ==
    rl # None =>
        /\ rl.rate = "positive"
        /\ rl.burst = "positive"
        /\ rl.backend # "other"
        /\ rl.backend = "redis" => rl.addr

\* Slip: cleanup_interval is left at zero.
WithRateLimitDefaultsNoInterval(rl) ==
    IF rl = None THEN None
    ELSE [rl EXCEPT !.backend = IF @ = "" THEN "memory" ELSE @, !.maxIdle = "positive"]

WithRateLimitDefaults(rl) ==
    IF rl = None THEN None
    ELSE [rl EXCEPT !.backend = IF @ = "" THEN "memory" ELSE @,
                    !.interval = "positive",
                    !.maxIdle = "positive"]

CircuitBreakerOK(cb) == cb # None => cb.maxFailures = "positive" /\ cb.timeout = "positive"

\* The apply...Defaults functions: min_bytes matters when compression is on.
WithDefaults(settings, compression) ==
    [s \in Settings |-> IF s = "minBytes" /\ ~compression THEN settings[s] ELSE "positive"]
=============================================================================
