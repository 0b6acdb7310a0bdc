# Verification of the API gateway

TLA+ models of the gateway in `src/`, checked with TLC on small instances, and
proofs checked with TLAPS. `PROJECT.json` lists every run, the source lines each
definition models, mutated definitions that each property must reject, the
hazards of the code, and the disagreement between code and documentation that is
kept as a run; the others are listed below.

## The system

| Part | State | Operations | What is hard about it |
|---|---|---|---|
| Circuit breaker (`circuitbreaker/breaker.go`) | state, failures, openedAt | Allow, RecordSuccess, RecordFailure | reports arrive late, out of order, or never |
| Load balancer (`loadbalancer/roundrobin.go`) | atomic counter | Next | calls share the counter; health changes mid-call |
| Health checker (`health/checker.go`) | status map | Probe, Start, polling | stale verdicts; cancellation |
| Proxy handler (`proxy/proxy.go`) | breaker per upstream | ServeHTTP, ModifyResponse, ErrorHandler | every admitted request must be reported, once, to the right breaker |
| Configuration (`config/`) | the accepted settings | validate, defaults | what components assume must follow from what is accepted |
| Process (`cmd/gateway`) | signal context, server | boot, listen, drain, exit | boot order; several probes at once; drain beside cancelled checks |
| Telemetry (`otel/`) | three providers | Setup, Shutdown | half a setup; exits that skip the flush |
| Middleware chain (`cmd/gateway/server.go`, `middleware/`) | semaphore; span, log, counter per request | descend, answer, return, panic | what a panic skips |
| In-memory limiter (`ratelimit/limiter.go`) | map of limiters | Allow, cleanup | check-then-delete |
| Redis limiter (`ratelimit/redis.go`) | hash in Redis | Allow (script) | delayed calls, skewed clocks, lost replies, expiry |
| LRU (`cache/lru.go`) | list, map, byte total | Get, Set, evict | three structures kept in step by hand |
| Response cache (`middleware/cache.go`) | Vary list, singleflight | lookup, fill, share | the key is read before the response is known |
| Compression (`middleware/compress.go`) | buffer, decision | Write, WriteHeader, finish | one decision, however writes are cut |
| Example services (`upstream/catalog`, `upstream/orders`) | connection pool | warm, list, get, create, drain | every path must give its connection back |
| Load test (`loadtest/scenarios/user_flow.go`) | shared statistics | record, snapshot, print | snapshots between the users' records |

A request passes the middleware chain, the limiter, the cache and the compressor,
and reaches the proxy handler, which asks the balancer for an upstream and that
upstream's breaker for admission. The balancer reads what the health checker
stores; one context, cancelled by the signal, governs the probes, the health checks
and main. The example services and the load test are programs of their own, at the
two ends of the gateway.

## Modules

| Module | Models | Grain |
|---|---|---|
| `CircuitBreaker` | the breaker's methods as operators | each holds the mutex throughout |
| `Breaker` | one breaker under concurrent requests | one action per call |
| `RoundRobin`, `RoundRobinHistory` | `Next`; history to judge its results | one action per atomic access |
| `HealthChecker` | one service's checks | answer and store of a check are separate |
| `Proxy` | balancer + one breaker per upstream + the reverse proxy's hooks | as its parts |
| `Serving` | extends `RoundRobinHistory` by a `HealthChecker` over the same status map and by boot, drain and exit of one service | as its parts |
| `Config` | what `validate` accepts and fills in, as operators | |
| `Startup` | a process from `config.Load` to exit: configuration, telemetry, registration and probes of several services, drain, flush | one action per step that can fail |
| `LossyStore` | abstract: what a cache owes its user | |
| `LRU` | the cache itself, shown to implement `LossyStore` | one action per call (mutex) |
| `ResponseCache` | the cache middleware over a `LossyStore` | one action per access to shared state |
| `MemoryLimiter` | one key of the in-memory limiter | one action per map access |
| `RedisLimiter` | one key of the Redis limiter | the script is atomic |
| `RateLimit` | either limiter, as a service's configuration chooses | as its parts |
| `Pipeline` | the chain of a service with all layers switched on | one action per layer |
| `Compress` | `compressWriter` | one action per call |
| `Upstream` | an example service: its pool, its handlers, its drain | one action per use of the pool |
| `UserFlow` | the load test's users, reporter and main | one action per access to the statistics |
| `Companions` | `Upstream` or `UserFlow`, which share nothing | as its parts |
| `*Proofs` | theorems: `BreakerProofs`, `ProxyProofs`, `LRUProofs` and `RateLimitProofs` about the module of that name and its parts; `ServingProofs` also about `RoundRobinHistory`, `CacheProofs` about `ResponseCache`, `PipelineProofs` also about `Compress`, `StartupProofs` also about `Companions` | |

`MC*` modules and `.cfg` files instantiate them. Definitions commented "Slip:" are
plausible mistakes, used only to confirm that a property would notice them.

Data is abstracted: time is counted in ticks, and ages stop at the bound past
which the code cannot tell them apart; URLs, keys and bodies are model values;
a body is a byte count; a number of a configuration is its sign; a response is the
headers it was made for, the version of the resource it shows, its Vary field,
whether it may be cached and whether it is personal. Header fields keep their lines,
and keys of the response cache are text, in words one of which stands for the
"|name=" that `buildKey` writes. Variables marked "(history)" are read by
properties only.

External behaviour is modelled from its use: a `rate.Limiter` is a token bucket;
Redis runs scripts atomically and expires keys, and its client may lose a reply
and repeat a call; singleflight hands the leader's result or panic to all who
wait; errgroup cancels its context on the first error; chi panics on a pattern it
cannot mount; `database/sql` hands a returned connection to any of those waiting;
the reverse proxy panics when an upstream's body breaks off, and fails to upgrade
a connection because no writer in the chain can be hijacked.

## What the runs check

Each run, named in bold, asks for safety and, where the code promises any, for
liveness under the fair specification. LRU, cache and compression have no liveness
property. The type invariants document the variables and belong to no run.

**`breaker`.** Three requests, one of which is never reported; threshold and
timeout 2: enough for a request of an earlier episode, a test request and a third.
A closed breaker is below its threshold; nobody is admitted while it is open; one
request is while half-open; only a test request after the timeout ends the open
state. An open breaker is eventually tested, and a half-open one decides as long
as a test request that will be reported is out.

**`roundrobin`.** Two calls, three backends. An error is deserved unless another
call took a ticket between two of the call's own, or the counter wrapped in the
middle of the list during it (`alone` is false then); `Next` always returns. The
counter has four values: it wraps often and, as 2^64 does for three backends, at a
number that is no multiple of theirs.

**`proxy`.** Two requests, one of them with too large a body, two upstreams. Every
breaker is used as `Breaker` assumes, so its properties carry over
(`BreakersImplemented`, a refinement). Once upstreams are well, each breaker closes
or has been abandoned half-open by a test request nobody reported.

**`proxy_oversize`.** The same instance with threshold 1: that every breaker closes
(`ServiceRecovers`) is violated.

**`serving`.** One request, two upstreams that fail and recover at any time, a
signal at any time. No boot with all upstreams dead and no false alarm; until the
signal no request is refused while every upstream has been up all along, and one
that nobody got in the way of only after each has been down; verdicts follow the upstreams; a
signal always ends the process. A second request or a third upstream takes the
instance past minutes; `ServingProofs` covers any number of them for the safety
properties. Deadlock is not checked here: the process is meant to end.

**`startup`.** Up to two services. The first entry of the file may be wrong in every
way that validation looks at, the second repeats names and prefixes; limits,
settings, key, endpoint and every step of boot pass or fail. What is accepted meets
what the components assume of their arguments and their place in the chain. On each
of the five error paths of `Setup` everything made before is shut down. When main
returns after a drain in time, each provider has exported what the requests left
with it, or has itself failed to, which is no reason for another not to. Each service has
two upstreams, which fail and recover at any time and are checked each at its own
moment; a probe refuses to boot only if each of them was down at some moment of it,
or the process was told to stop. Boot ends. Deadlock is not checked: the process
ends.

**`lru`.** Four keys, three entries, five bytes, sizes 0, 2, 3 and 6, so that either
bound evicts, once several entries at a time, and one entry exceeds the budget.
List, map and total agree, the least recently used goes first, and the cache
implements `LossyStore`. The history `newer` keeps, of any two keys, which was used
later.

**`cache`.** Two requests, two headers, two versions of the resource and room for one
entry. The Vary fields are `a, b` in one line, and `a` and `b` in two, as `Compress`
makes them; one request's value of `a` looks like a part of a key, so that requests
and lists share keys. Hits were not meant for one client only, and they suit the
request as long as the fields are plain (one line, not empty, nothing like "|name="
in it) and Vary has one line. Of fills by calls made for the key they are stored
under, none replaces an entry by an older version.

**`ratelimit`.** Three requests of one key in five configurations: in memory with an
idle time of at least and of less than a full refill; in Redis with one clock and
no delay, with delays, and with clocks that differ. Two thirds of a token are
refilled per tick there, so that refused calls leave a fraction behind and the
refill does not come out even at expiry. In memory more than one bucket is admitted
only after a deletion, and idle keys are forgotten; in Redis only after `ts` was
turned back, and until then the hash is the ideal bucket. That bucket is charged
when scripts run; where calls are delayed or clocks differ it is larger by the
refill of the delay or skew, so a violation is never due to the lateness of a
single call.

**`pipeline`.** Two requests, one slot: slots and spans survive panics; logger, metrics
and tracing, each with a writer of its own around the one above, report what the
client was sent; nobody queues, even if handlers hang.

**`compress`.** Bodies to 10 bytes, threshold 4, writes of 0, 1, 3 and 5: every byte
arrives, in the announced coding. Deadlock is not checked: the response ends.

**`companions`.** An example service with three requests and a pool that is
unlimited, of one or of two connections; a load test with two users and three
requests per interval. The pool is warm when the service listens, a request that
waits for a connection gets one, and every recorded response is in the statistics, in
one snapshot, or printed once (a snapshot may stay unprinted when the process ends,
`AllPrinted`). Deadlock is not checked: both programs end.

## Fairness

- Steps of goroutines that nothing blocks are weakly fair (scheduler).
- The clock and tickers run (weak fairness of ticks).
- The steps of boot end, by timeouts of their own (`Startup`).
- `Breaker` and `Proxy` assume that clients keep sending and every proxied request
  ends. The transport sets no response timeout, so the second is an assumption on
  upstreams and clients, not something the code ensures.
- `Upstream` assumes that the database answers. The pool of `database/sql` picks
  among those waiting at random, so a request that waits while connections keep
  coming back gets one: strong fairness of `TakeConn`.
- `Pipeline`, `Serving` and `Startup` assume nothing of handlers or requests.

## Where code and documentation disagree

`proxy_oversize` is kept as a run: a test request answered 413 is not reported
(`proxy.go:94`) and leaves the breaker half-open for ever.

The other disagreements are stated by definitions in the modules, under the words
of the comment they take up, but belong to no run. TLC refutes each one when it
replaces the properties of the configuration named here, changed as shown.

| Configuration | Property | What happens |
|---|---|---|
| `MCBreaker` | `OneTestInFlight` | an older request's report decides the half-open state; two test requests end up in flight (`breaker.go:45`) |
| `MCRoundRobin` | `ErrorMeansAllDown` | "no healthy upstreams" although one is healthy throughout (`roundrobin.go:34`) |
| `MCServing` | `DrainIsGraceful` | a request accepted before the signal is refused because the checks were cancelled (`checker.go:82`) |
| `MCRateLimit`, `MCSetups` = {`Memory(2, 1)`} | `NeverOverAdmits` | cleanup deletes a key that has just come back (`limiter.go:88`), or one whose bucket has not refilled (`limiter.go:87`) |
| `MCRateLimit`, `MCSetups` = {`Redis(1, OneClock)`} | `NeverOverAdmits` | `ts` moves backwards and time is credited twice (`redis.go:42`) |
| `MCRateLimit`, `MCSetups` = {`Redis(0, TwoClocks)`} | `NeverOverAdmits` | the same, by clocks that differ |
| `MCResponseCache` | `SharedSuit` | a waiting request is given another variant's entry (`cache.go:114`) |
| `MCResponseCache` | `ReplayedOnce` | an uncacheable response goes to everyone who waited (`cache.go:125`) |
| `MCResponseCache` | `MissesCollapse` (as PROPERTY) | a miss that reaches singleflight late makes a second call (`cache.go:114`) |
| `MCResponseCache` | `EveryHitSuits` | the compressor's Vary line hides the upstream's (`cache.go:158`); or the value of one header reads like the next header's part of the key (`cache.go:274`) |
| `MCResponseCache` | `EveryFillAdvances` (as PROPERTY) | a fill whose response names another Vary list than its key was built with replaces a newer entry (`cache.go:186`) |
| `MCPipeline` | `LogsEveryRequest` | a panicking request is not logged (`logger.go:36`) |
| `MCPipeline` | `PanicsAnswered500` | a panic after the status line is not answered 500 (`recoverer.go:20`) |
| `MCStartup` | `FlushedAtExit` | `os.Exit` skips the deferred shutdown of telemetry (`main.go:78`; `otel.go:26`: "Call Shutdown on application exit") |
| `MCStartup` | `BuildReturns` | chi panics on a prefix that validation accepts (`server.go:33`: "Returns an error instead of exiting") |
| `MCCompanions` | `ErrorsConserved` | `recordError` counts without the mutex, and a reset drops it (`user_flow.go:59`) |
| `MCCompanions` | `AllPrinted` | the process ends while the reporter holds a snapshot it has not printed |

Three more are not stated as properties. `warmPool` of the example services "opens n
connections in parallel" (`orders/main.go:203`, `catalog/main.go:165`) but opens them
one after the other. `config.go:109` lets the response's max-age override the TTL;
max-age=0 does not. Those who waited in singleflight may be given the 304, 206 or 502
that the leader got for its own conditions or its own disconnection.

## What is proved

For every value of the constants:

- `BreakerProofs`: type correctness, `ClosedBelowThreshold`, `OpenAdmitsNobody`,
  `HalfOpenAdmitsOne`, and the action property `OpenLastsTimeout`, from
  `BreakerAssumption` (positive threshold and timeout, as `validate.go` demands).
  The four invariants are inductive together; `HalfOpenAdmitsOne` needs
  `OpenAdmitsNobody`, because the test request is alone only if nobody was
  admitted while the breaker was open. Two lemmas say where each method leads.
- `ProxyProofs`: `BreakersImplemented`, step by step. Each action of the proxy is,
  for the breaker it touches, a call of one of the methods as `Breaker` models it,
  and leaves the other breakers alone; the invariant says that a request in the proxy has a
  target, and that only such a request is marked as a test request or as late. The theorems of
  `BreakerProofs` then hold of every upstream's breaker: `UpstreamGuarded` and
  `UpstreamShutForTimeout`. From `ProxyAssumption` and `BreakerAssumption`.
- `ServingProofs`, in three parts. The balancer: `UncontendedErrorMeansAllDown`. The
  tickets a call has taken while `alone` are consecutive indices modulo the number of
  backends, so after as many as there are backends each has been looked at; what a
  call has looked at was down then and is not in `alive`. Lemmas about `%` carry
  this over the counter's wrap where it is even. The checker: `NoDeadBoot` and
  `NoFalseAlarm`. Neither is inductive alone: the invariant adds that news on its
  way is true, that Probe has reported what is up before it returns, and that the
  history covers the present. The process: each of its steps is a step of both parts
  or leaves them alone (`ProcessImplementsParts`), so their invariants are the
  process's, and `NoDeadBoot`, `NoFalseAlarm` and all of `NoSpuriousOutage` follow:
  a request refused before the signal has looked at an upstream reported down, which
  `NoFalseAlarm` says has been down.
- `PipelineProofs`: `SlotsAccounted`, `SpansEnded` and `ObserversAgree`. The invariant
  says of each request which layers it has passed and not left, so that taking a
  slot and giving it back change the number of those inside by one, and that the
  writer of every observer it has passed holds what was sent, or 200 before that. Of `Compress`:
  `BodyIntact` and the action property `OnlyWorthwhile`, from an invariant that
  accounts for every byte written as buffered, plain or zipped, before and after the
  decision.
- `StartupProofs`: `BuiltAsAssumed`, `SetupLeaksNothing`, `TelemetryKept` and
  `RefusalHasCause`, for any services a file may hold (`ServicesAssumption`) and any
  upstreams. Lemmas say what validation and defaults leave of a service and of the
  limits, and what chain and arguments `buildRouter` makes of that. The invariant
  carries this from Load to registration; it says which providers run at each step
  of `Setup`, that what is still to be exported is in a running provider or one that
  failed, and that a check that failed without a cancellation saw its upstream
  down. Of `Companions`: `SamplesConserved` for any
  number of users, because between copy and reset the mutex is held and the copy
  counts what is there to reset; the action property `WarmedPool`; and that no path
  through a handler leaks a connection or counts one twice
  (`ConnectionsAccountedFor`), the safety behind `PoolServes`. From
  `CompanionsAssumption`: finitely many requests, integer limits.
- `CacheProofs`: `HitsSuit`, `HitsImpersonal` and the action property
  `FillsAdvance`, for any header fields, Vary fields and number of requests. For
  `HitsSuit` the key is read back from its text: in the key of a plain request a
  name of a header begins each part and nothing else, so two plain requests with one
  key agree on every header of either list, whatever lists the keys were built from
  (`KeysApart`). That a key reads so is an induction over the list it is built from, made
  first-order by looking at the first header at which it would fail (`FirstOf`). The
  invariant: every entry is stored under the key its own request has for its Vary
  list; one leader per key; what a leader holds is no older than a kept entry under
  its key.
- `LRUProofs`: `Consistent`, the action property `EvictsOldest`, and
  `ImplementsLossyStore`. The invariant links list and map (each element is the
  map's for its key, each key has one element) and orders the list by `newer`; one
  lemma each says what taking an element out, putting one in front and cutting the
  back off does to it. The byte total is a sum over the list. What such a sum does
  when the list changes is an induction, made first-order by looking at the least
  length at which it would fail (`Least`). From `LRUAssumption`.
- `RateLimitProofs`, for every configuration `RateLimit` chooses from, which
  `SetupsAssumption` takes to have positive rates and bursts. In memory:
  `OnlyDeletionOverAdmits` for any number of callers. Until a deletion hits a limiter
  in use everyone holds the one in the map, and until one forgives, its bucket is the
  ideal one; an entry has gained at least its idle time's refill since it was last
  seen, because nobody takes from a limiter whose entry is older. In Redis:
  `OnlyTurningBackOverAdmits` and `BucketExact` for any number of gateways, if no
  stamp is off by more than a tick (`StampsNearlyRight`, which all configurations of
  the run meet). The invariant bounds the ideal bucket from both sides by the hash
  and what it has gained since `ts`. The hypothesis is needed: the script lets a key
  outlive its refill by one second, and with a delay of two ticks TLC finds a late
  call that meets no key and is given a full bucket too early.

So every invariant, action property and refinement that a run checks and that holds
is also proved. Liveness is out of the prover's reach and is model-checked only:
`OpenIsTested`, `HalfOpenDecides`, `NextReturns`, `RecoversUnlessAbandoned`,
`VerdictsFollow`, `SignalEnds`, `IdleKeyForgotten`, `NeverQueued`, `BootEnds` and
`PoolServes`.

## Not modelled

Routing by prefix and the edge-limited routes (404, 405, `/healthz`); contents of
logs and metrics; the log fan-out, which forwards records and has no state (the
first handler that fails keeps a record from the second, `fanout.go:26`); YAML
parsing; JWT verification and how a limiter's key is read off a request; header
rewriting; ETags, 304 answers and the computation of times to live in the cache
middleware (an entry may go at any time); the method, path and query at the head of
a cache key, of which the model has one, so that nothing is said of two of them;
buffers and streaming: what Flush delays in `compress.go:53`; the contents of
upstream answers and queries; tokens for the load test, whose `-gateway` URL is
taken to be valid; connections that pass their lifetime while `warmPool` still
opens others. These are formatting, libraries, or values no state depends on. That
a rate limiter whose backend fails lets requests pass is the code's choice and part
of `Pipeline` and `RedisLimiter`.

## Plan

State the safety that each liveness property rests on, as `ConnectionsAccountedFor`
does for `PoolServes`, and prove it. Model ETags and times to live should the cache
come to depend on them in more than one place.
