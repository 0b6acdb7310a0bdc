----------------------------- MODULE RateLimit -----------------------------
(***************************************************************************)
(* A service's limiter as buildServiceLimiter sets it up: in memory or in  *)
(* Redis, with the settings of one configuration.  The requests and the    *)
(* ideal bucket they are charged to are those of either limiter.           *)
(***************************************************************************)
EXTENDS Integers, Functions

CONSTANTS
    Requests,
    Limiters,   \* identities of rate.Limiter objects
    Setups,     \* the configurations: [backend, rate, burst] and
                \* maxIdle for memory, token, maxDelay, skew for redis
    None

VARIABLES
    setup,
    entry, tokens, held, sweep, raced, forgave,   \* MemoryLimiter
    bucket, lag, repeated, turnedBack,            \* RedisLimiter
    pc, credit                                    \* either

memoryVars == <<entry, tokens, held, sweep, raced, forgave>>
redisVars  == <<bucket, lag, repeated, turnedBack>>
vars == <<setup, memoryVars, redisVars, pc, credit>>

ML(s) == INSTANCE MemoryLimiter WITH
    Callers <- Requests, Rate <- s.rate, Burst <- s.burst, MaxIdle <- s.maxIdle

RL(s) == INSTANCE RedisLimiter WITH
    Gateways <- Requests, Rate <- s.rate, Burst <- s.burst, Token <- s.token,
    MaxDelay <- s.maxDelay, Skew <- s.skew

InMemory == {s \in Setups : s.backend = "memory"}
InRedis  == Setups \ InMemory

ASSUME SetupsAssumption ==
    /\ \A s \in InMemory : ML(s)!MemoryAssumption
    /\ \A s \in InRedis : s.backend = "redis" /\ RL(s)!RedisAssumption

Init ==
    \/ \E s \in InMemory :
          /\ setup = s /\ ML(s)!Init
          /\ bucket = None /\ lag = None /\ repeated = FALSE /\ turnedBack = FALSE
    \/ \E s \in InRedis :
          /\ setup = s /\ RL(s)!Init
          /\ entry = None /\ tokens = None /\ held = None
          /\ sweep = FALSE /\ raced = FALSE /\ forgave = FALSE

MemoryStep(s, step) == setup = s /\ step /\ UNCHANGED <<setup, redisVars>>
RedisStep(s, step) == setup = s /\ step /\ UNCHANGED <<setup, memoryVars>>

Next ==
    \/ \E s \in InMemory : MemoryStep(s, ML(s)!Next)
    \/ \E s \in InRedis : RedisStep(s, RL(s)!Next)

Spec == Init /\ [][Next]_vars

\* In memory the clock runs, cleanup's ticker fires again and again, and a caller
\* inside Allow is never blocked; nothing is asked of Redis or of clients.
FairSpec ==
    /\ Spec
    /\ \A s \in InMemory :
          /\ WF_vars(MemoryStep(s, ML(s)!Tick))
          /\ WF_vars(MemoryStep(s, ML(s)!Inspect))
          /\ WF_vars(MemoryStep(s, ML(s)!Delete))
          /\ \A r \in Requests : WF_vars(MemoryStep(s, ML(s)!InAllow(r)))

----------------------------------------------------------------------------

\* "allows r requests per second with a burst size of b", or "multiple gateway
\* processes share one token bucket per key": all that is admitted fits into one
\* bucket.  Neither limiter keeps to that in every configuration.
NeverOverAdmits == credit >= 0

\* In memory: no configuration admits more than one bucket allows, except by a
\* deletion, and by a race alone if keys idle for at least a full refill.
OnlyDeletionOverAdmits == \A s \in InMemory : setup = s => ML(s)!OnlyDeletionOverAdmits

\* In memory: a key that is no longer used leaves the map for good.
IdleKeyForgotten == \A s \in InMemory : setup = s => ML(s)!IdleKeyForgotten

\* In Redis: no configuration admits more than one bucket allows, unless ts was
\* turned back.
OnlyTurningBackOverAdmits == \A s \in InRedis : setup = s => RL(s)!OnlyTurningBackOverAdmits

\* In Redis: the hash, or its absence, amounts to the ideal bucket.
BucketExact == \A s \in InRedis : setup = s => RL(s)!BucketExact
=============================================================================
