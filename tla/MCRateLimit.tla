---------------------------- MODULE MCRateLimit ----------------------------
(* Model-checking instance of RateLimit. *)
EXTENDS RateLimit

CONSTANT r1

OneClock  == [r \in Requests |-> 0]
TwoClocks == [r \in Requests |-> IF r = r1 THEN 1 ELSE 0]

Memory(burst, maxIdle) ==
    [backend |-> "memory", rate |-> 1, burst |-> burst, maxIdle |-> maxIdle]

Redis(maxDelay, skew) ==
    [backend |-> "redis", rate |-> 2, burst |-> 3, token |-> 3, maxDelay |-> maxDelay, skew |-> skew]

\* Idle times of at least and of less than a full refill; one clock and no
\* delay, delays, and clocks that differ.
MCSetups ==
    {Memory(2, 1), Memory(2, 0), Redis(0, OneClock), Redis(1, OneClock), Redis(0, TwoClocks)}
=============================================================================
