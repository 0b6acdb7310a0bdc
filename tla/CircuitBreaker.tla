-------------------------- MODULE CircuitBreaker --------------------------
(***************************************************************************)
(* The methods of internal/circuitbreaker/breaker.go as operators over the *)
(* state of one Breaker.  Every method holds b.mu from its first to its    *)
(* last statement, so each is one atomic function of that state.           *)
(*                                                                         *)
(* Two fields are kept only as far as the code can observe them:           *)
(*  - openedAt is read once, in time.Since(openedAt) >= timeout; "age" is  *)
(*    that elapsed time in clock ticks and stops counting at Timeout;      *)
(*  - failures is read once, in failures >= maxFailures; the counter stops *)
(*    at MaxFailures, past which no comparison can tell two values apart.  *)
(***************************************************************************)
EXTENDS Naturals

CONSTANTS
    MaxFailures,   \* consecutive failures that trip the breaker
    Timeout        \* ticks a tripped breaker rejects before a test request

\* validateCircuitBreaker refuses anything that is not positive.
ASSUME BreakerAssumption ==
    /\ MaxFailures \in Nat \ {0}
    /\ Timeout \in Nat \ {0}

Closed   == "closed"
Open     == "open"
HalfOpen == "half-open"

BreakerState == [state: {Closed, Open, HalfOpen},
                 failures: 0..MaxFailures,
                 age: 0..Timeout]

CapAt(n, bound) == IF n > bound THEN bound ELSE n

\* openedAt starts as the zero time, further back than any timeout.
NewBreaker == [state |-> Closed, failures |-> 0, age |-> Timeout]

TimedOut(b) == b.age >= Timeout

\* Slip: a half-open breaker lets everyone through.
AdmitsHalfOpen(b) == b.state # Open \/ TimedOut(b)

\* Allow returns nil, or ErrOpen.
Admits(b) == b.state = Closed \/ (b.state = Open /\ TimedOut(b))

\* Slip: the test request does not move the breaker to half-open.
AfterAllowStaysOpen(b) == b

\* What an admitting Allow leaves behind; a rejecting one changes nothing.
AfterAllow(b) == IF b.state = Open THEN [b EXCEPT !.state = HalfOpen] ELSE b

\* Slip: a success closes the breaker whatever its state.
AfterSuccessCloses(b) == [b EXCEPT !.failures = 0, !.state = Closed]

\* Slip: a success resets the counter and forgets the half-open state.
AfterSuccessKeepsState(b) == [b EXCEPT !.failures = 0]

AfterSuccess(b) ==
    [state    |-> IF b.state = HalfOpen THEN Closed ELSE b.state,
     failures |-> 0,
     age      |-> b.age]

\* Slip: off by one at the threshold.
TripsLate(b) == b.state = HalfOpen \/ b.failures + 1 > MaxFailures

\* The failure that reaches the threshold, and any failure while half-open,
\* (re)opens the breaker and restarts its timeout.
Trips(b) == b.state = HalfOpen \/ b.failures + 1 >= MaxFailures

AfterFailure(b) ==
    [state    |-> IF Trips(b) THEN Open ELSE b.state,
     failures |-> CapAt(b.failures + 1, MaxFailures),
     age      |-> IF Trips(b) THEN 0 ELSE b.age]

\* One tick of the clock time.Since reads.
AfterTick(b) == [b EXCEPT !.age = CapAt(@ + 1, Timeout)]
=============================================================================
