------------------------------ MODULE Breaker ------------------------------
(***************************************************************************)
(* One circuit breaker shared by the goroutines of concurrent requests:    *)
(* a request asks Allow, and if admitted reports its outcome some time     *)
(* later.  Any number of other calls, and of clock ticks, may fall between *)
(* the two, so results reach the breaker late and out of order.            *)
(***************************************************************************)
EXTENDS CircuitBreaker, FiniteSets

CONSTANTS
    Callers,      \* requests that may be in flight at once
    Unrecorded    \* the callers whose request may end without a report

ASSUME CallersAssumption == Unrecorded \subseteq Callers

VARIABLES
    brk,    \* the breaker's state
    call,   \* per caller: "idle", "admitted", or "upgrading" once the
            \* success of a 101 response has been reported
    test,   \* callers in flight admitted as a test request
    late    \* callers in flight admitted before the breaker last opened
            \* (test and late are history, read by the properties only)

vars == <<brk, call, test, late>>

InFlight == {c \in Callers : call[c] # "idle"}

TypeOK ==
    /\ brk \in BreakerState
    /\ call \in [Callers -> {"idle", "admitted", "upgrading"}]
    /\ test \subseteq InFlight
    /\ late \subseteq InFlight

Init ==
    /\ brk = NewBreaker
    /\ call = [c \in Callers |-> "idle"]
    /\ test = {}
    /\ late = {}

----------------------------------------------------------------------------

\* Allow returns nil.
Allow(c) ==
    /\ call[c] = "idle"
    /\ Admits(brk)
    /\ brk' = AfterAllow(brk)
    /\ call' = [call EXCEPT ![c] = "admitted"]
    /\ test' = IF brk.state = Open THEN test \cup {c} ELSE test
    /\ UNCHANGED late

\* Allow returns ErrOpen: the caller answers 503 and nothing is recorded.
Reject(c) ==
    /\ call[c] = "idle"
    /\ ~Admits(brk)
    /\ UNCHANGED vars

Finish(c) ==
    /\ call' = [call EXCEPT ![c] = "idle"]
    /\ test' = test \ {c}

RecordSuccess(c) ==
    /\ call[c] = "admitted"
    /\ brk' = AfterSuccess(brk)
    /\ Finish(c)
    /\ late' = late \ {c}

\* A 101 response counts as a success before the connection is upgraded;
\* the upgrade then fails, see Proxy.
RecordUpgrade(c) ==
    /\ call[c] = "admitted"
    /\ brk' = AfterSuccess(brk)
    /\ call' = [call EXCEPT ![c] = "upgrading"]
    /\ UNCHANGED <<test, late>>

RecordFailure(c) ==
    /\ call[c] \in {"admitted", "upgrading"}
    /\ brk' = AfterFailure(brk)
    /\ Finish(c)
    /\ late' = (IF Trips(brk) THEN InFlight ELSE late) \ {c}

\* The request ends and neither Record method is called.
EndUnrecorded(c) ==
    /\ c \in Unrecorded
    /\ call[c] = "admitted"
    /\ Finish(c)
    /\ late' = late \ {c}
    /\ UNCHANGED brk

\* Time passes.
Tick ==
    /\ brk' = AfterTick(brk)
    /\ UNCHANGED <<call, test, late>>

Next ==
    \/ \E c \in Callers :
          \/ Allow(c)
          \/ Reject(c)
          \/ RecordSuccess(c)
          \/ RecordUpgrade(c)
          \/ RecordFailure(c)
          \/ EndUnrecorded(c)
    \/ Tick

Spec == Init /\ [][Next]_vars

Report(c) ==
    RecordSuccess(c) \/ RecordUpgrade(c) \/ RecordFailure(c) \/ EndUnrecorded(c)

\* Time goes on, clients keep sending requests, and every request ends.  The
\* last rests on the upstream answering or the client's connection ending: the
\* transport sets no bound of its own on the wait for a response.
FairSpec ==
    /\ Spec
    /\ WF_vars(Tick)
    /\ \A c \in Callers : WF_vars(Allow(c)) /\ WF_vars(Report(c))
----------------------------------------------------------------------------

\* A closed breaker is always below its threshold: the failure that reaches it
\* opens the breaker in the same critical section, and the way back to closed
\* (RecordSuccess while half-open) clears the count of the earlier episode.
ClosedBelowThreshold == brk.state = Closed => brk.failures < MaxFailures

\* While the breaker is open every request still in flight was admitted before
\* it opened: nobody gets through during the timeout, whatever late reports do
\* to the counter and to openedAt meanwhile.
OpenAdmitsNobody == brk.state = Open => InFlight \subseteq late

\* "In the half-open state, only one request is allowed through": apart from
\* requests admitted before the breaker opened, at most one is in flight.
HalfOpenAdmitsOne ==
    brk.state = HalfOpen => \A c, d \in InFlight \ late : c = d

\* Only a test request admitted after the full timeout ends the open state; no
\* late report of an older request, success or failure, cuts it short.
OpenLastsTimeout ==
    [][brk.state = Open /\ brk'.state # Open =>
          brk.age >= Timeout /\ brk'.state = HalfOpen /\ test' # test]_vars

\* An open breaker eventually lets a test request through, although late
\* failures keep restarting its timeout.
OpenIsTested == brk.state = Open ~> brk.state = HalfOpen

\* A half-open breaker eventually decides, as long as a test request that will be
\* reported is still out: reports are all that ends this state.
HalfOpenDecides ==
    (brk.state = HalfOpen /\ test # {} /\ test \cap Unrecorded = {})
        ~> brk.state # HalfOpen

\* The comment on Allow read for the upstream's sake: while the breaker is
\* half-open there is one test request at the upstream.
OneTestInFlight == brk.state = HalfOpen => \A c, d \in test : c = d
=============================================================================
