--------------------------- MODULE BreakerProofs ---------------------------
(***************************************************************************)
(* What holds of Breaker for any number of callers, any threshold and any  *)
(* timeout.                                                                *)
(***************************************************************************)
EXTENDS Breaker, TLAPS

\* The four invariants are inductive together.  OpenAdmitsNobody needs nothing
\* else, but HalfOpenAdmitsOne needs it: the test request is alone after Allow
\* because no one was admitted while the breaker was open.
IInv ==
    /\ TypeOK
    /\ ClosedBelowThreshold
    /\ OpenAdmitsNobody
    /\ HalfOpenAdmitsOne

----------------------------------------------------------------------------

\* The methods keep the breaker's fields within their ranges.
LEMMA MethodsKeepState ==
    ASSUME NEW b \in BreakerState
    PROVE  /\ AfterAllow(b) \in BreakerState
           /\ AfterSuccess(b) \in BreakerState
           /\ AfterFailure(b) \in BreakerState
           /\ AfterTick(b) \in BreakerState
<1> USE BreakerAssumption DEF BreakerState, CapAt, Closed, Open, HalfOpen
<1>1. AfterAllow(b) \in BreakerState
  BY DEF AfterAllow
<1>2. AfterSuccess(b) \in BreakerState
  BY DEF AfterSuccess
<1>3. AfterFailure(b) \in BreakerState
  BY DEF AfterFailure, Trips
<1>4. AfterTick(b) \in BreakerState
  BY DEF AfterTick
<1> QED
  BY <1>1, <1>2, <1>3, <1>4

\* Where each method can lead.
LEMMA MethodsMove ==
    ASSUME NEW b \in BreakerState
    PROVE  /\ AfterAllow(b).state = IF b.state = Open THEN HalfOpen ELSE b.state
           /\ AfterAllow(b).failures = b.failures
           /\ AfterSuccess(b).state =
                 IF b.state = HalfOpen THEN Closed ELSE b.state
           /\ AfterSuccess(b).failures = 0
           /\ Trips(b) => AfterFailure(b).state = Open
           /\ ~Trips(b) => /\ AfterFailure(b).state = b.state
                           /\ b.state # HalfOpen
                           /\ AfterFailure(b).failures < MaxFailures
           /\ AfterTick(b).state = b.state
           /\ AfterTick(b).failures = b.failures
  BY BreakerAssumption
     DEF BreakerState, AfterAllow, AfterSuccess, AfterFailure, AfterTick,
         Trips, CapAt, Closed, Open, HalfOpen

----------------------------------------------------------------------------

\* The program starts in a state that satisfies the inductive invariant.
LEMMA InitIInv == Init => IInv
  BY BreakerAssumption
     DEF Init, IInv, TypeOK, ClosedBelowThreshold, OpenAdmitsNobody,
         HalfOpenAdmitsOne, InFlight, BreakerState, NewBreaker, Closed, Open,
         HalfOpen

\* A caller that ends leaves the others in flight and the history in step.
LEMMA FinishRemoves ==
    ASSUME TypeOK, NEW c \in Callers, Finish(c)
    PROVE  /\ call' \in [Callers -> {"idle", "admitted", "upgrading"}]
           /\ InFlight' = InFlight \ {c}
           /\ test' \subseteq InFlight'
  BY DEF TypeOK, Finish, InFlight

\* Every step of the program preserves it.
LEMMA NextIInv == IInv /\ [Next]_vars => IInv'
<1> SUFFICES ASSUME IInv, [Next]_vars PROVE IInv'
  OBVIOUS
<1> USE BreakerAssumption
<1>b. brk \in BreakerState
  BY DEF IInv, TypeOK
<1>s. Closed # Open /\ Closed # HalfOpen /\ Open # HalfOpen
  BY DEF Closed, Open, HalfOpen
<1>1. ASSUME NEW c \in Callers, Allow(c) PROVE IInv'
  <2>1. InFlight' = InFlight \cup {c} /\ c \notin InFlight
    BY <1>1 DEF Allow, InFlight, IInv, TypeOK
  <2>2. TypeOK'
    BY <1>1, <1>b, <2>1, MethodsKeepState DEF Allow, IInv, TypeOK
  <2>3. brk.state \in {Open, Closed}
    BY <1>1 DEF Allow, Admits
  <2>4. CASE brk.state = Open
    <3>1. brk'.state = HalfOpen
      BY <1>1, <1>b, <2>4, MethodsMove DEF Allow
    <3>2. InFlight' \ late' \subseteq {c}
      BY <1>1, <2>1, <2>4 DEF Allow, IInv, OpenAdmitsNobody
    <3> QED
      BY <1>s, <2>2, <3>1, <3>2
         DEF IInv, ClosedBelowThreshold, OpenAdmitsNobody, HalfOpenAdmitsOne
  <2>5. CASE brk.state = Closed
    <3>1. brk'.state = Closed /\ brk'.failures = brk.failures
      BY <1>1, <1>b, <1>s, <2>5, MethodsMove DEF Allow
    <3> QED
      BY <1>s, <2>2, <2>5, <3>1
         DEF IInv, ClosedBelowThreshold, OpenAdmitsNobody, HalfOpenAdmitsOne
  <2> QED
    BY <2>3, <2>4, <2>5
<1>2. ASSUME NEW c \in Callers, RecordSuccess(c) PROVE IInv'
  <2>1. InFlight' = InFlight \ {c} /\ late' = late \ {c}
    BY <1>2, FinishRemoves DEF RecordSuccess, IInv
  <2>2. TypeOK'
    BY <1>2, <1>b, <2>1, MethodsKeepState, FinishRemoves
       DEF RecordSuccess, IInv, TypeOK
  <2>3. /\ brk'.state # HalfOpen
        /\ brk'.state = Open => brk.state = Open
        /\ brk'.failures = 0
    BY <1>2, <1>b, <1>s, MethodsMove DEF RecordSuccess
  <2> QED
    BY <2>1, <2>2, <2>3
       DEF IInv, ClosedBelowThreshold, OpenAdmitsNobody, HalfOpenAdmitsOne
<1>3. ASSUME NEW c \in Callers, RecordUpgrade(c) PROVE IInv'
  <2>1. InFlight' = InFlight
    BY <1>3 DEF RecordUpgrade, InFlight, IInv, TypeOK
  <2>2. TypeOK'
    BY <1>3, <1>b, <2>1, MethodsKeepState DEF RecordUpgrade, IInv, TypeOK
  <2>3. /\ brk'.state # HalfOpen
        /\ brk'.state = Open => brk.state = Open
        /\ brk'.failures = 0
    BY <1>3, <1>b, <1>s, MethodsMove DEF RecordUpgrade
  <2>4. late' = late
    BY <1>3 DEF RecordUpgrade
  <2> QED
    BY <2>1, <2>2, <2>3, <2>4
       DEF IInv, ClosedBelowThreshold, OpenAdmitsNobody, HalfOpenAdmitsOne
<1>4. ASSUME NEW c \in Callers, RecordFailure(c) PROVE IInv'
  <2>1. InFlight' = InFlight \ {c}
    BY <1>4, FinishRemoves DEF RecordFailure, IInv
  <2>2. late' = (IF Trips(brk) THEN InFlight ELSE late) \ {c}
    BY <1>4 DEF RecordFailure
  <2>3. TypeOK'
    BY <1>4, <1>b, <2>1, <2>2, MethodsKeepState, FinishRemoves
       DEF RecordFailure, IInv, TypeOK
  <2>4. CASE Trips(brk)
    <3>1. brk'.state = Open
      BY <1>4, <1>b, <2>4, MethodsMove DEF RecordFailure
    <3> QED
      BY <1>s, <2>1, <2>2, <2>3, <2>4, <3>1
         DEF IInv, ClosedBelowThreshold, OpenAdmitsNobody, HalfOpenAdmitsOne
  <2>5. CASE ~Trips(brk)
    <3>1. /\ brk'.state = brk.state
          /\ brk.state # HalfOpen
          /\ brk'.failures < MaxFailures
      BY <1>4, <1>b, <2>5, MethodsMove DEF RecordFailure
    <3> QED
      BY <2>1, <2>2, <2>3, <2>5, <3>1
         DEF IInv, ClosedBelowThreshold, OpenAdmitsNobody, HalfOpenAdmitsOne
  <2> QED
    BY <2>4, <2>5
<1>5. ASSUME NEW c \in Callers, EndUnrecorded(c) PROVE IInv'
  <2>1. InFlight' = InFlight \ {c} /\ late' = late \ {c} /\ brk' = brk
    BY <1>5, FinishRemoves DEF EndUnrecorded, IInv
  <2>2. TypeOK'
    BY <1>5, <2>1, FinishRemoves DEF EndUnrecorded, IInv, TypeOK
  <2> QED
    BY <2>1, <2>2
       DEF IInv, ClosedBelowThreshold, OpenAdmitsNobody, HalfOpenAdmitsOne
<1>6. CASE Tick
  <2>1. TypeOK'
    BY <1>6, <1>b, MethodsKeepState DEF Tick, IInv, TypeOK, InFlight
  <2>2. brk'.state = brk.state /\ brk'.failures = brk.failures
    BY <1>6, <1>b, MethodsMove DEF Tick
  <2>3. InFlight' = InFlight /\ late' = late
    BY <1>6 DEF Tick, InFlight
  <2> QED
    BY <2>1, <2>2, <2>3
       DEF IInv, ClosedBelowThreshold, OpenAdmitsNobody, HalfOpenAdmitsOne
<1>7. CASE UNCHANGED vars
  BY <1>7 DEF vars, IInv, TypeOK, ClosedBelowThreshold, OpenAdmitsNobody,
              HalfOpenAdmitsOne, InFlight
<1> QED
  BY <1>1, <1>2, <1>3, <1>4, <1>5, <1>6, <1>7 DEF Next, Reject

----------------------------------------------------------------------------

\* Hence it holds in every reachable state.
LEMMA IInvHolds == Spec => []IInv
  BY InitIInv, NextIInv, PTL DEF Spec

\* Every reachable state is well typed, however many requests share the breaker.
THEOREM TypeCorrect == Spec => []TypeOK
<1>1. IInv => TypeOK
  BY DEF IInv
<1> QED
  BY <1>1, IInvHolds, PTL

\* RecordFailure opens the breaker no later than at its threshold, in every
\* interleaving of reports.
THEOREM ClosedIsBelowThreshold == Spec => []ClosedBelowThreshold
<1>1. IInv => ClosedBelowThreshold
  BY DEF IInv
<1> QED
  BY <1>1, IInvHolds, PTL

\* No request is admitted between the moment the breaker opens and its test
\* request.
THEOREM OpenBreakerAdmitsNobody == Spec => []OpenAdmitsNobody
<1>1. IInv => OpenAdmitsNobody
  BY DEF IInv
<1> QED
  BY <1>1, IInvHolds, PTL

\* A half-open breaker has let through one test request at most.
THEOREM HalfOpenBreakerAdmitsOne == Spec => []HalfOpenAdmitsOne
<1>1. IInv => HalfOpenAdmitsOne
  BY DEF IInv
<1> QED
  BY <1>1, IInvHolds, PTL

----------------------------------------------------------------------------

\* In no step does anything but a test request admitted after the full timeout
\* end the open state.
THEOREM OpenStateLastsTimeout == Spec => OpenLastsTimeout
<1> DEFINE Lasts == brk.state = Open /\ brk'.state # Open =>
              brk.age >= Timeout /\ brk'.state = HalfOpen /\ test' # test
<1>1. IInv /\ [Next]_vars => [Lasts]_vars
  <2> SUFFICES ASSUME IInv, [Next]_vars, brk.state = Open, brk'.state # Open
               PROVE  brk.age >= Timeout /\ brk'.state = HalfOpen /\ test' # test
    BY DEF Lasts
  <2>b. brk \in BreakerState
    BY DEF IInv, TypeOK
  <2>s. Closed # Open /\ Closed # HalfOpen /\ Open # HalfOpen
    BY DEF Closed, Open, HalfOpen
  <2>1. PICK c \in Callers : Allow(c)
    <3>1. ASSUME NEW c \in Callers,
                 RecordSuccess(c) \/ RecordUpgrade(c) \/ RecordFailure(c)
          PROVE  FALSE
      BY <3>1, <2>b, <2>s, MethodsMove
         DEF RecordSuccess, RecordUpgrade, RecordFailure
    <3>2. ASSUME NEW c \in Callers, EndUnrecorded(c) \/ Reject(c) PROVE FALSE
      BY <3>2 DEF EndUnrecorded, Reject, vars
    <3>3. CASE Tick
      BY <3>3, <2>b, MethodsMove DEF Tick
    <3>4. ~UNCHANGED vars
      BY DEF vars
    <3> QED
      BY <3>1, <3>2, <3>3, <3>4 DEF Next
  <2>2. TimedOut(brk) /\ brk'.state = HalfOpen /\ test' = test \cup {c}
    BY <2>1, <2>b, <2>s, MethodsMove DEF Allow, Admits
  <2>3. c \notin test
    BY <2>1 DEF Allow, IInv, TypeOK, InFlight
  <2> QED
    BY <2>2, <2>3 DEF TimedOut
<1> QED
  BY <1>1, IInvHolds, PTL DEF Spec, OpenLastsTimeout, Lasts
=============================================================================
