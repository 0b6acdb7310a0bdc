---------------------------- MODULE ProxyProofs ----------------------------
(***************************************************************************)
(* The proxy uses each upstream's breaker as Breaker has it used, for any  *)
(* upstreams and requests, so that what BreakerProofs proves of a breaker  *)
(* by itself holds of every upstream's.                                    *)
(***************************************************************************)
EXTENDS Proxy, TLAPS

\* What lb.Next gives a request is an upstream or an error.
Picks ==
    /\ counter \in Nat
    /\ pick \in [Requests -> Urls \cup {NoHealthy}]

\* A request is marked only while it is at an upstream.
Marks ==
    /\ stage \in [Requests -> Stages]
    /\ target \in [Requests -> Urls \cup {NoHealthy}]
    /\ \A r \in Requests : stage[r] \in InProxy => target[r] \in Urls
    /\ \A r \in test \cup late : r \in Requests /\ stage[r] \in InProxy

PInv == Picks /\ Marks /\ DOMAIN brk = Urls

\* Nothing is in flight at first.
LEMMA InitPInv == Init => PInv
  BY DEF Init, RR!Init, RR!InitCalls, PInv, Picks, Marks, Stages, InProxy

\* A step of lb.Next picks an upstream of the list.
LEMMA BalancerPicks ==
    ASSUME Picks, NEW r \in Requests, RR!Ticket(r) \/ RR!Look(r)
    PROVE  Picks'
<1>1. CASE RR!Ticket(r)
  <2>1. (counter + 1) % CounterSize \in Nat /\ (counter % Len(urls)) + 1 \in DOMAIN urls
    BY ProxyAssumption DEF Picks
  <2>2. urls[(counter % Len(urls)) + 1] \in Urls
    BY <2>1 DEF Urls, Range
  <2> QED
    BY <1>1, <2>1, <2>2 DEF RR!Ticket, Picks
<1>2. CASE RR!Look(r)
  BY <1>2 DEF RR!Look, RR!Return, Picks
<1> QED
  BY <1>1, <1>2

\* Every step keeps the invariant.
LEMMA NextPInv == PInv /\ [Next]_vars => PInv'
<1> SUFFICES ASSUME PInv, [Next]_vars PROVE PInv'
  OBVIOUS
<1> USE DEF PInv, Picks, Marks, Stages, InProxy, Answered, balancerVars
<1>1. ASSUME NEW r \in Requests, Accept(r) PROVE PInv'
  BY <1>1 DEF Accept, RR!Begin
<1>2. ASSUME NEW r \in Requests, Balance(r) PROVE PInv'
  BY <1>2, BalancerPicks DEF Balance
<1>3. ASSUME NEW r \in Requests, NoUpstream(r) \/ Reject(r) PROVE PInv'
  BY <1>3 DEF NoUpstream, Reject, Reply, RR!Consume
<1>4. ASSUME NEW r \in Requests, Forward(r) PROVE PInv'
  BY <1>4 DEF Forward, RR!Consume
<1>5. ASSUME NEW r \in Requests, GoodResponse(r) \/ Upgrade(r) \/ BodyTooLarge(r) PROVE PInv'
  BY <1>5 DEF GoodResponse, Upgrade, BodyTooLarge, Succeed, Reply
<1>6. ASSUME NEW r \in Requests, BadResponse(r) \/ ProxyError(r) PROVE PInv'
  BY <1>6 DEF BadResponse, ProxyError, Fail, Reply, At
<1>7. ASSUME NEW r \in Requests, Done(r) PROVE PInv'
  BY <1>7 DEF Done
<1>8. ASSUME NEW u \in Urls, SetHealth(u) PROVE PInv'
  BY <1>8 DEF SetHealth, RR!SetHealth
<1>9. CASE Tick \/ UNCHANGED vars
  BY <1>9 DEF Tick, vars
<1> QED
  BY <1>1, <1>2, <1>3, <1>4, <1>5, <1>6, <1>7, <1>8, <1>9 DEF Next, Handle, Outcome

----------------------------------------------------------------------------

\* How Breaker sees the requests at u.
Call(u) ==
    [r \in Requests |-> IF r \notin At(u) THEN "idle"
                        ELSE IF stage[r] = "proxied" THEN "admitted"
                        ELSE "upgrading"]

\* Nothing changes for a breaker when its own state and the requests at its
\* upstream stay as they are.
LEMMA Quiet ==
    ASSUME NEW u \in Urls, brk'[u] = brk[u], At(u)' = At(u),
           \A r \in At(u) : stage'[r] = stage[r],
           test' \cap At(u) = test \cap At(u), late' \cap At(u) = late \cap At(u)
    PROVE  UNCHANGED B(u)!vars
<1>1. UNCHANGED Call(u)
  BY DEF Call
<1> QED
  BY <1>1 DEF B!vars, Call

\* A request that is at no upstream, before or after, changes nothing for any.
LEMMA Elsewhere ==
    ASSUME PInv, NEW r \in Requests, NEW u \in Urls, brk' = brk,
           stage' = [stage EXCEPT ![r] = stage'[r]],
           target' = [target EXCEPT ![r] = target'[r]],
           stage[r] \notin InProxy, stage'[r] \notin InProxy,
           test' \in {test, test \ {r}}, late' = late
    PROVE  UNCHANGED B(u)!vars
<1>1. At(u)' = At(u) /\ r \notin At(u) /\ \A q \in At(u) : stage'[q] = stage[q]
  BY DEF At, PInv, Marks
<1> QED
  BY <1>1, Quiet

\* breaker.Allow on the upstream that was picked is an Allow of that breaker, and
\* nothing to the others.
LEMMA ForwardSimulates ==
    ASSUME PInv, NEW r \in Requests, Forward(r), NEW u \in Urls
    PROVE  B(u)!Next \/ UNCHANGED B(u)!vars
<1>p. /\ pick[r] \in Urls /\ stage[r] = "balancing" /\ r \notin test /\ r \notin late
      /\ stage' = [stage EXCEPT ![r] = "proxied"] /\ target' = [target EXCEPT ![r] = pick[r]]
      /\ brk' = [brk EXCEPT ![pick[r]] = AfterAllow(@)] /\ Admits(brk[pick[r]])
      /\ test' = IF brk[pick[r]].state = Open THEN test \cup {r} ELSE test
      /\ late' = late
  BY DEF Forward, PInv, Picks, Marks, InProxy
<1>1. CASE u = pick[r]
  <2>1. At(u)' = At(u) \cup {r} /\ r \notin At(u)
    BY <1>p, <1>1 DEF At, PInv, Marks, InProxy
  <2>2. B(u)!Allow(r)
    <3>1. brk'[u] = AfterAllow(brk[u]) /\ Admits(brk[u])
      BY <1>p, <1>1 DEF PInv
    <3>2. Call(u)' = [Call(u) EXCEPT ![r] = "admitted"]
      BY <1>p, <2>1, Zenon DEF PInv, Marks, Call
    <3>3. /\ (test \cap At(u))' = IF brk[u].state = Open THEN (test \cap At(u)) \cup {r}
                                                         ELSE test \cap At(u)
          /\ (late \cap At(u))' = late \cap At(u)
      BY <1>p, <1>1, <2>1
    <3> QED
      BY <2>1, <3>1, <3>2, <3>3 DEF Call, B!Allow, B!Admits, B!AfterAllow, B!TimedOut, B!Closed, B!Open, B!HalfOpen,
             Admits, AfterAllow, TimedOut, Closed, Open, HalfOpen
  <2> QED
    BY <2>2 DEF B!Next
<1>2. CASE u # pick[r]
  <2>1. At(u)' = At(u) /\ r \notin At(u)
    BY <1>p, <1>2 DEF At, PInv, Marks, InProxy
  <2> QED
    BY <1>p, <1>2, <2>1, Quiet DEF PInv, Marks
<1> QED
  BY <1>1, <1>2

\* A request that is answered leaves its upstream, and is at no other.
LEMMA ReplyLeaves ==
    ASSUME PInv, NEW r \in Requests, stage[r] \in InProxy,
           NEW answer \in Answered, Reply(r, answer), NEW u \in Urls
    PROVE  /\ At(u)' = At(u) \ {r}
           /\ r \in At(u) <=> u = target[r]
           /\ \A q \in At(u)' : stage'[q] = stage[q]
           /\ Call(u)' = [Call(u) EXCEPT ![r] = "idle"]
           /\ test' = test \ {r}
<1>1. stage' = [stage EXCEPT ![r] = answer] /\ target' = [target EXCEPT ![r] = NoHealthy] /\ test' = test \ {r}
  BY DEF Reply
<1>2. answer \notin InProxy
  BY DEF Answered, InProxy
<1>3. At(u)' = At(u) \ {r} /\ (r \in At(u) <=> u = target[r]) /\ \A q \in At(u)' : stage'[q] = stage[q]
  BY <1>1, <1>2 DEF At, PInv, Marks
<1> QED
  BY <1>1, <1>3, Zenon DEF Call

\* A report of success reaches the breaker that let the request pass.
LEMMA GoodResponseSimulates ==
    ASSUME PInv, NEW r \in Requests, GoodResponse(r), NEW u \in Urls
    PROVE  B(u)!Next \/ UNCHANGED B(u)!vars
<1>p. stage[r] = "proxied" /\ Succeed(r) /\ Reply(r, "upstream") /\ late' = late \ {r}
  BY DEF GoodResponse
<1>r. /\ At(u)' = At(u) \ {r} /\ (r \in At(u) <=> u = target[r])
      /\ \A q \in At(u)' : stage'[q] = stage[q]
      /\ Call(u)' = [Call(u) EXCEPT ![r] = "idle"] /\ test' = test \ {r}
  BY <1>p, ReplyLeaves DEF Answered, InProxy
<1>1. CASE u = target[r]
  <2>1. Call(u)[r] = "admitted"
    BY <1>p, <1>r, <1>1 DEF Call
  <2>2. brk'[u] = AfterSuccess(brk[u])
    BY <1>p, <1>1 DEF Succeed, PInv
  <2>3. (test \cap At(u))' = (test \cap At(u)) \ {r} /\ (late \cap At(u))' = (late \cap At(u)) \ {r}
    BY <1>p, <1>r
  <2>4. B(u)!RecordSuccess(r)
    BY <1>r, <2>1, <2>2, <2>3 DEF Call, B!RecordSuccess, B!Finish, B!AfterSuccess, B!Closed, B!HalfOpen,
           AfterSuccess, Closed, HalfOpen
  <2> QED
    BY <2>4 DEF B!Next
<1>2. CASE u # target[r]
  BY <1>p, <1>r, <1>2, Quiet, Zenon DEF Succeed, PInv
<1> QED
  BY <1>1, <1>2

\* A report of failure reaches the breaker that let the request pass, and makes
\* latecomers of the others at that upstream if it trips the breaker.
LEMMA FailureSimulates ==
    ASSUME PInv, NEW r \in Requests, stage[r] \in InProxy, Fail(r),
           NEW answer \in Answered, Reply(r, answer), NEW u \in Urls
    PROVE  B(u)!Next \/ UNCHANGED B(u)!vars
<1>r. /\ At(u)' = At(u) \ {r} /\ (r \in At(u) <=> u = target[r])
      /\ \A q \in At(u)' : stage'[q] = stage[q]
      /\ Call(u)' = [Call(u) EXCEPT ![r] = "idle"] /\ test' = test \ {r}
  BY ReplyLeaves
<1>1. CASE u = target[r]
  <2>1. Call(u)[r] \in {"admitted", "upgrading"}
    BY <1>r, <1>1 DEF Call
  <2>2. brk'[u] = AfterFailure(brk[u])
    BY <1>1 DEF Fail, PInv
  <2>3. (test \cap At(u))' = (test \cap At(u)) \ {r}
    BY <1>r
  <2>4. (late \cap At(u))' = (IF Trips(brk[u]) THEN At(u) ELSE late \cap At(u)) \ {r}
    BY <1>r, <1>1 DEF Fail
  <2>5. At(u) = {c \in Requests : Call(u)[c] # "idle"}
    BY DEF At, Call
  <2>6. B(u)!RecordFailure(r)
    BY <1>r, <2>1, <2>2, <2>3, <2>4, <2>5 DEF Call, B!RecordFailure, B!Finish, B!InFlight, B!AfterFailure, B!Trips,
           B!CapAt, B!Open, B!HalfOpen, AfterFailure, Trips, CapAt, Open, HalfOpen
  <2> QED
    BY <2>6 DEF B!Next
<1>2. CASE u # target[r]
  <2>1. At(u) \cap At(target[r]) = {}
    BY <1>2 DEF At
  <2> QED
    BY <1>r, <1>2, <2>1, Quiet DEF Fail, PInv
<1> QED
  BY <1>1, <1>2

\* A 101 response is a success of a request that goes on.
LEMMA UpgradeSimulates ==
    ASSUME PInv, NEW r \in Requests, Upgrade(r), NEW u \in Urls
    PROVE  B(u)!Next \/ UNCHANGED B(u)!vars
<1>p. /\ stage[r] = "proxied" /\ Succeed(r) /\ stage' = [stage EXCEPT ![r] = "upgrading"]
      /\ UNCHANGED <<target, test, late>>
  BY DEF Upgrade
<1>1. At(u)' = At(u) /\ (r \in At(u) <=> u = target[r])
  BY <1>p DEF At, PInv, Marks, InProxy
<1>2. CASE u = target[r]
  <2>1. Call(u)[r] = "admitted" /\ Call(u)' = [Call(u) EXCEPT ![r] = "upgrading"]
    BY <1>p, <1>1, <1>2, Zenon DEF Call, PInv, Marks
  <2>2. brk'[u] = AfterSuccess(brk[u])
    BY <1>p, <1>2 DEF Succeed, PInv
  <2>3. B(u)!RecordUpgrade(r)
    BY <1>p, <1>1, <2>1, <2>2 DEF Call, B!RecordUpgrade, B!AfterSuccess, B!Closed, B!HalfOpen,
           AfterSuccess, Closed, HalfOpen
  <2> QED
    BY <2>3 DEF B!Next
<1>3. CASE u # target[r]
  BY <1>p, <1>1, <1>3, Quiet DEF Succeed, PInv, Marks
<1> QED
  BY <1>2, <1>3

\* A body over the limit ends a request that no report follows.
LEMMA TooLargeSimulates ==
    ASSUME PInv, NEW r \in Requests, BodyTooLarge(r), NEW u \in Urls
    PROVE  B(u)!Next \/ UNCHANGED B(u)!vars
<1>p. r \in Oversize /\ stage[r] = "proxied" /\ Reply(r, "tooLarge") /\ late' = late \ {r} /\ brk' = brk
  BY DEF BodyTooLarge
<1>r. /\ At(u)' = At(u) \ {r} /\ (r \in At(u) <=> u = target[r])
      /\ \A q \in At(u)' : stage'[q] = stage[q]
      /\ Call(u)' = [Call(u) EXCEPT ![r] = "idle"] /\ test' = test \ {r}
  BY <1>p, ReplyLeaves DEF Answered, InProxy
<1>1. CASE u = target[r]
  <2>1. Call(u)[r] = "admitted"
    BY <1>p, <1>r, <1>1 DEF Call
  <2>2. (test \cap At(u))' = (test \cap At(u)) \ {r} /\ (late \cap At(u))' = (late \cap At(u)) \ {r}
    BY <1>p, <1>r
  <2>3. B(u)!EndUnrecorded(r)
    BY <1>p, <1>r, <2>1, <2>2 DEF Call, B!EndUnrecorded, B!Finish
  <2> QED
    BY <2>3 DEF B!Next
<1>2. CASE u # target[r]
  BY <1>p, <1>r, <1>2, Quiet
<1> QED
  BY <1>1, <1>2

\* Every step of the proxy is a step of each breaker as Breaker has it, or nothing
\* to it.
LEMMA StepSimulates ==
    ASSUME PInv, [Next]_vars, NEW u \in Urls
    PROVE  B(u)!Next \/ UNCHANGED B(u)!vars
<1>1. ASSUME NEW r \in Requests, Accept(r) \/ NoUpstream(r) \/ Reject(r) \/ Done(r)
      PROVE  UNCHANGED B(u)!vars
  BY <1>1, Elsewhere DEF Accept, NoUpstream, Reject, Done, Reply, PInv, Marks, InProxy, Answered
<1>2. ASSUME NEW r \in Requests, Balance(r) PROVE UNCHANGED B(u)!vars
  BY <1>2, Quiet DEF Balance, At
<1>3. ASSUME NEW r \in Requests, Forward(r) \/ Outcome(r)
      PROVE  B(u)!Next \/ UNCHANGED B(u)!vars
  <2>1. CASE BadResponse(r)
    BY <2>1, FailureSimulates DEF BadResponse, Answered, InProxy
  <2>2. CASE ProxyError(r)
    BY <2>2, FailureSimulates DEF ProxyError, Answered
  <2> QED
    BY <1>3, <2>1, <2>2, ForwardSimulates, GoodResponseSimulates, UpgradeSimulates,
       TooLargeSimulates DEF Outcome
<1>4. CASE Tick
  <2>1. brk'[u] = AfterTick(brk[u]) /\ UNCHANGED <<stage, target, test, late>>
    BY <1>4 DEF Tick
  <2>2. B(u)!Tick
    BY <2>1 DEF At, B!Tick, B!AfterTick, B!CapAt, AfterTick, CapAt
  <2> QED
    BY <2>2 DEF B!Next
<1>5. ASSUME NEW v \in Urls, SetHealth(v) PROVE UNCHANGED B(u)!vars
  BY <1>5, Quiet DEF SetHealth, At
<1>6. CASE UNCHANGED vars
  BY <1>6, Quiet DEF vars, At
<1> QED
  BY <1>1, <1>2, <1>3, <1>4, <1>5, <1>6 DEF Next, Handle

\* Breakers are new at first.
LEMMA InitSimulates ==
    ASSUME Init, NEW u \in Urls
    PROVE  B(u)!Init
<1>1. At(u) = {}
  BY DEF Init, At, InProxy
<1> QED
  BY <1>1 DEF Init, NewBreaker, Closed, B!Init, B!NewBreaker, B!Closed

\* Whatever the requests do and in whatever order, each upstream's breaker is used
\* as Breaker says: a report at most per admitted request, to the breaker that
\* admitted it.
THEOREM ProxyImplementsBreakers == Spec => BreakersImplemented
<1>1. Init => \A u \in Urls : B(u)!Init
  BY InitSimulates
<1>2. PInv /\ [Next]_vars => [\A u \in Urls : [B(u)!Next]_(B(u)!vars)]_vars
  BY StepSimulates
<1> QED
  BY <1>1, <1>2, InitPInv, NextPInv, PTL DEF Spec, BreakersImplemented

----------------------------------------------------------------------------
\* What BreakerProofs proves, of each upstream's breaker

CONSTANT upstream   \* any one of Urls

One == INSTANCE BreakerProofs WITH
    Callers <- Requests,
    Unrecorded <- Oversize,
    brk <- brk[upstream],
    call <- Call(upstream),
    test <- test \cap At(upstream),
    late <- late \cap At(upstream)

\* Breaker and its proofs speak of the same initial states and the same steps.
LEMMA SameBreaker ==
    ASSUME upstream \in Urls
    PROVE  /\ B(upstream)!Init => One!Init
           /\ B(upstream)!Next \/ UNCHANGED B(upstream)!vars => One!Next \/ UNCHANGED One!vars
<1>1. B(upstream)!Init => One!Init
  BY SMTT(15) DEF Call, B!Init, B!NewBreaker, B!Closed, One!Init, One!NewBreaker, One!Closed
<1>2. B(upstream)!Next \/ UNCHANGED B(upstream)!vars => One!Next \/ UNCHANGED One!vars
  BY Zenon DEF Call, B!Next, B!vars, B!Tick, B!Allow, B!Reject, B!RecordSuccess, B!RecordUpgrade, B!RecordFailure,
         B!EndUnrecorded, B!Finish, B!InFlight, B!Admits, B!TimedOut, B!AfterAllow, B!AfterSuccess,
         B!AfterFailure, B!AfterTick, B!Trips, B!CapAt, B!Closed, B!Open, B!HalfOpen,
         One!Next, One!vars, One!Tick, One!Allow, One!Reject, One!RecordSuccess, One!RecordUpgrade,
         One!RecordFailure, One!EndUnrecorded, One!Finish, One!InFlight, One!Admits, One!TimedOut,
         One!AfterAllow, One!AfterSuccess, One!AfterFailure, One!AfterTick, One!Trips, One!CapAt,
         One!Closed, One!Open, One!HalfOpen
<1> QED
  BY <1>1, <1>2

\* The proxy's behaviours are behaviours of each breaker.
LEMMA ProxyImplementsOne ==
    ASSUME upstream \in Urls
    PROVE  Spec => One!Spec
<1>1. Init => One!Init
  BY InitSimulates, SameBreaker
<1>2. PInv /\ [Next]_vars => [One!Next]_(One!vars)
  BY StepSimulates, SameBreaker
<1> QED
  BY <1>1, <1>2, InitPInv, NextPInv, PTL DEF Spec, One!Spec

\* u's breaker trips at its threshold, lets nobody pass while it is open, and one
\* test request when it is half-open; requests from before it opened are aside.
Guarded(u) ==
    /\ brk[u].state = Closed => brk[u].failures < MaxFailures
    /\ brk[u].state = Open => At(u) \subseteq late
    /\ brk[u].state = HalfOpen => \A q, r \in At(u) \ late : q = r

\* Every upstream is guarded by its breaker, whatever requests the balancer sends
\* it and however they end.
THEOREM UpstreamGuarded ==
    ASSUME upstream \in Urls
    PROVE  Spec => []Guarded(upstream)
<1>1. One!ClosedBelowThreshold /\ One!OpenAdmitsNobody /\ One!HalfOpenAdmitsOne => Guarded(upstream)
  <2>1. At(upstream) = One!InFlight
    BY DEF One!InFlight, Call, At
  <2> QED
    BY <2>1 DEF Guarded, One!ClosedBelowThreshold, One!OpenAdmitsNobody, One!HalfOpenAdmitsOne,
           One!Closed, One!Open, One!HalfOpen, Closed, Open, HalfOpen
<1>2. One!Spec => []One!ClosedBelowThreshold
  BY One!ClosedIsBelowThreshold, BreakerAssumption, ProxyAssumption
<1>3. One!Spec => []One!OpenAdmitsNobody
  BY One!OpenBreakerAdmitsNobody, BreakerAssumption, ProxyAssumption
<1>4. One!Spec => []One!HalfOpenAdmitsOne
  BY One!HalfOpenBreakerAdmitsOne, BreakerAssumption, ProxyAssumption
<1> QED
  BY <1>1, <1>2, <1>3, <1>4, ProxyImplementsOne, PTL

\* Only a test request admitted after the full timeout ends the open state of a
\* breaker, whichever other upstreams' requests end meanwhile.
ShutForTimeout(u) ==
    [][brk[u].state = Open /\ brk'[u].state # Open =>
          brk[u].age >= Timeout /\ brk'[u].state = HalfOpen]_vars

\* No upstream is let go before its timeout is over.
THEOREM UpstreamShutForTimeout ==
    ASSUME upstream \in Urls
    PROVE  Spec => ShutForTimeout(upstream)
<1> DEFINE Lasts == brk[upstream].state = One!Open /\ (brk[upstream])'.state # One!Open =>
                        /\ brk[upstream].age >= Timeout
                        /\ (brk[upstream])'.state = One!HalfOpen
                        /\ (test \cap At(upstream))' # test \cap At(upstream)
           Shut == brk[upstream].state = Open /\ brk'[upstream].state # Open =>
                        brk[upstream].age >= Timeout /\ brk'[upstream].state = HalfOpen
<1>1. [Lasts]_(One!vars) => [Shut]_vars
  BY DEF One!vars, One!Open, One!HalfOpen, Open, HalfOpen
<1>2. One!Spec => One!OpenLastsTimeout
  BY One!OpenStateLastsTimeout, BreakerAssumption, ProxyAssumption
<1>3. One!OpenLastsTimeout => [][Lasts]_(One!vars)
  BY PTL DEF One!OpenLastsTimeout, Lasts
<1> HIDE DEF Lasts
<1>4. Spec => [][Shut]_vars
  BY <1>1, <1>2, <1>3, ProxyImplementsOne, PTL
<1> QED
  BY <1>4 DEF ShutForTimeout
=============================================================================
