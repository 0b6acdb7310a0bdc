-------------------------- MODULE RateLimitProofs --------------------------
(***************************************************************************)
(* A service's limiter, for any number of requests and any configurations: *)
(* what the one in memory and the one in Redis keep to, and that a setup's *)
(* limiter keeps to it.                                                    *)
(***************************************************************************)
EXTENDS RateLimit, TLAPS

----------------------------------------------------------------------------
\* In memory

\* A caller past Load holds a limiter, unless it has found none.
Holding ==
    \A c \in Requests :
        /\ pc[c] \in {"refresh", "take"} => held[c] # None
        /\ pc[c] \in {"idle", "insert"} => held[c] = None

\* An entry is young as long as a caller is past its look at the map: time stands
\* still meanwhile.  It has gained tokens since it was last seen.
Ages(s) ==
    entry # None =>
        /\ \A c \in Requests : pc[c] \in {"insert", "take"} => entry.idle = 0
        /\ tokens[entry.limiter] >= ML(s)!AtMost(entry.idle * s.rate, s.burst)

\* Until a deletion hits a limiter in use everyone uses the one in the map ...
OneLimiter ==
    ~raced => \A c \in Requests : held[c] # None => entry # None /\ held[c] = entry.limiter

\* ... which holds what the ideal bucket does until one forgives.
SameBucket(s) ==
    ~raced /\ ~forgave => credit = IF entry # None THEN tokens[entry.limiter] ELSE s.burst

MemoryInv(s) ==
    /\ ML(s)!TypeOK /\ Holding /\ Ages(s) /\ OneLimiter /\ SameBucket(s)
    /\ (s.maxIdle + 1) * s.rate >= s.burst => (forgave => raced)

\* Nothing is in the map at first, and nobody in Allow.
LEMMA InitMemoryInv == ASSUME NEW s, ML(s)!MemoryAssumption PROVE ML(s)!Init => MemoryInv(s)
<1> SUFFICES ASSUME ML(s)!Init PROVE MemoryInv(s)
  OBVIOUS
<1>1. sweep \in BOOLEAN /\ raced \in BOOLEAN /\ forgave \in BOOLEAN /\ ~forgave
  BY Zenon DEF ML!Init
<1>2. ML(s)!TypeOK
  BY <1>1 DEF ML!Init, ML!TypeOK, ML!MemoryAssumption
<1> QED
  BY <1>1, <1>2 DEF ML!Init, MemoryInv, Holding, Ages, OneLimiter, SameBucket, ML!Present

\* None is not the entry of a key.
LEMMA EntriesPresent ==
    ASSUME NEW s, ML(s)!MemoryAssumption, NEW e \in ML(s)!Entries
    PROVE  e # None
  BY DEF ML!MemoryAssumption

\* What a bucket gains in a tick it has gained since it was last seen.
LEMMA OneTickMore ==
    ASSUME NEW s, ML(s)!MemoryAssumption, NEW t \in 0..s.burst,
           NEW idle \in 0..(s.maxIdle + 1),
           t >= ML(s)!AtMost(idle * s.rate, s.burst)
    PROVE  ML(s)!AtMost(t + s.rate, s.burst)
           >= ML(s)!AtMost(ML(s)!AtMost(idle + 1, s.maxIdle + 1) * s.rate, s.burst)
<1>1. idle \in Nat /\ s.rate \in Nat /\ s.burst \in Nat /\ s.maxIdle \in Nat
  BY DEF ML!MemoryAssumption
<1>2. (idle + 1) * s.rate = idle * s.rate + s.rate /\ idle * s.rate \in Nat
  BY <1>1
<1>3. CASE idle + 1 <= s.maxIdle + 1
  <2>1. ML(s)!AtMost(idle + 1, s.maxIdle + 1) = idle + 1
    BY <1>1, <1>3 DEF ML!AtMost
  <2> DEFINE gain == idle * s.rate
  <2>2. gain \in Nat /\ t >= ML(s)!AtMost(gain, s.burst)
    BY <1>2
  <2> HIDE DEF gain
  <2>3. ML(s)!AtMost(t + s.rate, s.burst) >= ML(s)!AtMost(gain + s.rate, s.burst)
    BY <1>1, <2>2 DEF ML!AtMost
  <2> QED
    BY <1>2, <2>1, <2>3 DEF gain
<1>4. CASE idle = s.maxIdle + 1
  <2>1. ML(s)!AtMost(idle + 1, s.maxIdle + 1) = idle
    BY <1>1, <1>4 DEF ML!AtMost
  <2> DEFINE gain == idle * s.rate
  <2>2. gain \in Nat /\ t >= ML(s)!AtMost(gain, s.burst)
    BY <1>2
  <2> HIDE DEF gain
  <2>3. ML(s)!AtMost(t + s.rate, s.burst) >= ML(s)!AtMost(gain, s.burst)
    BY <1>1, <2>2 DEF ML!AtMost
  <2> QED
    BY <2>1, <2>3 DEF gain
<1> QED
  BY <1>1, <1>3, <1>4

\* Every step keeps the invariant.
LEMMA NextMemoryInv ==
    ASSUME NEW s, ML(s)!MemoryAssumption
    PROVE  MemoryInv(s) /\ [ML(s)!Next]_(ML(s)!vars) => MemoryInv(s)'
<1> SUFFICES ASSUME MemoryInv(s), [ML(s)!Next]_(ML(s)!vars) PROVE MemoryInv(s)'
  OBVIOUS
<1> USE DEF ML!Present
<1>0. /\ ML(s)!TypeOK /\ Holding /\ Ages(s) /\ OneLimiter /\ SameBucket(s)
      /\ s.rate \in Nat /\ s.burst \in Nat /\ s.maxIdle \in Nat /\ None \notin Limiters
      /\ entry # None => entry.limiter \in Limiters /\ entry.idle \in 0..(s.maxIdle + 1)
  BY DEF MemoryInv, ML!TypeOK, ML!MemoryAssumption, ML!Entries
<1>1. CASE UNCHANGED ML(s)!vars
  BY <1>1 DEF MemoryInv, ML!TypeOK, Holding, Ages, OneLimiter, SameBucket, ML!vars
<1>2. ASSUME NEW c \in Requests, ML(s)!Load(c) PROVE MemoryInv(s)'
  <2>1. ML(s)!TypeOK'
    BY <1>0, <1>2 DEF ML!Load, ML!Goto, ML!TypeOK
  <2>2. Holding'
    BY <1>0, <1>2 DEF ML!Load, ML!Goto, ML!TypeOK, Holding
  <2>3. Ages(s)'
    BY <1>0, <1>2 DEF ML!Load, ML!Goto, ML!TypeOK, Ages
  <2>4. OneLimiter' /\ SameBucket(s)'
    BY <1>0, <1>2 DEF ML!Load, ML!Goto, ML!TypeOK, OneLimiter, SameBucket
  <2> QED
    BY <1>2, <2>1, <2>2, <2>3, <2>4 DEF MemoryInv, ML!Load
<1>3. ASSUME NEW c \in Requests, ML(s)!Refresh(c) PROVE MemoryInv(s)'
  <2>0. held[c] \in Limiters
    BY <1>0, <1>3 DEF ML!Refresh, ML!TypeOK, Holding
  <2>1. entry' \in ML(s)!Entries /\ entry'.limiter = held[c] /\ entry'.idle = 0
        /\ entry' # None
    <3>1. entry' = [limiter |-> held[c], idle |-> 0]
      BY <1>3 DEF ML!Refresh
    <3>2. 0 \in 0..(s.maxIdle + 1)
      BY <1>0
    <3> QED
      BY <2>0, <3>1, <3>2, EntriesPresent DEF ML!Entries
  <2>2. ML(s)!TypeOK' /\ Holding'
    BY <1>0, <1>3, <2>0, <2>1 DEF ML!Refresh, ML!Goto, ML!TypeOK, Holding
  <2>3. Ages(s)'
    <3>1. tokens[held[c]] >= ML(s)!AtMost(0 * s.rate, s.burst)
      BY <1>0, <2>0 DEF ML!TypeOK, ML!AtMost
    <3> QED
      BY <1>3, <2>1, <3>1 DEF Ages, ML!Refresh
  <2>4. OneLimiter' /\ SameBucket(s)'
    BY <1>0, <1>3, <2>0, <2>1 DEF ML!Refresh, ML!Goto, ML!TypeOK, OneLimiter, SameBucket
  <2> QED
    BY <1>3, <2>2, <2>3, <2>4 DEF MemoryInv, ML!Refresh
<1>4. ASSUME NEW c \in Requests, ML(s)!LoadOrStore(c), entry # None PROVE MemoryInv(s)'
  <2>1. ML(s)!TypeOK' /\ Holding'
    BY <1>0, <1>4 DEF ML!LoadOrStore, ML!Goto, ML!TypeOK, Holding
  <2>2. Ages(s)'
    BY <1>0, <1>4 DEF ML!LoadOrStore, ML!Goto, ML!TypeOK, Ages
  <2>3. OneLimiter' /\ SameBucket(s)'
    BY <1>0, <1>4 DEF ML!LoadOrStore, ML!Goto, ML!TypeOK, OneLimiter, SameBucket
  <2> QED
    BY <1>4, <2>1, <2>2, <2>3 DEF MemoryInv, ML!LoadOrStore
<1>5. ASSUME NEW c \in Requests, ML(s)!LoadOrStore(c), entry = None PROVE MemoryInv(s)'
  <2>0. PICK l \in ML(s)!Fresh : ML(s)!Insert(c, l)
    BY <1>5 DEF ML!LoadOrStore
  <2>1. /\ l \in Limiters
        /\ entry' \in ML(s)!Entries /\ entry'.limiter = l /\ entry'.idle = 0
        /\ entry' # None
    <3>1. entry' = [limiter |-> l, idle |-> 0] /\ l \in Limiters
      BY <2>0 DEF ML!Insert, ML!Fresh
    <3>2. 0 \in 0..(s.maxIdle + 1)
      BY <1>0
    <3> QED
      BY <3>1, <3>2, EntriesPresent DEF ML!Entries
  <2>2. tokens' = [tokens EXCEPT ![l] = s.burst] /\ tokens'[l] = s.burst
    BY <1>0, <2>0, <2>1 DEF ML!Insert, ML!TypeOK
  <2>3. ML(s)!TypeOK' /\ Holding'
    BY <1>0, <1>5, <2>0, <2>1, <2>2 DEF ML!LoadOrStore, ML!Insert, ML!Goto, ML!TypeOK,
    Holding
  <2>4. Ages(s)'
    <3>1. s.burst >= ML(s)!AtMost(0 * s.rate, s.burst)
      BY <1>0 DEF ML!AtMost
    <3> QED
      BY <2>1, <2>2, <3>1 DEF Ages
  <2>5. OneLimiter' /\ SameBucket(s)'
    BY <1>0, <1>5, <2>0, <2>1, <2>2
       DEF ML!LoadOrStore, ML!Insert, ML!Goto, ML!TypeOK, OneLimiter, SameBucket
  <2> QED
    BY <1>5, <2>3, <2>4, <2>5 DEF MemoryInv, ML!LoadOrStore
<1>6. ASSUME NEW c \in Requests, ML(s)!Take(c) PROVE MemoryInv(s)'
  <2>0. held[c] \in Limiters /\ pc[c] = "take"
    BY <1>0, <1>6 DEF ML!Take, ML!TypeOK, Holding
  <2>1. ML(s)!TypeOK'
    BY <1>0, <1>6, <2>0 DEF ML!Take, ML!Goto, ML!TypeOK
  <2>2. Holding'
    BY <1>0, <1>6 DEF ML!Take, ML!Goto, ML!TypeOK, Holding
  <2>3. Ages(s)'
    <3> SUFFICES ASSUME entry # None
                 PROVE  /\ \A q \in Requests : pc'[q] \in {"insert", "take"} => entry.idle = 0
                        /\ tokens'[entry.limiter] >= ML(s)!AtMost(entry.idle * s.rate, s.burst)
      BY <1>6 DEF ML!Take, Ages
    <3>1. entry.idle = 0 /\ entry.limiter \in Limiters
      BY <1>0, <2>0 DEF Ages
    <3>2. tokens'[entry.limiter] \in Nat
      BY <2>1, <3>1, <1>0 DEF ML!TypeOK
    <3> QED
      BY <1>0, <3>1, <3>2 DEF ML!AtMost
  <2>4. OneLimiter'
    BY <1>0, <1>6 DEF ML!Take, ML!Goto, ML!TypeOK, OneLimiter
  <2>5. SameBucket(s)'
    BY <1>0, <1>6, <2>0 DEF ML!Take, ML!TypeOK, OneLimiter, SameBucket
  <2> QED
    BY <1>6, <2>1, <2>2, <2>3, <2>4, <2>5 DEF MemoryInv, ML!Take
<1>7. CASE ML(s)!Inspect
  BY <1>0, <1>7 DEF ML!Inspect, MemoryInv, ML!TypeOK, Holding, Ages, OneLimiter, SameBucket
<1>8. CASE ML(s)!Delete
  <2>0. /\ entry' = None /\ sweep' = FALSE
        /\ UNCHANGED <<tokens, pc, held, credit>>
        /\ raced' = (raced \/ ML(s)!InUse \/ (entry # None /\ entry.idle <= s.maxIdle))
        /\ forgave' = (forgave \/ (entry # None /\ tokens[entry.limiter] < s.burst))
    BY <1>8 DEF ML!Delete
  <2>1. ML(s)!TypeOK' /\ Holding' /\ Ages(s)'
    <3>1. raced' \in BOOLEAN /\ forgave' \in BOOLEAN /\ sweep' \in BOOLEAN
      BY <2>0, Zenon
    <3> QED
      BY <1>0, <2>0, <3>1 DEF ML!TypeOK, Holding, Ages
  <2>2. OneLimiter'
    BY <2>0, Zenon DEF OneLimiter, ML!InUse
  <2>3. SameBucket(s)'
    <3> SUFFICES ASSUME ~raced', ~forgave' PROVE credit = s.burst
      BY <2>0 DEF SameBucket
    <3>1. ~raced /\ ~forgave /\ ~(entry # None /\ tokens[entry.limiter] < s.burst)
      BY <2>0, Zenon
    <3> QED
      BY <1>0, <3>1 DEF SameBucket, ML!TypeOK
  <2>4. (s.maxIdle + 1) * s.rate >= s.burst => (forgave' => raced')
    <3> SUFFICES ASSUME (s.maxIdle + 1) * s.rate >= s.burst, ~raced' PROVE ~forgave'
      OBVIOUS
    <3>0. ~raced /\ ~forgave /\ ~(entry # None /\ entry.idle <= s.maxIdle)
      BY <2>0, Zenon DEF MemoryInv
    <3>1. entry # None => entry.idle = s.maxIdle + 1
      BY <1>0, <3>0
    <3>2. entry # None => tokens[entry.limiter] >= s.burst
      <4>1. entry # None =>
              tokens[entry.limiter] >= ML(s)!AtMost((s.maxIdle + 1) * s.rate, s.burst)
        BY <1>0, <3>1 DEF Ages
      <4>2. ML(s)!AtMost((s.maxIdle + 1) * s.rate, s.burst) = s.burst
        BY <1>0 DEF ML!AtMost
      <4> QED
        BY <4>1, <4>2
    <3>3. ~(entry # None /\ tokens[entry.limiter] < s.burst)
      BY <1>0, <3>2 DEF ML!TypeOK
    <3> QED
      BY <2>0, <3>0, <3>3, Zenon
  <2> QED
    BY <2>1, <2>2, <2>3, <2>4, SMTT(15) DEF MemoryInv
<1>9. CASE ML(s)!Tick
  <2>0. /\ \A q \in Requests : pc[q] = "idle"
        /\ tokens' = [l \in Limiters |-> ML(s)!AtMost(tokens[l] + s.rate, s.burst)]
        /\ credit' = IF credit < 0 THEN credit ELSE ML(s)!AtMost(credit + s.rate, s.burst)
        /\ UNCHANGED <<pc, held, sweep, raced, forgave>>
    BY <1>9 DEF ML!Tick
  <2>1. /\ entry' # None <=> entry # None
        /\ entry' \in ML(s)!Entries \cup {None}
        /\ entry # None => /\ entry'.limiter = entry.limiter
                           /\ entry'.idle = ML(s)!AtMost(entry.idle + 1, s.maxIdle + 1)
    <3>1. CASE entry = None
      BY <1>9, <3>1 DEF ML!Tick
    <3>2. CASE entry # None
      <4>1. entry' = [entry EXCEPT !.idle = ML(s)!AtMost(@ + 1, s.maxIdle + 1)]
        BY <1>9, <3>2 DEF ML!Tick
      <4>2. ML(s)!AtMost(entry.idle + 1, s.maxIdle + 1) \in 0..(s.maxIdle + 1)
        BY <1>0, <3>2 DEF ML!AtMost
      <4>3. entry \in ML(s)!Entries
        BY <1>0, <3>2 DEF ML!TypeOK
      <4>4. entry' \in ML(s)!Entries /\ entry'.limiter = entry.limiter
            /\ entry'.idle = ML(s)!AtMost(entry.idle + 1, s.maxIdle + 1)
        BY <4>1, <4>2, <4>3 DEF ML!Entries
      <4> QED
        BY <3>2, <4>4, EntriesPresent
    <3> QED
      BY <3>1, <3>2
  <2>2. ML(s)!TypeOK'
    <3>1. tokens' \in [Limiters -> 0..s.burst]
      BY <1>0, <2>0 DEF ML!TypeOK, ML!AtMost
    <3>2. credit' \in -1..s.burst
      BY <1>0, <2>0 DEF ML!TypeOK, ML!AtMost
    <3> QED
      BY <1>0, <2>0, <2>1, <3>1, <3>2 DEF ML!TypeOK
  <2>3. Holding'
    BY <1>0, <2>0 DEF Holding
  <2>4. Ages(s)'
    <3> SUFFICES ASSUME entry # None
                 PROVE  tokens'[entry'.limiter] >= ML(s)!AtMost(entry'.idle * s.rate, s.burst)
      BY <2>0, <2>1 DEF Ages
    <3>1. /\ tokens[entry.limiter] \in 0..s.burst
          /\ tokens'[entry.limiter] = ML(s)!AtMost(tokens[entry.limiter] + s.rate, s.burst)
      BY <1>0, <2>0 DEF ML!TypeOK
    <3>2. tokens[entry.limiter] >= ML(s)!AtMost(entry.idle * s.rate, s.burst)
      BY <1>0 DEF Ages
    <3> QED
      BY <1>0, <2>1, <3>1, <3>2, OneTickMore
  <2>5. OneLimiter'
    BY <1>0, <2>0, <2>1 DEF OneLimiter
  <2>6. SameBucket(s)'
    BY <1>0, <2>0, <2>1 DEF SameBucket, ML!TypeOK, ML!AtMost
  <2> QED
    BY <2>0, <2>2, <2>3, <2>4, <2>5, <2>6 DEF MemoryInv
<1> QED
  BY <1>1, <1>2, <1>3, <1>4, <1>5, <1>6, <1>7, <1>8, <1>9 DEF ML!Next, ML!InAllow

\* Short of a deletion in use and of one that forgives, the ideal bucket is the one in
\* the map, and that is never overdrawn.
LEMMA MemoryInvAdmits ==
    ASSUME NEW s, ML(s)!MemoryAssumption, MemoryInv(s)
    PROVE  ML(s)!OnlyDeletionOverAdmits
<1> SUFFICES ASSUME ~raced, ~forgave PROVE ~(credit < 0)
  BY Zenon DEF MemoryInv, ML!OnlyDeletionOverAdmits
<1>1. entry # None => entry.limiter \in Limiters
  BY DEF MemoryInv, ML!TypeOK, ML!Entries
<1> QED
  BY <1>1 DEF MemoryInv, ML!TypeOK, SameBucket, ML!MemoryAssumption

----------------------------------------------------------------------------
\* In Redis

\* The script keeps a key a tick, one second, longer than a full refill takes.
\* Stamps are not off by more than that.
StampsNearlyRight(s) == s.maxDelay + RL(s)!MaxSkew <= 1

\* A larger factor makes a larger product.
LEMMA Monotone ==
    ASSUME NEW m \in Int, NEW n \in Int, NEW r \in Nat, m <= n
    PROVE  m * r <= n * r
  OBVIOUS

\* A product of a sum.
LEMMA Distributes ==
    ASSUME NEW m \in Int, NEW n \in Int, NEW r \in Int
    PROVE  (m + n) * r = m * r + n * r /\ (m - n) * r = m * r - n * r
  OBVIOUS

\* Rounding up does not fall short.
LEMMA Ceiling ==
    ASSUME NEW n \in Nat, NEW r \in Nat \ {0}
    PROVE  ((n + r - 1) \div r) \in Nat /\ ((n + r - 1) \div r) * r >= n
  OBVIOUS

\* The constants.
LEMMA Constants ==
    ASSUME NEW s, RL(s)!RedisAssumption
    PROVE  /\ s.rate \in Nat /\ s.rate > 0 /\ s.maxDelay \in Nat /\ s.token \in Nat
           /\ s.token > 0
           /\ RL(s)!Full \in Nat /\ RL(s)!Full >= s.token
           /\ RL(s)!MaxSkew \in Nat /\ \A g \in Requests : s.skew[g] \in 0..RL(s)!MaxSkew
           /\ RL(s)!Slack \in Nat /\ RL(s)!Allowance = RL(s)!Full + RL(s)!Slack
           /\ RL(s)!Allowance \in Nat
           /\ RL(s)!Expiry \in Nat /\ RL(s)!Expiry >= 1
           /\ RL(s)!Expiry * s.rate >= RL(s)!Full + s.rate
<1>1. s.rate \in Nat \ {0} /\ s.maxDelay \in Nat /\ s.token \in Nat \ {0}
      /\ s.burst \in Nat \ {0}
  BY DEF RL!RedisAssumption
<1>2. RL(s)!Full \in Nat /\ RL(s)!Full >= s.token
  <2>1. s.burst * s.token \in Nat /\ 1 * s.token <= s.burst * s.token
    BY <1>1, Monotone
  <2> QED
    BY <1>1, <2>1 DEF RL!Full
<1>3. RL(s)!MaxSkew \in RL(s)!Range(s.skew)
      /\ \A m \in RL(s)!Range(s.skew) : m <= RL(s)!MaxSkew
  BY SMTT(15) DEF RL!RedisAssumption, RL!MaxSkew, RL!Range
<1>4. RL(s)!MaxSkew \in Nat /\ \A g \in Requests : s.skew[g] \in 0..RL(s)!MaxSkew
  BY <1>3 DEF RL!RedisAssumption, RL!Range
<1>5. RL(s)!Slack \in Nat /\ RL(s)!Allowance = RL(s)!Full + RL(s)!Slack
  BY <1>1, <1>4 DEF RL!Slack, RL!Allowance
<1>6. RL(s)!Expiry \in Nat /\ RL(s)!Expiry >= 1
      /\ RL(s)!Expiry * s.rate >= RL(s)!Full + s.rate
  <2> DEFINE q == (RL(s)!Full + s.rate - 1) \div s.rate
  <2>1. q \in Nat /\ q * s.rate >= RL(s)!Full
    BY <1>1, <1>2, Ceiling, Zenon
  <2>2. RL(s)!Expiry = q + 1
    BY DEF RL!Expiry
  <2> HIDE DEF q
  <2>3. (q + 1) * s.rate = q * s.rate + 1 * s.rate
    BY <1>1, <2>1, Distributes
  <2>4. q * s.rate \in Nat
    BY <1>1, <2>1
  <2> QED
    BY <1>1, <1>2, <2>1, <2>2, <2>3, <2>4
<1> QED
  BY <1>1, <1>2, <1>4, <1>5, <1>6

\* What the ideal bucket has gained since ts, were ts as wrong as it may be.
Gain(s, age) == (age + RL(s)!MaxSkew) * s.rate

\* The ages of calls and of the key are those of their stamps.
Aged(s) ==
    /\ \A g \in Requests :
          IF pc[g] = "sent" THEN lag[g] + s.skew[g] \in 0..s.maxDelay ELSE lag[g] = 0
    /\ bucket # None => bucket.age - (RL(s)!Expiry - bucket.ttl) \in RL(s)!Lags

\* The ideal bucket has what the hash would have with the gain added, up to its own
\* size, and if every script was charged not much more; without a key it is full.
Bounds(s) ==
    IF bucket = None THEN credit = RL(s)!Allowance
    ELSE /\ credit >= RL(s)!AtMost(bucket.tokens + Gain(s, bucket.age), RL(s)!Allowance)
         /\ ~repeated => credit <= bucket.tokens + Gain(s, bucket.age) + RL(s)!Slack

RedisInv(s) == RL(s)!TypeOK /\ Aged(s) /\ (~turnedBack => Bounds(s))

\* The gain is that of a stamp's error.
LEMMA GainBounds ==
    ASSUME NEW s, RL(s)!RedisAssumption, NEW l \in RL(s)!Lags
    PROVE  Gain(s, l) \in 0..RL(s)!Slack
<1>1. l \in Int /\ 0 <= l + RL(s)!MaxSkew /\ l + RL(s)!MaxSkew <= s.maxDelay + RL(s)!MaxSkew
  BY Constants DEF RL!Lags
<1>2. 0 * s.rate <= (l + RL(s)!MaxSkew) * s.rate
      /\ (l + RL(s)!MaxSkew) * s.rate <= (s.maxDelay + RL(s)!MaxSkew) * s.rate
  BY <1>1, Constants, Monotone
<1>3. RL(s)!Slack = (s.maxDelay + RL(s)!MaxSkew) * s.rate
      /\ (l + RL(s)!MaxSkew) * s.rate \in Int
  BY <1>1, Constants DEF RL!Slack
<1> QED
  BY <1>2, <1>3, Constants DEF Gain

\* A key's bucket has gained something, or nothing.
LEMMA KeyGain ==
    ASSUME NEW s, RL(s)!RedisAssumption, RedisInv(s), bucket # None
    PROVE  0 <= bucket.age + RL(s)!MaxSkew /\ Gain(s, bucket.age) \in Int
           /\ 0 <= Gain(s, bucket.age)
<1>1. bucket.age - (RL(s)!Expiry - bucket.ttl) \in RL(s)!Lags /\ bucket.age \in Int
      /\ bucket.ttl \in 1..RL(s)!Expiry
  BY Constants DEF RedisInv, Aged, RL!TypeOK, RL!Buckets
<1>2. 0 <= bucket.age + RL(s)!MaxSkew
  BY <1>1, Constants DEF RL!Lags
<1>3. 0 * s.rate <= Gain(s, bucket.age) /\ Gain(s, bucket.age) \in Int
  BY <1>1, <1>2, Constants, Monotone DEF Gain
<1> QED
  BY <1>2, <1>3, Constants

\* No key, no call on its way.
LEMMA InitRedisInv == ASSUME NEW s, RL(s)!RedisAssumption PROVE RL(s)!Init => RedisInv(s)
<1> SUFFICES ASSUME RL(s)!Init PROVE RedisInv(s)
  OBVIOUS
<1>1. repeated \in BOOLEAN /\ turnedBack \in BOOLEAN
  BY Zenon DEF RL!Init
<1>2. /\ bucket = None /\ credit = RL(s)!Allowance
      /\ pc = [g \in Requests |-> "idle"] /\ lag = [g \in Requests |-> 0]
  BY DEF RL!Init
<1>3. RL(s)!TypeOK
  BY <1>1, <1>2, Constants DEF RL!TypeOK, RL!Lags
<1> QED
  BY <1>2, <1>3 DEF RedisInv, Aged, Bounds

\* The bucket as the script of g finds it and the ideal bucket.
LEMMA Found ==
    ASSUME NEW s, RL(s)!RedisAssumption, RedisInv(s), NEW g \in Requests, pc[g] = "sent",
           ~turnedBack,
           bucket # None => lag[g] <= bucket.age
    PROVE  /\ RL(s)!Refilled(lag[g]) \in 0..RL(s)!Full
           /\ credit >= RL(s)!Refilled(lag[g]) + Gain(s, lag[g])
           /\ ~repeated => credit <= RL(s)!Refilled(lag[g]) + Gain(s, lag[g]) + RL(s)!Slack
<1> DEFINE R == RL(s)!Refilled(lag[g])
<1>1. lag[g] \in RL(s)!Lags /\ lag[g] \in Int /\ credit \in Int /\ credit <= RL(s)!Allowance
      /\ Bounds(s)
  BY Constants DEF RedisInv, RL!TypeOK, RL!Lags
<1>2. Gain(s, lag[g]) \in 0..RL(s)!Slack
  BY <1>1, GainBounds
<1>3. CASE bucket = None
  BY <1>1, <1>2, <1>3, Constants DEF RL!Refilled, Bounds
<1>4. CASE bucket # None
  <2> DEFINE x == bucket.tokens  a == bucket.age
  <2>1. x \in 0..RL(s)!Full /\ a \in Int /\ lag[g] <= a
    BY <1>4, Constants, SMTT(15) DEF RedisInv, RL!TypeOK, RL!Buckets
  <2>2. (a - lag[g]) * s.rate = Gain(s, a) - Gain(s, lag[g]) /\ Gain(s, a) \in Int
        /\ (a - lag[g]) * s.rate >= 0
    <3>1. (a - lag[g]) * s.rate = a * s.rate - lag[g] * s.rate
      BY <1>1, <2>1, Constants, Distributes
    <3>2. Gain(s, a) = a * s.rate + RL(s)!MaxSkew * s.rate
      BY <2>1, Constants, Distributes DEF Gain
    <3>3. Gain(s, lag[g]) = lag[g] * s.rate + RL(s)!MaxSkew * s.rate
      BY <1>1, Constants, Distributes DEF Gain
    <3>4. a * s.rate \in Int /\ lag[g] * s.rate \in Int /\ RL(s)!MaxSkew * s.rate \in Int
      BY <1>1, <2>1, Constants
    <3>5. lag[g] * s.rate <= a * s.rate
      BY <1>1, <2>1, Constants, Monotone
    <3> QED
      BY <3>1, <3>2, <3>3, <3>4, <3>5
  <2>3. R = RL(s)!AtMost(x + (a - lag[g]) * s.rate, RL(s)!Full)
    BY <1>1, <1>4, <2>1 DEF RL!Refilled
  <2>4. credit >= RL(s)!AtMost(x + Gain(s, a), RL(s)!Allowance)
        /\ (~repeated => credit <= x + Gain(s, a) + RL(s)!Slack)
    BY <1>1, <1>4 DEF Bounds
  <2> HIDE DEF x, a, R
  <2> DEFINE e == (a - lag[g]) * s.rate
  <2>5. e = Gain(s, a) - Gain(s, lag[g]) /\ e >= 0 /\ R = RL(s)!AtMost(x + e, RL(s)!Full)
        /\ e \in Int
    BY <1>2, <2>2, <2>3, SMTT(15)
  <2> HIDE DEF e
  <2> QED
    BY <1>1, <1>2, <2>1, <2>2, <2>4, <2>5, Constants DEF RL!AtMost, R
<1> QED
  BY <1>3, <1>4

\* The key after a script.
LEMMA WriteTypes ==
    ASSUME NEW s, RL(s)!RedisAssumption, RedisInv(s), NEW g \in Requests, pc[g] = "sent",
           RL(s)!Write(g)
    PROVE  /\ RL(s)!Refilled(lag[g]) \in 0..RL(s)!Full
           /\ bucket' \in RL(s)!Buckets /\ bucket' # None
           /\ bucket'.age = lag[g] /\ bucket'.ttl = RL(s)!Expiry
           /\ bucket'.tokens =
                 RL(s)!Refilled(lag[g]) - (IF RL(s)!Allowed(g) THEN s.token ELSE 0)
           /\ turnedBack' \in BOOLEAN
<1>1. lag[g] \in RL(s)!Lags /\ lag[g] \in Int
  BY Constants, SMTT(15) DEF RedisInv, RL!TypeOK, RL!Lags
<1>2. RL(s)!Refilled(lag[g]) \in 0..RL(s)!Full
  <2>1. CASE bucket = None
    BY <2>1, Constants DEF RL!Refilled
  <2>2. CASE bucket # None
    <3> DEFINE elapsed == bucket.age - lag[g]
               e == (IF elapsed > 0 THEN elapsed ELSE 0) * s.rate
    <3>1. bucket.tokens \in 0..RL(s)!Full /\ elapsed \in Int
      BY <1>1, <2>2, Constants DEF RedisInv, RL!TypeOK, RL!Buckets
    <3>2. e \in Nat
      BY <3>1, Constants
    <3>3. RL(s)!Refilled(lag[g]) = RL(s)!AtMost(bucket.tokens + e, RL(s)!Full)
      BY <2>2 DEF RL!Refilled
    <3> HIDE DEF e
    <3> QED
      BY <3>1, <3>2, <3>3, Constants DEF RL!AtMost
  <2> QED
    BY <2>1, <2>2
<1>3. bucket' =
        [tokens |-> RL(s)!Refilled(lag[g]) - (IF RL(s)!Allowed(g) THEN s.token ELSE 0),
         age |-> lag[g], ttl |-> RL(s)!Expiry]
  BY DEF RL!Write, RL!Written
<1>4. RL(s)!Refilled(lag[g]) - (IF RL(s)!Allowed(g) THEN s.token ELSE 0) \in 0..RL(s)!Full
  BY <1>2, Constants DEF RL!Allowed
<1>5. lag[g] \in (-RL(s)!MaxSkew)..(s.maxDelay + RL(s)!Expiry)
      /\ RL(s)!Expiry \in 1..RL(s)!Expiry
  BY <1>1, Constants DEF RL!Lags
<1>6. bucket' \in RL(s)!Buckets
  BY <1>3, <1>4, <1>5 DEF RL!Buckets
<1>7. turnedBack' \in BOOLEAN
  BY DEF RL!Write
<1> QED
  BY <1>2, <1>3, <1>6, <1>7 DEF RL!RedisAssumption

\* The key after a tick, if it is still there.
LEMMA TickKey ==
    ASSUME NEW s, RL(s)!RedisAssumption, RedisInv(s), RL(s)!Tick, bucket # None,
           bucket.ttl # 1
    PROVE  /\ bucket' \in RL(s)!Buckets /\ bucket' # None
           /\ bucket'.age - (RL(s)!Expiry - bucket'.ttl) \in RL(s)!Lags
<1>1. bucket' = [bucket EXCEPT !.age = @ + 1, !.ttl = @ - 1] /\ bucket \in RL(s)!Buckets
  BY DEF RL!Tick, RL!Older, RedisInv, RL!TypeOK
<1>2. /\ bucket.age \in Int /\ bucket.ttl \in 1..RL(s)!Expiry
      /\ bucket.age - (RL(s)!Expiry - bucket.ttl) \in RL(s)!Lags
  BY <1>1, Constants DEF RL!Buckets, RedisInv, Aged
<1>3. bucket'.age = bucket.age + 1 /\ bucket'.ttl = bucket.ttl - 1
      /\ bucket'.tokens = bucket.tokens
  BY <1>1 DEF RL!Buckets
<1>4. bucket.age + 1 \in (-RL(s)!MaxSkew)..(s.maxDelay + RL(s)!Expiry)
      /\ bucket.ttl - 1 \in 1..RL(s)!Expiry
  BY <1>2, Constants DEF RL!Lags
<1>5. bucket' \in RL(s)!Buckets
  BY <1>1, <1>4, Zenon DEF RL!Buckets
<1>6. bucket'.age - (RL(s)!Expiry - bucket'.ttl) = bucket.age - (RL(s)!Expiry - bucket.ttl)
  BY <1>2, <1>3, Constants
<1> QED
  BY <1>2, <1>5, <1>6 DEF RL!RedisAssumption

\* A tick ages the key, or removes it when its ideal bucket is full.
LEMMA TickBounds ==
    ASSUME NEW s, RL(s)!RedisAssumption, StampsNearlyRight(s), RedisInv(s), RL(s)!Tick,
           ~turnedBack
    PROVE  Bounds(s)'
<1>0. Bounds(s) /\ credit \in Int /\ credit <= RL(s)!Allowance /\ UNCHANGED repeated
  BY Constants DEF RedisInv, RL!TypeOK, RL!Tick
<1>1. credit >= 0
  <2>1. CASE bucket = None
    BY <1>0, <2>1, Constants DEF Bounds
  <2>2. CASE bucket # None
    <3>1. 0 <= Gain(s, bucket.age) /\ Gain(s, bucket.age) \in Int
          /\ bucket.tokens \in 0..RL(s)!Full
      BY <2>2, KeyGain DEF RedisInv, RL!TypeOK, RL!Buckets
    <3> QED
      BY <1>0, <2>2, <3>1, Constants DEF Bounds, RL!AtMost
  <2> QED
    BY <2>1, <2>2
<1>2. credit' = RL(s)!AtMost(credit + s.rate, RL(s)!Allowance)
  BY <1>0, <1>1, Constants DEF RL!Tick
<1>3. CASE bucket = None
  <2>1. bucket' = None
    BY <1>3 DEF RL!Tick, RL!Older
  <2> QED
    BY <1>0, <1>2, <1>3, <2>1, Constants DEF Bounds, RL!AtMost
<1>4. CASE bucket # None
  <2> DEFINE x == bucket.tokens  a == bucket.age
  <2>1. x \in 0..RL(s)!Full /\ a \in Int /\ bucket.ttl \in 1..RL(s)!Expiry
        /\ a - (RL(s)!Expiry - bucket.ttl) \in RL(s)!Lags
    BY <1>4, Constants DEF RedisInv, Aged, RL!TypeOK, RL!Buckets
  <2>2. Gain(s, a + 1) = Gain(s, a) + s.rate /\ Gain(s, a) \in Int
    <3>1. Gain(s, a + 1) = ((a + RL(s)!MaxSkew) + 1) * s.rate
      BY <2>1, Constants DEF Gain
    <3>2. ((a + RL(s)!MaxSkew) + 1) * s.rate = (a + RL(s)!MaxSkew) * s.rate + 1 * s.rate
      BY <2>1, Constants, Distributes
    <3> QED
      BY <2>1, <3>1, <3>2, Constants DEF Gain
  <2>3. credit >= RL(s)!AtMost(x + Gain(s, a), RL(s)!Allowance)
        /\ (~repeated => credit <= x + Gain(s, a) + RL(s)!Slack)
    BY <1>0, <1>4 DEF Bounds
  <2>4. CASE bucket.ttl = 1
    <3>1. RL(s)!Expiry <= (a + RL(s)!MaxSkew) + 1
      BY <2>1, <2>4, Constants DEF RL!Lags
    <3>2. RL(s)!Expiry * s.rate <= Gain(s, a + 1)
      <4>1. RL(s)!Expiry * s.rate <= ((a + RL(s)!MaxSkew) + 1) * s.rate
        BY <2>1, <3>1, Constants, Monotone
      <4>2. (a + RL(s)!MaxSkew) + 1 = (a + 1) + RL(s)!MaxSkew
        BY <2>1, Constants
      <4> QED
        BY <4>1, <4>2 DEF Gain
    <3>3. RL(s)!Slack <= s.rate
      <4>1. (s.maxDelay + RL(s)!MaxSkew) * s.rate <= 1 * s.rate
        BY Constants, Monotone DEF StampsNearlyRight
      <4>2. RL(s)!Slack = (s.maxDelay + RL(s)!MaxSkew) * s.rate
        BY Constants DEF RL!Slack
      <4> QED
        BY <4>1, <4>2, Constants
    <3>4. bucket' = None
      BY <1>4, <2>4 DEF RL!Tick, RL!Older
    <3> HIDE DEF x, a
    <3> DEFINE d == RL(s)!Expiry * s.rate
    <3>5. d >= RL(s)!Full + s.rate /\ d <= Gain(s, a + 1) /\ d \in Int
      BY <3>2, Constants, SMTT(15)
    <3> HIDE DEF d
    <3>6. credit' = RL(s)!Allowance
      BY <1>0, <1>2, <2>1, <2>2, <2>3, <3>3, <3>5, Constants DEF RL!AtMost
    <3> QED
      BY <3>4, <3>6 DEF Bounds
  <2>5. CASE bucket.ttl # 1
    <3>1. bucket' = [bucket EXCEPT !.age = @ + 1, !.ttl = @ - 1] /\ bucket \in RL(s)!Buckets
      BY <1>4, <2>5 DEF RL!Tick, RL!Older, RedisInv, RL!TypeOK
    <3>2. bucket'.tokens = x /\ bucket'.age = a + 1
      BY <3>1 DEF RL!Buckets
    <3>3. bucket' # None
      BY <1>4, <2>5, TickKey, SMTT(15)
    <3> HIDE DEF x, a
    <3>4. credit' >= RL(s)!AtMost(x + Gain(s, a + 1), RL(s)!Allowance)
      BY <1>0, <1>2, <2>1, <2>2, <2>3, Constants, SMTT(15) DEF RL!AtMost
    <3>5. ~repeated => credit' <= x + Gain(s, a + 1) + RL(s)!Slack
      BY <1>0, <1>2, <2>1, <2>2, <2>3, Constants DEF RL!AtMost
    <3>6. (credit >= RL(s)!AtMost(bucket.tokens + Gain(s, bucket.age), RL(s)!Allowance))'
      BY <3>2, <3>4 DEF Gain
    <3>7. (~repeated => credit <= bucket.tokens + Gain(s, bucket.age) + RL(s)!Slack)'
      BY <1>0, <3>2, <3>5, SMTT(15) DEF Gain
    <3> QED
      BY <3>3, <3>6, <3>7 DEF Bounds
  <2> QED
    BY <2>4, <2>5
<1> QED
  BY <1>3, <1>4

\* A script, whether its reply arrives or not: the ideal bucket is charged for an
\* admission whose reply does.
LEMMA ScriptBounds ==
    ASSUME NEW s, RL(s)!RedisAssumption, RedisInv(s), NEW g \in Requests, pc[g] = "sent",
           RL(s)!Write(g), ~turnedBack',
           \/ /\ credit' = (IF RL(s)!Allowed(g) THEN RL(s)!Charged ELSE credit)
              /\ UNCHANGED repeated
           \/ UNCHANGED credit /\ repeated'
    PROVE  Bounds(s)' /\ credit' \in -1..RL(s)!Allowance
<1> DEFINE R == RL(s)!Refilled(lag[g])
<1>1. ~turnedBack /\ ~(bucket # None /\ lag[g] > bucket.age)
  BY Zenon DEF RL!Write
<1>2. /\ lag[g] \in Int /\ lag[g] \in RL(s)!Lags /\ credit \in -1..RL(s)!Allowance
      /\ bucket # None => bucket.age \in Int
  BY Constants, SMTT(15) DEF RedisInv, RL!TypeOK, RL!Lags, RL!Buckets
<1>3. /\ R \in 0..RL(s)!Full
      /\ credit >= R + Gain(s, lag[g])
      /\ ~repeated => credit <= R + Gain(s, lag[g]) + RL(s)!Slack
  <2>1. bucket # None => lag[g] <= bucket.age
    BY <1>1, <1>2
  <2> QED
    BY <1>1, <2>1, Found, SMTT(15)
<1>4. Gain(s, lag[g]) \in 0..RL(s)!Slack
  BY <1>2, GainBounds
<1>5. /\ bucket' # None /\ bucket'.age = lag[g]
      /\ bucket'.tokens = R - (IF RL(s)!Allowed(g) THEN s.token ELSE 0)
  BY WriteTypes
<1>6. RL(s)!Allowed(g) => R >= s.token
  BY SMTT(15) DEF RL!Allowed
<1> HIDE DEF R
<1>7. RL(s)!Allowed(g) => RL(s)!Charged = credit - s.token
  BY <1>2, <1>3, <1>4, <1>6, Constants, SMTT(15) DEF RL!Charged
<1>8. credit' \in -1..RL(s)!Allowance
  BY <1>2, <1>3, <1>4, <1>6, <1>7, Constants, SMTT(15)
<1>9. credit' >= bucket'.tokens + Gain(s, lag[g])
  BY <1>2, <1>3, <1>4, <1>5, <1>7, Constants, SMTT(15)
<1>10. ~repeated' => credit' <= bucket'.tokens + Gain(s, lag[g]) + RL(s)!Slack
  BY <1>2, <1>3, <1>4, <1>5, <1>7, Constants, SMTT(15)
<1>11. bucket'.tokens \in Int
  BY <1>3, <1>5, Constants, SMTT(15)
<1>12. (credit >= RL(s)!AtMost(bucket.tokens + Gain(s, bucket.age), RL(s)!Allowance))'
  <2>1. credit' >= RL(s)!AtMost(bucket'.tokens + Gain(s, lag[g]), RL(s)!Allowance)
    BY <1>4, <1>8, <1>9, <1>11, Constants, SMTT(15) DEF RL!AtMost
  <2> QED
    BY <1>5, <2>1, SMTT(15) DEF Gain
<1>13. (~repeated => credit <= bucket.tokens + Gain(s, bucket.age) + RL(s)!Slack)'
  BY <1>5, <1>10, SMTT(15) DEF Gain
<1> QED
  BY <1>5, <1>8, <1>12, <1>13, SMTT(15) DEF Bounds

\* Every step keeps the invariant.
LEMMA NextRedisInv ==
    ASSUME NEW s, RL(s)!RedisAssumption, StampsNearlyRight(s)
    PROVE  RedisInv(s) /\ [RL(s)!Next]_(RL(s)!vars) => RedisInv(s)'
<1>i. SUFFICES ASSUME RedisInv(s), [RL(s)!Next]_(RL(s)!vars) PROVE RedisInv(s)'
  BY Zenon
<1>0. /\ bucket \in RL(s)!Buckets \cup {None} /\ pc \in [Requests -> {"idle", "sent"}]
      /\ lag \in [Requests -> RL(s)!Lags] /\ credit \in -1..RL(s)!Allowance
      /\ repeated \in BOOLEAN /\ turnedBack \in BOOLEAN
      /\ Aged(s) /\ (~turnedBack => Bounds(s))
  BY <1>i, Zenon DEF RedisInv, RL!TypeOK
<1>a. /\ \A q \in Requests :
            IF pc[q] = "sent" THEN lag[q] + s.skew[q] \in 0..s.maxDelay ELSE lag[q] = 0
      /\ bucket # None => bucket.age - (RL(s)!Expiry - bucket.ttl) \in RL(s)!Lags
  BY <1>0, Zenon DEF Aged
<1> DEFINE CallsAged ==
               /\ pc' \in [Requests -> {"idle", "sent"}] /\ lag' \in [Requests -> RL(s)!Lags]
               /\ \A q \in Requests :
                     IF pc'[q] = "sent" THEN lag'[q] + s.skew[q] \in 0..s.maxDelay
                     ELSE lag'[q] = 0
           KeyAged ==
               /\ bucket' \in RL(s)!Buckets \cup {None}
               /\ bucket' # None => bucket'.age - (RL(s)!Expiry - bucket'.ttl) \in RL(s)!Lags
<1>b. ASSUME CallsAged, KeyAged, credit' \in -1..RL(s)!Allowance, repeated' \in BOOLEAN,
             turnedBack' \in BOOLEAN, ~turnedBack' => Bounds(s)'
      PROVE  RedisInv(s)'
  BY <1>b, Zenon DEF RedisInv, RL!TypeOK, Aged, RL!Lags, RL!MaxSkew, RL!Buckets, RL!Expiry,
     RL!Full, RL!Allowance, RL!Slack, RL!Range
<1>c. ASSUME UNCHANGED <<bucket, credit, repeated>> PROVE Bounds(s)' <=> Bounds(s)
  BY <1>c, Zenon DEF Bounds, Gain, RL!AtMost, RL!Allowance, RL!Slack, RL!Full, RL!MaxSkew, RL!Range
<1>d. 0 \in RL(s)!Lags /\ 0 \in 0..s.maxDelay
      /\ \A q \in Requests : -s.skew[q] \in RL(s)!Lags /\ -s.skew[q] + s.skew[q] = 0
  BY Constants DEF RL!Lags
<1>1. CASE UNCHANGED RL(s)!vars
  <2>1. UNCHANGED <<bucket, pc, lag, credit, repeated, turnedBack>>
    BY <1>1, Zenon DEF RL!vars
  <2> QED
    BY <1>0, <1>a, <1>b, <1>c, <2>1, Zenon
<1>2. ASSUME NEW g \in Requests, RL(s)!Send(g) \/ RL(s)!SendFails(g) PROVE RedisInv(s)'
  <2>1. UNCHANGED <<bucket, credit, repeated, turnedBack>>
    BY <1>2, Zenon DEF RL!Send, RL!SendFails
  <2>2. \/ pc' = [pc EXCEPT ![g] = "sent"] /\ lag' = [lag EXCEPT ![g] = -s.skew[g]]
        \/ pc' = [pc EXCEPT ![g] = "idle"] /\ lag' = [lag EXCEPT ![g] = 0]
    BY <1>2, Zenon DEF RL!Send, RL!SendFails, RL!Return
  <2>3. CallsAged
    BY <1>0, <1>a, <1>d, <2>2, SMTT(15)
  <2> QED
    BY <1>0, <1>a, <1>b, <1>c, <2>1, <2>3, Zenon
<1>3. ASSUME NEW g \in Requests, RL(s)!Script(g) \/ RL(s)!ReplyLost(g) PROVE RedisInv(s)'
  <2>1. pc[g] = "sent" /\ RL(s)!Write(g)
    BY <1>3, Zenon DEF RL!Script, RL!ReplyLost
  <2>2. CallsAged
    <3>1. \/ pc' = [pc EXCEPT ![g] = "idle"] /\ lag' = [lag EXCEPT ![g] = 0]
          \/ pc' = pc /\ lag' = lag
      BY <1>3, Zenon DEF RL!Script, RL!ReplyLost, RL!Return
    <3> QED
      BY <1>0, <1>a, <1>d, <3>1, SMTT(15)
  <2>3. KeyAged /\ turnedBack' \in BOOLEAN
    <3>1. lag[g] \in RL(s)!Lags
      BY <1>0, Zenon
    <3>2. lag[g] - (RL(s)!Expiry - RL(s)!Expiry) = lag[g]
      BY <3>1, Constants DEF RL!Lags
    <3> QED
      BY <1>i, <2>1, <3>1, <3>2, WriteTypes, Zenon
  <2>4. repeated' \in BOOLEAN
    BY <1>0, <1>3, Zenon DEF RL!Script, RL!ReplyLost
  <2>5. \/ /\ credit' = (IF RL(s)!Allowed(g) THEN RL(s)!Charged ELSE credit)
           /\ UNCHANGED repeated
        \/ UNCHANGED credit /\ repeated'
    BY <1>3, Zenon DEF RL!Script, RL!ReplyLost
  <2>6. credit' \in -1..RL(s)!Allowance
    <3>1. credit' \in {credit, RL(s)!Charged}
      BY <2>5, Zenon
    <3> QED
      BY <1>0, <3>1, Constants, SMTT(15) DEF RL!Charged
  <2>7. ~turnedBack' => Bounds(s)'
    BY <1>i, <2>1, <2>5, ScriptBounds, Zenon
  <2> QED
    BY <1>b, <2>2, <2>3, <2>4, <2>6, <2>7, Zenon
<1>4. CASE RL(s)!Tick
  <2>1. /\ lag' = [q \in Requests |-> IF pc[q] = "sent" THEN lag[q] + 1 ELSE 0]
        /\ \A q \in Requests : pc[q] = "sent" => lag[q] + s.skew[q] < s.maxDelay
        /\ UNCHANGED <<pc, repeated, turnedBack>>
        /\ bucket' = RL(s)!Older
    BY <1>4, Zenon DEF RL!Tick
  <2>2. CallsAged
    <3>1. ASSUME NEW q \in Requests, pc[q] = "sent"
          PROVE  lag[q] + 1 \in RL(s)!Lags /\ (lag[q] + 1) + s.skew[q] \in 0..s.maxDelay
      <4>1. /\ lag[q] \in RL(s)!Lags /\ lag[q] + s.skew[q] \in 0..s.maxDelay
            /\ lag[q] + s.skew[q] < s.maxDelay
        BY <1>0, <1>a, <2>1, <3>1, Zenon
      <4> QED
        BY <4>1, Constants, SMTT(15) DEF RL!Lags
    <3> QED
      BY <1>0, <1>d, <2>1, <3>1, Zenon
  <2>3. KeyAged
    <3>1. bucket = None \/ bucket.ttl = 1 => bucket' = None
      BY <2>1, Zenon DEF RL!Older
    <3> QED
      BY <1>i, <1>4, <3>1, TickKey, Zenon
  <2>4. credit' \in -1..RL(s)!Allowance
    <3>1. credit' = IF credit < 0 THEN credit ELSE RL(s)!AtMost(credit + s.rate, RL(s)!Allowance)
      BY <1>4, Zenon DEF RL!Tick
    <3>2. s.rate \in Nat /\ RL(s)!Allowance \in Nat
      BY Constants, Zenon
    <3> QED
      BY <1>0, <3>1, <3>2, SMTT(15) DEF RL!AtMost
  <2>5. ~turnedBack' => Bounds(s)'
    BY <1>i, <1>4, <2>1, TickBounds, Zenon
  <2> QED
    BY <1>0, <1>b, <2>1, <2>2, <2>3, <2>4, <2>5, Zenon
<1> QED
  BY <1>i, <1>1, <1>2, <1>3, <1>4, Zenon DEF RL!Next

\* Short of ts being turned back, the ideal bucket has at least what the hash has.
LEMMA RedisInvAdmits ==
    ASSUME NEW s, RL(s)!RedisAssumption, RedisInv(s)
    PROVE  RL(s)!OnlyTurningBackOverAdmits
<1> SUFFICES ASSUME ~turnedBack PROVE ~(credit < 0)
  BY Zenon DEF RL!OnlyTurningBackOverAdmits
<1>1. CASE bucket = None
  BY <1>1, Constants, SMTT(15) DEF RedisInv, Bounds
<1>2. CASE bucket # None
  <2>1. 0 <= Gain(s, bucket.age) /\ Gain(s, bucket.age) \in Int
    BY <1>2, KeyGain
  <2> QED
    BY <1>2, <2>1, Constants DEF RedisInv, RL!TypeOK, RL!Buckets, Bounds, RL!AtMost
<1> QED
  BY <1>1, <1>2

\* Nor has it more than the stamps are off by.
LEMMA RedisInvExact ==
    ASSUME NEW s, RL(s)!RedisAssumption, RedisInv(s)
    PROVE  RL(s)!BucketExact
<1> SUFFICES ASSUME ~repeated, ~turnedBack
             PROVE  credit - RL(s)!Refilled(0) \in 0..(2 * RL(s)!Slack)
  BY Zenon DEF RL!BucketExact
<1>0. credit \in Int /\ credit <= RL(s)!Allowance /\ Bounds(s)
  BY Constants DEF RedisInv, RL!TypeOK
<1>1. CASE bucket = None
  BY <1>0, <1>1, Constants, SMTT(15) DEF Bounds, RL!Refilled
<1>2. CASE bucket # None
  <2> DEFINE x == bucket.tokens  a == bucket.age
             e == (IF a - 0 > 0 THEN a - 0 ELSE 0) * s.rate
  <2>1. x \in 0..RL(s)!Full /\ a \in Int /\ Gain(s, a) \in Int /\ 0 <= Gain(s, a)
        /\ 0 <= a + RL(s)!MaxSkew
    BY <1>2, KeyGain, Constants DEF RedisInv, RL!TypeOK, RL!Buckets
  <2>2. e \in Nat /\ e <= Gain(s, a) /\ Gain(s, a) <= e + RL(s)!Slack
    <3>1. Gain(s, a) = a * s.rate + RL(s)!MaxSkew * s.rate
      BY <2>1, Constants, Distributes, SMTT(15) DEF Gain
    <3>2. RL(s)!MaxSkew * s.rate \in Nat /\ RL(s)!MaxSkew * s.rate <= RL(s)!Slack
      <4>1. RL(s)!MaxSkew * s.rate <= (s.maxDelay + RL(s)!MaxSkew) * s.rate
        BY Constants, Monotone, SMTT(15)
      <4> QED
        BY <4>1, Constants DEF RL!Slack
    <3>3. CASE a > 0
      <4>1. e = a * s.rate /\ a * s.rate \in Nat
        BY <2>1, <3>3, Constants, SMTT(15)
      <4> QED
        BY <3>1, <3>2, <4>1, Constants
    <3>4. CASE a <= 0
      <4>1. e = 0
        BY <2>1, <3>4, Constants
      <4>2. a * s.rate <= 0 * s.rate /\ a * s.rate \in Int
        BY <2>1, <3>4, Constants, Monotone
      <4> QED
        BY <2>1, <3>1, <3>2, <4>1, <4>2, Constants, SMTT(15)
    <3> QED
      BY <2>1, <3>3, <3>4
  <2>3. RL(s)!Refilled(0) = RL(s)!AtMost(x + e, RL(s)!Full)
    BY <1>2 DEF RL!Refilled
  <2>4. credit >= RL(s)!AtMost(x + Gain(s, a), RL(s)!Allowance)
        /\ credit <= x + Gain(s, a) + RL(s)!Slack
    BY <1>0, <1>2 DEF Bounds
  <2> HIDE DEF x, a, e
  <2> QED
    BY <1>0, <2>1, <2>2, <2>3, <2>4, Constants, SMTT(15) DEF RL!AtMost
<1> QED
  BY <1>1, <1>2

----------------------------------------------------------------------------
\* The limiter that was set up

\* The setup's limiter keeps its invariant: that of the one in memory, ...
MemoryKept == \A s \in InMemory : setup = s => MemoryInv(s)

\* ... and that of the one in Redis.
RedisKept == \A s \in InRedis : setup = s => RedisInv(s)

\* What a step is to the limiter in memory.
LEMMA StepInMemory ==
    ASSUME [Next]_vars, NEW s \in InMemory, setup' = s
    PROVE  setup = s /\ [ML(s)!Next]_(ML(s)!vars)
<1>1. CASE UNCHANGED vars
  BY <1>1 DEF vars, memoryVars, ML!vars
<1>2. ASSUME NEW q \in InMemory, MemoryStep(q, ML(q)!Next)
      PROVE  setup = s /\ [ML(s)!Next]_(ML(s)!vars)
  BY <1>2 DEF MemoryStep
<1>3. ASSUME NEW q \in InRedis, RedisStep(q, RL(q)!Next)
      PROVE  setup = s /\ [ML(s)!Next]_(ML(s)!vars)
  BY <1>3 DEF RedisStep, InRedis
<1> QED
  BY <1>1, <1>2, <1>3 DEF Next

\* What a step is to the limiter in Redis.
LEMMA StepInRedis ==
    ASSUME [Next]_vars, NEW s \in InRedis, setup' = s
    PROVE  setup = s /\ [RL(s)!Next]_(RL(s)!vars)
<1>1. CASE UNCHANGED vars
  BY <1>1 DEF vars, redisVars, RL!vars
<1>2. ASSUME NEW q \in InMemory, MemoryStep(q, ML(q)!Next)
      PROVE  setup = s /\ [RL(s)!Next]_(RL(s)!vars)
  BY <1>2 DEF MemoryStep, InRedis
<1>3. ASSUME NEW q \in InRedis, RedisStep(q, RL(q)!Next)
      PROVE  setup = s /\ [RL(s)!Next]_(RL(s)!vars)
  BY <1>3 DEF RedisStep
<1> QED
  BY <1>1, <1>2, <1>3 DEF Next

\* Whatever the configurations and the number of requests, the in-memory limiter
\* admits more than one bucket would only after a deletion that overtook a caller or
\* forgave a bucket not yet full; and none forgives that comes after a full refill.
THEOREM OnlyDeletions == Spec => []OnlyDeletionOverAdmits
<1>1. Init => MemoryKept
  <2> SUFFICES ASSUME Init, NEW s \in InMemory, setup = s PROVE MemoryInv(s)
    BY DEF MemoryKept
  <2>1. ML(s)!Init
    BY DEF Init, InRedis
  <2> QED
    BY <2>1, SetupsAssumption, InitMemoryInv
<1>2. MemoryKept /\ [Next]_vars => MemoryKept'
  <2> SUFFICES ASSUME MemoryKept, [Next]_vars, NEW s \in InMemory, setup' = s
               PROVE  MemoryInv(s)'
    BY DEF MemoryKept
  <2>1. setup = s /\ [ML(s)!Next]_(ML(s)!vars)
    BY StepInMemory
  <2>2. MemoryInv(s)
    BY <2>1 DEF MemoryKept
  <2> QED
    BY <2>1, <2>2, SetupsAssumption, NextMemoryInv
<1>3. MemoryKept => OnlyDeletionOverAdmits
  BY SetupsAssumption, MemoryInvAdmits DEF MemoryKept, OnlyDeletionOverAdmits
<1> QED
  BY <1>1, <1>2, <1>3, PTL DEF Spec

\* The limiter in Redis keeps its invariant.
LEMMA RedisKeptHolds ==
    ASSUME \A s \in InRedis : StampsNearlyRight(s)
    PROVE  Spec => []RedisKept
<1>1. Init => RedisKept
  <2> SUFFICES ASSUME Init, NEW s \in InRedis, setup = s PROVE RedisInv(s)
    BY DEF RedisKept
  <2>1. RL(s)!Init
    BY DEF Init, InRedis
  <2> QED
    BY <2>1, SetupsAssumption, InitRedisInv
<1>2. RedisKept /\ [Next]_vars => RedisKept'
  <2> SUFFICES ASSUME RedisKept, [Next]_vars, NEW s \in InRedis, setup' = s
               PROVE  RedisInv(s)'
    BY DEF RedisKept
  <2>1. setup = s /\ [RL(s)!Next]_(RL(s)!vars)
    BY StepInRedis
  <2>2. RedisInv(s)
    BY <2>1 DEF RedisKept
  <2> QED
    BY <2>1, <2>2, SetupsAssumption, NextRedisInv
<1> QED
  BY <1>1, <1>2, PTL DEF Spec

\* The script admits no more than one bucket allows unless ts was turned back, as long
\* as a stamp is off by a second at most: the second by which PEXPIRE outlasts a refill.
THEOREM OnlyTurningBack ==
    ASSUME \A s \in InRedis : StampsNearlyRight(s)
    PROVE  Spec => []OnlyTurningBackOverAdmits
<1>1. RedisKept => OnlyTurningBackOverAdmits
  BY SetupsAssumption, RedisInvAdmits DEF RedisKept, OnlyTurningBackOverAdmits
<1> QED
  BY <1>1, RedisKeptHolds, PTL

\* Nor is anyone refused whom that bucket would admit, but for what stamps are off.
THEOREM BucketIsExact ==
    ASSUME \A s \in InRedis : StampsNearlyRight(s)
    PROVE  Spec => []BucketExact
<1>1. RedisKept => BucketExact
  BY SetupsAssumption, RedisInvExact DEF RedisKept, BucketExact
<1> QED
  BY <1>1, RedisKeptHolds, PTL
=============================================================================
