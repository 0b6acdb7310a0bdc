---------------------------- MODULE RedisLimiter ----------------------------
(***************************************************************************)
(* internal/ratelimit/redis.go for one key: gateways stamp a call with     *)
(* their own clock and send it; Redis runs the script atomically, in the   *)
(* order the calls arrive.  Times are relative to the present: "age" is    *)
(* now - ts, "lag" is now - now_ms of a call on its way.                   *)
(*                                                                         *)
(* Redis and the client library are external: a reply may be lost, upon    *)
(* which the client sends the same call again or gives up with an error,   *)
(* and a key past its PEXPIRE is gone.                                     *)
(***************************************************************************)
EXTENDS Integers, Functions

CONSTANTS
    Gateways,   \* calls that may be on their way at once
    Token,      \* a token, in units: tokens are kept as fractions
    Rate,       \* units refilled per tick
    Burst,      \* tokens
    MaxDelay,   \* ticks a call may be on its way
    Skew,       \* per gateway: how far its clock is ahead
    None

VARIABLES
    bucket,    \* the hash: tokens in units, age of ts and time to live;
               \* None: no key
    pc,        \* per gateway: "idle" or "sent"
    lag,       \* per gateway: age of its call's stamp
    credit,    \* units of one ideal bucket, see Allowance, charged for every
               \* admitted request; -1 for good once overdrawn     (history)
    repeated,  \* a script has run more than once for a call, or for a call
               \* that failed                                     (history)
    turnedBack \* a script wrote an older ts than it found         (history)

vars == <<bucket, pc, lag, credit, repeated, turnedBack>>

AtMost(n, bound) == IF n > bound THEN bound ELSE n

Full == Burst * Token

\* Slip: the key expires before its bucket is full.
ExpiryShort == Full \div Rate

\* math.ceil(burst / rate * 1000) + 1000, in ticks.
Expiry == ((Full + Rate - 1) \div Rate) + 1

\* The ideal bucket is judged when scripts run, the code's by their stamps.  A
\* stamp is off by MaxDelay and the largest skew at most, so that a bucket right
\* by its stamps never admits more than a bucket larger by that time's refill.
MaxSkew == CHOOSE n \in Range(Skew) : \A m \in Range(Skew) : m <= n
Slack == Rate * (MaxDelay + MaxSkew)
Allowance == Full + Slack

Lags == (-MaxSkew)..MaxDelay
Buckets == [tokens: 0..Full, age: (-MaxSkew)..(MaxDelay + Expiry), ttl: 1..Expiry]

RedisAssumption ==
    /\ Token \in Nat \ {0}
    /\ Rate \in Nat \ {0}
    /\ Burst \in Nat \ {0}
    /\ MaxDelay \in Nat
    /\ Skew \in [Gateways -> Nat]
    /\ \E n \in Range(Skew) : \A m \in Range(Skew) : m <= n
    /\ \A b \in Buckets : b # None

TypeOK ==
    /\ bucket \in Buckets \cup {None}
    /\ pc \in [Gateways -> {"idle", "sent"}]
    /\ lag \in [Gateways -> Lags]
    /\ credit \in -1..Allowance
    /\ repeated \in BOOLEAN
    /\ turnedBack \in BOOLEAN

Init ==
    /\ bucket = None
    /\ pc = [g \in Gateways |-> "idle"]
    /\ lag = [g \in Gateways |-> 0]
    /\ credit = Allowance
    /\ repeated = FALSE
    /\ turnedBack = FALSE

----------------------------------------------------------------------------

\* Allow: time.Now().UnixMilli() is read, the call is sent.
Send(g) ==
    /\ pc[g] = "idle"
    /\ pc' = [pc EXCEPT ![g] = "sent"]
    /\ lag' = [lag EXCEPT ![g] = -Skew[g]]
    /\ UNCHANGED <<bucket, credit, repeated, turnedBack>>

\* The bucket as the script finds it: elapsed = max(0, now_ms - last).
Refilled(stampLag) ==
    IF bucket = None THEN Full
    ELSE LET elapsed == bucket.age - stampLag
         IN  AtMost(bucket.tokens + (IF elapsed > 0 THEN elapsed ELSE 0) * Rate, Full)

Allowed(g) == Refilled(lag[g]) >= Token

\* Slip: ts is moved by admitted calls only.
WrittenKeepsTs(g) ==
    [tokens |-> Refilled(lag[g]) - (IF Allowed(g) THEN Token ELSE 0),
     age    |-> IF Allowed(g) THEN lag[g] ELSE bucket.age,
     ttl    |-> Expiry]

\* HSET and PEXPIRE: ts becomes now_ms, even when that is older than ts was.
Written(g) ==
    [tokens |-> Refilled(lag[g]) - (IF Allowed(g) THEN Token ELSE 0),
     age    |-> lag[g],
     ttl    |-> Expiry]

\* The hash is written.
Write(g) ==
    /\ bucket' = Written(g)
    /\ turnedBack' = (turnedBack \/ (bucket # None /\ lag[g] > bucket.age))

Return(g) ==
    /\ pc' = [pc EXCEPT ![g] = "idle"]
    /\ lag' = [lag EXCEPT ![g] = 0]

\* The ideal bucket after one more admission.
Charged == IF credit < Token THEN -1 ELSE credit - Token

\* The script runs and its reply arrives: Allow returns true or false.
Script(g) ==
    /\ pc[g] = "sent"
    /\ Write(g)
    /\ credit' = IF Allowed(g) THEN Charged ELSE credit
    /\ Return(g)
    /\ UNCHANGED repeated

\* The script runs and its reply is lost: the client will repeat the call, or
\* has given up and returned an error.
ReplyLost(g) ==
    /\ pc[g] = "sent"
    /\ Write(g)
    /\ Return(g) \/ UNCHANGED <<pc, lag>>
    /\ repeated' = TRUE
    /\ UNCHANGED credit

\* The call never reaches Redis: an error.  RateLimit lets the request pass,
\* outside of the limit.
SendFails(g) ==
    /\ pc[g] = "sent"
    /\ Return(g)
    /\ UNCHANGED <<bucket, credit, repeated, turnedBack>>

\* A tick later, PEXPIRE included.
Older ==
    IF bucket = None \/ bucket.ttl = 1 THEN None
    ELSE [bucket EXCEPT !.age = @ + 1, !.ttl = @ - 1]

Tick ==
    /\ \A g \in Gateways : pc[g] = "sent" => lag[g] + Skew[g] < MaxDelay
    /\ bucket' = Older
    /\ lag' = [g \in Gateways |-> IF pc[g] = "sent" THEN lag[g] + 1 ELSE 0]
    /\ credit' = IF credit < 0 THEN credit ELSE AtMost(credit + Rate, Allowance)
    /\ UNCHANGED <<pc, repeated, turnedBack>>

Next ==
    \/ \E g \in Gateways : Send(g) \/ Script(g) \/ ReplyLost(g) \/ SendFails(g)
    \/ Tick

Spec == Init /\ [][Next]_vars

----------------------------------------------------------------------------

\* "multiple gateway processes share one token bucket per key": all that the
\* script admits fits into one bucket, lateness of single calls allowed for,
\* unless ts was turned back by calls that overtook one another or were stamped
\* by clocks that differ: the time in between then counts twice.  This needs
\* delay and skew within the one second a key outlives its refill: a call later
\* than that may meet no key, and starts a full bucket in the past.
OnlyTurningBackOverAdmits == credit < 0 => turnedBack

\* Nor is anyone refused who would find a token in that bucket: the hash, read
\* now, or its absence after PEXPIRE, amounts to the ideal bucket but for what
\* stamps are off, and exactly with one clock and no delay.
BucketExact == ~repeated /\ ~turnedBack => credit - Refilled(0) \in 0..(2 * Slack)
=============================================================================
