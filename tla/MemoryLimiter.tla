--------------------------- MODULE MemoryLimiter ---------------------------
(***************************************************************************)
(* internal/ratelimit/limiter.go for one key; keys share nothing.  Allow   *)
(* is several accesses to the sync.Map and one to the key's rate.Limiter,  *)
(* and cleanup runs beside it: Range hands its callback a value and the    *)
(* callback deletes the key in a later step.                               *)
(*                                                                         *)
(* golang.org/x/time/rate is external: a Limiter is a bucket of up to      *)
(* Burst tokens that gains Rate tokens per tick; Allow takes one.          *)
(***************************************************************************)
EXTENDS Integers

CONSTANTS
    Callers,    \* requests with this key that may be in Allow at once
    Limiters,   \* identities of rate.Limiter objects
    Rate, Burst,
    MaxIdle,    \* cleanupMaxIdle, in ticks
    None

VARIABLES
    entry,    \* the key's entry in the map: limiter and time since lastSeen
    tokens,   \* per limiter: what is in its bucket
    pc,       \* per caller: "idle", "refresh", "insert" or "take"
    held,     \* per caller: the limiter it has read from the map
    sweep,    \* cleanup's callback has decided to delete the key
    credit,   \* tokens of one ideal bucket charged for every admitted
              \* request; -1 for good once it is overdrawn        (history)
    raced,    \* a deletion hit a limiter in use                 (history)
    forgave   \* a deletion hit a bucket not yet full            (history)

vars == <<entry, tokens, pc, held, sweep, credit, raced, forgave>>

Entries == [limiter: Limiters, idle: 0..(MaxIdle + 1)]

\* Nothing relates the idle time to the time a full refill takes: validate only
\* asks for a positive rate and burst.
MemoryAssumption ==
    /\ Rate \in Nat \ {0}
    /\ Burst \in Nat \ {0}
    /\ MaxIdle \in Nat
    /\ None \notin Limiters
    /\ \A e \in Entries : e # None

TypeOK ==
    /\ entry \in Entries \cup {None}
    /\ tokens \in [Limiters -> 0..Burst]
    /\ pc \in [Callers -> {"idle", "refresh", "insert", "take"}]
    /\ held \in [Callers -> Limiters \cup {None}]
    /\ sweep \in BOOLEAN
    /\ credit \in -1..Burst
    /\ raced \in BOOLEAN
    /\ forgave \in BOOLEAN

Init ==
    /\ entry = None
    /\ tokens = [l \in Limiters |-> Burst]
    /\ pc = [c \in Callers |-> "idle"]
    /\ held = [c \in Callers |-> None]
    /\ sweep = FALSE
    /\ credit = Burst
    /\ raced = FALSE
    /\ forgave = FALSE

----------------------------------------------------------------------------

Present == entry # None

Goto(c, label, limiter) ==
    /\ pc' = [pc EXCEPT ![c] = label]
    /\ held' = [held EXCEPT ![c] = limiter]

\* ml.entries.Load(key)
Load(c) ==
    /\ pc[c] = "idle"
    /\ \/ Present /\ Goto(c, "refresh", entry.limiter)
       \/ ~Present /\ Goto(c, "insert", None)
    /\ UNCHANGED <<entry, tokens, sweep, credit, raced, forgave>>

\* Fast path: the entry is replaced by a younger one with the same limiter,
\* whatever has become of the key since Load.
Refresh(c) ==
    /\ pc[c] = "refresh"
    /\ entry' = [limiter |-> held[c], idle |-> 0]
    /\ Goto(c, "take", held[c])
    /\ UNCHANGED <<tokens, sweep, credit, raced, forgave>>

\* A limiter that nothing refers to, as NewLimiter returns.
Fresh == {l \in Limiters : /\ \A c \in Callers : held[c] # l
                           /\ Present => entry.limiter # l}

Insert(c, l) ==
    /\ entry' = [limiter |-> l, idle |-> 0]
    /\ tokens' = [tokens EXCEPT ![l] = Burst]
    /\ Goto(c, "take", l)

\* Slip: Store in place of LoadOrStore.
StoreNew(c) ==
    /\ pc[c] = "insert"
    /\ \E l \in Fresh : Insert(c, l)
    /\ UNCHANGED <<sweep, credit, raced, forgave>>

\* Slow path: LoadOrStore inserts a full limiter, or finds the one of a faster
\* caller, and then leaves its lastSeen alone.
LoadOrStore(c) ==
    /\ pc[c] = "insert"
    /\ \/ Present /\ Goto(c, "take", entry.limiter) /\ UNCHANGED <<entry, tokens>>
       \/ ~Present /\ \E l \in Fresh : Insert(c, l)
    /\ UNCHANGED <<sweep, credit, raced, forgave>>

\* limiter.Allow()
Take(c) ==
    /\ pc[c] = "take"
    /\ \/ /\ tokens[held[c]] > 0
          /\ tokens' = [tokens EXCEPT ![held[c]] = @ - 1]
          /\ credit' = IF credit < 0 THEN credit ELSE credit - 1
       \/ tokens[held[c]] = 0 /\ UNCHANGED <<tokens, credit>>
    /\ Goto(c, "idle", None)
    /\ UNCHANGED <<entry, sweep, raced, forgave>>

\* Slip: entries as old as the limit are never reached.
InspectNever ==
    /\ ~sweep /\ Present
    /\ entry.idle > MaxIdle + 1
    /\ sweep' = TRUE
    /\ UNCHANGED <<entry, tokens, pc, held, credit, raced, forgave>>

\* cleanup's callback is called with the entry, and it is stale ...
Inspect ==
    /\ ~sweep /\ Present
    /\ entry.idle > MaxIdle
    /\ sweep' = TRUE
    /\ UNCHANGED <<entry, tokens, pc, held, credit, raced, forgave>>

InUse == \E c \in Callers : held[c] # None

\* ... ml.entries.Delete(key), whatever the map holds by now.
Delete ==
    /\ sweep
    /\ sweep' = FALSE
    /\ entry' = None
    /\ raced' = (raced \/ InUse \/ (Present /\ entry.idle <= MaxIdle))
    /\ forgave' = (forgave \/ (Present /\ tokens[entry.limiter] < Burst))
    /\ UNCHANGED <<tokens, pc, held, credit>>

AtMost(n, bound) == IF n > bound THEN bound ELSE n

\* A tick is longer than a call of Allow takes: max idle is minutes.
Tick ==
    /\ \A c \in Callers : pc[c] = "idle"
    /\ tokens' = [l \in Limiters |-> AtMost(tokens[l] + Rate, Burst)]
    /\ credit' = IF credit < 0 THEN credit ELSE AtMost(credit + Rate, Burst)
    /\ entry' = IF Present THEN [entry EXCEPT !.idle = AtMost(@ + 1, MaxIdle + 1)]
                           ELSE entry
    /\ UNCHANGED <<pc, held, sweep, raced, forgave>>

InAllow(c) == Refresh(c) \/ LoadOrStore(c) \/ Take(c)

Next == (\E c \in Callers : Load(c) \/ InAllow(c)) \/ Inspect \/ Delete \/ Tick

Spec == Init /\ [][Next]_vars

----------------------------------------------------------------------------

\* Concurrent callers share one bucket from their first request on, and an idle
\* key comes back with what an ideal bucket would hold, unless a deletion
\* overtook a caller in Allow or came before the bucket was full again.  The
\* latter takes an idle time shorter than a full refill; the default is not.
OnlyDeletionOverAdmits ==
    /\ credit < 0 => raced \/ forgave
    /\ (MaxIdle + 1) * Rate >= Burst => (forgave => raced)

\* A key that is no longer used is eventually forgotten for good, so the map
\* does not grow with every client ever seen.
IdleKeyForgotten ==
    <>[](\A c \in Callers : pc[c] = "idle") => <>[](entry = None)
=============================================================================
