------------------------------ MODULE UserFlow ------------------------------
(***************************************************************************)
(* loadtest/scenarios/user_flow.go: simulated users browse, view and order *)
(* in a loop until the test's context expires, and record what they see in *)
(* shared statistics, which the reporter, and main at the end, take and    *)
(* print.  Latencies and codes come to a number of samples.                *)
(***************************************************************************)
EXTENDS Integers, FiniteSets

CONSTANTS
    Users,
    MaxPending   \* requests sent in one interval                    (bound)

Printers == {"reporter", "main"}
Nobody   == "nobody"

VARIABLES
    ctx,       \* "live" or "expired"
    step,      \* per user: where runUser is, see Steps
    call,      \* per user: doReq is "off", has "asked", or has "got" a response
    stats,     \* samples and errors since the last snapshot
    mu,        \* who holds the mutex over a step
    at,        \* per printer: "wait", "taken", "print" or "gone"
    snap,      \* per printer: the samples and errors snapshot returned
    owed,      \* samples recorded and not printed                 (history)
    missed     \* a snapshot has dropped an error                  (history)

userVars   == <<step, call>>
reportVars == <<mu, at, snap, missed>>
vars == <<ctx, userVars, stats, reportVars, owed>>

Steps  == {"head", "list", "get", "create", "think", "gone"}
Tally  == [samples: Nat, errors: Nat]
Zero   == [samples |-> 0, errors |-> 0]
After  == [list |-> "get", get |-> "create", create |-> "think"]

TypeOK ==
    /\ ctx \in {"live", "expired"}
    /\ step \in [Users -> Steps]
    /\ call \in [Users -> {"off", "asked", "got"}]
    /\ stats \in Tally
    /\ mu \in Printers \cup {Nobody}
    /\ at \in [Printers -> {"wait", "taken", "print", "gone"}]
    /\ snap \in [Printers -> Tally]
    /\ owed \in Nat
    /\ missed \in BOOLEAN

Init ==
    /\ ctx = "live"
    /\ step = [u \in Users |-> "head"]
    /\ call = [u \in Users |-> "off"]
    /\ stats = Zero
    /\ mu = Nobody
    /\ at = [p \in Printers |-> "wait"]
    /\ snap = [p \in Printers |-> Zero]
    /\ owed = 0
    /\ missed = FALSE

Running == at["main"] # "gone"

----------------------------------------------------------------------------

\* -duration is over.
Expire ==
    /\ Running
    /\ ctx = "live"
    /\ ctx' = "expired"
    /\ UNCHANGED <<userVars, stats, reportVars, owed>>

To(u, s) == step' = [step EXCEPT ![u] = s]

\* The head of runUser's loop, and the think time at its end.
Loop(u) ==
    /\ Running
    /\ \/ step[u] = "head" /\ To(u, IF ctx = "live" THEN "list" ELSE "gone")
       \/ step[u] = "think" /\ To(u, "head")
       \/ step[u] = "think" /\ ctx = "expired" /\ To(u, "gone")
    /\ UNCHANGED <<ctx, call, stats, reportVars, owed>>

\* Requests of this interval, those under way included.
Pending == stats.samples + stats.errors + Cardinality({u \in Users : call[u] # "off"})

\* doReq: client.Do sends the request ...
Send(u) ==
    /\ Running
    /\ step[u] \in DOMAIN After
    /\ call[u] = "off"
    /\ ctx = "live"
    /\ Pending < MaxPending
    /\ call' = [call EXCEPT ![u] = "asked"]
    /\ UNCHANGED <<ctx, step, stats, reportVars, owed>>

\* ... and gives a response, whose body is read ...
Got(u) ==
    /\ Running
    /\ call[u] = "asked"
    /\ call' = [call EXCEPT ![u] = "got"]
    /\ UNCHANGED <<ctx, step, stats, reportVars, owed>>

Return(u) ==
    /\ To(u, After[step[u]])
    /\ call' = [call EXCEPT ![u] = "off"]

Counted(tally, field) == [tally EXCEPT ![field] = @ + 1]

\* ... and which record counts, with the mutex held ...
Record(u) ==
    /\ Running
    /\ call[u] = "got"
    /\ mu = Nobody
    /\ stats' = Counted(stats, "samples")
    /\ owed' = owed + 1
    /\ Return(u)
    /\ UNCHANGED <<ctx, reportVars>>

\* ... or an error, within ten seconds: recordError counts it, without the mutex,
\* unless the test is over.  client.Do sends nothing once the context has expired.
Fail(u) ==
    /\ Running
    /\ \/ call[u] = "asked"
       \/ call[u] = "off" /\ step[u] \in DOMAIN After /\ ctx = "expired"
    /\ stats' = IF ctx = "live" THEN Counted(stats, "errors") ELSE stats
    /\ Return(u)
    /\ UNCHANGED <<ctx, reportVars, owed>>

----------------------------------------------------------------------------

Printer(p, s) == at' = [at EXCEPT ![p] = s]

\* The reporter calls printInterval on a tick of its ticker, main when wg.Wait
\* has returned.
Due(p) == p = "main" => \A u \in Users : step[u] = "gone"

\* Slip: snapshot takes the mutex for the reset only.
TakeUnlocked(p) ==
    /\ Running
    /\ at[p] = "wait" /\ Due(p)
    /\ mu = Nobody
    /\ snap' = [snap EXCEPT ![p] = stats]
    /\ Printer(p, "taken")
    /\ UNCHANGED <<ctx, userVars, stats, mu, missed, owed>>

\* snapshot: under the mutex the statistics are copied ...
Take(p) ==
    /\ Running
    /\ at[p] = "wait" /\ Due(p)
    /\ mu = Nobody
    /\ mu' = p
    /\ snap' = [snap EXCEPT ![p] = stats]
    /\ Printer(p, "taken")
    /\ UNCHANGED <<ctx, userVars, stats, missed, owed>>

\* ... and reset.
Reset(p) ==
    /\ Running
    /\ at[p] = "taken"
    /\ stats' = Zero
    /\ mu' = Nobody
    /\ Printer(p, "print")
    /\ missed' = (missed \/ stats.errors > snap[p].errors)
    /\ UNCHANGED <<ctx, userVars, snap, owed>>

\* printInterval prints what snapshot returned; main returns after that, and the
\* process ends.
PrintInterval(p) ==
    /\ Running
    /\ at[p] = "print"
    /\ owed' = owed - snap[p].samples
    /\ snap' = [snap EXCEPT ![p] = Zero]
    /\ Printer(p, IF p = "main" THEN "gone" ELSE "wait")
    /\ UNCHANGED <<ctx, userVars, stats, mu, missed>>

\* reportLoop returns.
StopReporting ==
    /\ Running
    /\ at["reporter"] = "wait"
    /\ ctx = "expired"
    /\ Printer("reporter", "gone")
    /\ UNCHANGED <<ctx, userVars, stats, mu, snap, missed, owed>>

Report(p) == Take(p) \/ Reset(p) \/ PrintInterval(p)

User(u) == Loop(u) \/ Send(u) \/ Got(u) \/ Record(u) \/ Fail(u)

Next == Expire \/ StopReporting \/ (\E u \in Users : User(u)) \/ \E p \in Printers : Report(p)

----------------------------------------------------------------------------

\* What p has taken out of the statistics and not printed.
InHand(p) == IF at[p] = "print" THEN snap[p].samples ELSE 0

\* "returns a copy of the current stats and resets them for the next interval":
\* every response a user records stays in the statistics until one snapshot takes
\* it, and none takes it twice, whoever takes the snapshots and however they fall
\* between the users' records.  What is in a snapshot when main returns may go
\* unprinted (AllPrinted).
SamplesConserved == owed = stats.samples + InHand("reporter") + InHand("main")

\* The same of the errors, which recordError counts without the mutex.
ErrorsConserved == ~missed

\* When the test has ended, all its samples have been printed.
AllPrinted == ~Running => owed = 0
=============================================================================
