------------------------------ MODULE Upstream ------------------------------
(***************************************************************************)
(* upstream/orders/main.go and upstream/catalog/main.go: one program but   *)
(* for the routes.  A service opens its connection pool and warms it,      *)
(* serves requests that share the pool's connections, and drains on        *)
(* SIGTERM.  database/sql's pool and the database are external; what the   *)
(* answers say is left out.                                                *)
(***************************************************************************)
EXTENDS Integers, FiniteSets

CONSTANTS
    Requests,   \* requests that may be in the service at once
    Routes,     \* catalog: "list" and "get"; orders: "list" and "create"
    Limits      \* values of DB_MAX_CONNS: negative, zero (no limit), positive

VARIABLES
    maxConns,   \* DB_MAX_CONNS
    life,       \* "opening", "warming", "serving", "draining" or "exited"
    warm,       \* connections warmPool holds
    open,       \* connections open ...
    free,       \* ... and those of them idle in the pool
    route,      \* per request: the handler it reached
    stage       \* per request, see Stages

vars == <<maxConns, life, warm, open, free, route, stage>>
pool == <<open, free>>

Stages == {"none", "arrived", "waiting", "query", "rows", "closing", "done"}

TypeOK ==
    /\ maxConns \in Limits
    /\ life \in {"opening", "warming", "serving", "draining", "exited"}
    /\ {warm, open, free} \subseteq Nat
    /\ route \in [Requests -> Routes]
    /\ stage \in [Requests -> Stages]

AnyRoute == CHOOSE x \in Routes : TRUE

Init ==
    /\ maxConns \in Limits
    /\ life = "opening"
    /\ warm = 0 /\ open = 0 /\ free = 0
    /\ route = [r \in Requests |-> AnyRoute]
    /\ stage = [r \in Requests |-> "none"]

----------------------------------------------------------------------------

\* The process ends: its connections break, its requests with them.
Exit ==
    /\ life' = "exited"
    /\ warm' = 0 /\ open' = 0 /\ free' = 0
    /\ route' = [r \in Requests |-> AnyRoute]
    /\ stage' = [r \in Requests |-> "none"]
    /\ UNCHANGED maxConns

\* openDB: the environment is read and the pool made, without a connection; a
\* negative limit makes warmPool's make panic.
OpenDB ==
    /\ life = "opening"
    /\ maxConns >= 0
    /\ life' = "warming"
    /\ UNCHANGED <<maxConns, warm, pool, route, stage>>

\* The environment is invalid, or the limit negative.
OpenFails == life = "opening" /\ Exit

\* Slip: a connection goes back to the pool before the next is asked for.
WarmTakeAndClose ==
    /\ life = "warming"
    /\ warm < maxConns
    /\ warm' = warm + 1
    /\ open' = 1 /\ free' = 1
    /\ UNCHANGED <<maxConns, life, route, stage>>

\* warmPool: db.Conn opens a connection, since none is idle; warmPool keeps it.
WarmTake ==
    /\ life = "warming"
    /\ warm < maxConns
    /\ warm' = warm + 1
    /\ open' = open + 1
    /\ UNCHANGED <<maxConns, life, free, route, stage>>

\* db.Conn fails, or thirty seconds are over: all is closed, os.Exit(1).
WarmFails == life = "warming" /\ warm < maxConns /\ Exit

\* warmPool returns and with it closes its connections, which makes them idle;
\* the service listens.
WarmDone ==
    /\ life = "warming"
    /\ warm = maxConns
    /\ free' = open
    /\ warm' = 0
    /\ life' = "serving"
    /\ UNCHANGED <<maxConns, open, route, stage>>

----------------------------------------------------------------------------

At(r, from, to) == stage[r] = from /\ stage' = [stage EXCEPT ![r] = to]

Handled == UNCHANGED <<maxConns, life, warm, route>>

\* The mux calls the handler of a route.
Arrive(r, x) ==
    /\ life = "serving"
    /\ At(r, "none", "arrived")
    /\ route' = [route EXCEPT ![r] = x]
    /\ UNCHANGED <<maxConns, life, warm, pool>>

\* POST with a payload that does not decode or validate: 400.
RefusePayload(r) ==
    /\ route[r] = "create"
    /\ At(r, "arrived", "done")
    /\ UNCHANGED pool /\ Handled

\* QueryContext or QueryRowContext asks the pool for a connection ...
Ask(r) ==
    /\ At(r, "arrived", "waiting")
    /\ UNCHANGED pool /\ Handled

\* ... gets an idle one, or a new one if the limit allows ...
TakeConn(r) ==
    /\ At(r, "waiting", "query")
    /\ \/ free > 0 /\ free' = free - 1 /\ UNCHANGED open
       \/ free = 0 /\ (maxConns > 0 => open < maxConns) /\ open' = open + 1 /\ UNCHANGED free
    /\ Handled

\* ... or an error: connecting fails or the request's context ends.  500.
AskFails(r) ==
    /\ At(r, "waiting", "done")
    /\ UNCHANGED pool /\ Handled

\* A connection comes back: it is kept idle, or closed because it is broken or
\* has reached its lifetime, and always if the limit on idle ones is zero.
Release ==
    \/ maxConns > 0 /\ free' = free + 1 /\ UNCHANGED open
    \/ open' = open - 1 /\ UNCHANGED free

\* QueryRow(...).Scan: the one row, no row or an error; Scan closes the rows
\* before the handler answers.
ScanRow(r) ==
    /\ route[r] \in {"get", "create"}
    /\ At(r, "query", "done")
    /\ Release /\ Handled

\* The query of a list fails (500) or gives rows, which keep the connection.
QueryFails(r) ==
    /\ route[r] = "list"
    /\ At(r, "query", "done")
    /\ Release /\ Handled

QueryRows(r) ==
    /\ route[r] = "list"
    /\ At(r, "query", "rows")
    /\ UNCHANGED pool /\ Handled

\* rows.Next comes to the end, or to an error: the rows close themselves.
RowsEnd(r) ==
    /\ At(r, "rows", "done")
    /\ Release /\ Handled

\* A row does not scan: the handler answers 500 and leaves the rest unread ...
ScanFails(r) ==
    /\ At(r, "rows", "closing")
    /\ UNCHANGED pool /\ Handled

\* Slip: rows.Close is not deferred.
CloseMissing(r) ==
    /\ At(r, "closing", "done")
    /\ UNCHANGED pool /\ Handled

\* ... for the deferred rows.Close.
CloseRows(r) ==
    /\ At(r, "closing", "done")
    /\ Release /\ Handled

\* The answer is out.
Leave(r) ==
    /\ At(r, "done", "none")
    /\ route' = [route EXCEPT ![r] = AnyRoute]
    /\ UNCHANGED <<maxConns, life, warm, pool>>

\* The pool closes an idle connection that has reached its lifetime.
Expire ==
    /\ life \in {"serving", "draining"}
    /\ free > 0
    /\ free' = free - 1
    /\ open' = open - 1
    /\ UNCHANGED <<maxConns, life, warm, route, stage>>

\* SIGTERM: before signal.NotifyContext it kills, later it closes the listeners.
Killed == life \in {"opening", "warming"} /\ Exit

Shutdown ==
    /\ life = "serving"
    /\ life' = "draining"
    /\ UNCHANGED <<maxConns, warm, pool, route, stage>>

\* Shutdown returns, after five seconds at the latest, and main closes the pool.
Drained == life = "draining" /\ Exit

\* ListenAndServe fails: os.Exit(1).
ListenFails == life = "serving" /\ Exit

Handle(r) ==
    \/ RefusePayload(r) \/ Ask(r) \/ TakeConn(r) \/ AskFails(r)
    \/ ScanRow(r) \/ QueryFails(r) \/ QueryRows(r)
    \/ RowsEnd(r) \/ ScanFails(r) \/ CloseRows(r)

Boot == OpenDB \/ OpenFails \/ WarmTake \/ WarmFails \/ WarmDone

End == Killed \/ Shutdown \/ Drained \/ ListenFails

Next ==
    \/ Boot \/ Expire \/ End
    \/ \E r \in Requests : Handle(r) \/ Leave(r) \/ \E x \in Routes : Arrive(r, x)

----------------------------------------------------------------------------

\* "holds them briefly so they all stay in the idle pool": when the service begins
\* to serve, as many connections as the pool may have are open and idle.
WarmedPool == [][life' = "serving" /\ life # "serving" => open' = maxConns /\ free' = maxConns]_vars

\* No handler keeps a connection it has done with, on any path through it: whoever
\* waits for one gets it, or an error, however small the pool.
PoolServes == \A r \in Requests : stage[r] = "waiting" ~> stage[r] # "waiting"
=============================================================================
