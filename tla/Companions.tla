----------------------------- MODULE Companions -----------------------------
(***************************************************************************)
(* The programs that come with the gateway, an example service and the     *)
(* load test.  They meet only through HTTP, and each takes the other side  *)
(* of it for a peer that may send, answer or fail at any time; a behaviour *)
(* of this module is a behaviour of one of them.                           *)
(***************************************************************************)
EXTENDS Integers, FiniteSets

CONSTANTS
    Requests, Routes, Limits,   \* see Upstream
    Users, MaxPending           \* see UserFlow

ASSUME CompanionsAssumption == IsFiniteSet(Requests) /\ Limits \subseteq Int

VARIABLES
    subject,                                                     \* which of the two
    maxConns, life, warm, open, free, route, stage,              \* Upstream
    testCtx, step, call, stats, mu, at, snap, owed, missed       \* UserFlow

serviceVars    == <<maxConns, life, warm, open, free, route, stage>>
testVars       == <<testCtx, step, call, stats, mu, at, snap, owed, missed>>
companionsVars == <<subject, serviceVars, testVars>>

US == INSTANCE Upstream
UF == INSTANCE UserFlow WITH ctx <- testCtx

CompanionsInit == subject \in {"service", "test"} /\ US!Init /\ UF!Init

Serves(action) == subject = "service" /\ action /\ UNCHANGED <<subject, testVars>>
Tests(action) == subject = "test" /\ action /\ UNCHANGED <<subject, serviceVars>>

CompanionsNext == Serves(US!Next) \/ Tests(UF!Next)

CompanionsSpec == CompanionsInit /\ [][CompanionsNext]_companionsVars

\* The handlers go on and the database answers them; a connection that keeps
\* coming back to the pool reaches everyone who waits, since the pool chooses
\* among them at random.
FairCompanionsSpec ==
    /\ CompanionsSpec
    /\ \A r \in Requests :
          /\ WF_companionsVars(Serves(\/ US!ScanRow(r) \/ US!QueryRows(r)
                                      \/ US!RowsEnd(r) \/ US!CloseRows(r)))
          /\ SF_companionsVars(Serves(US!TakeConn(r)))

----------------------------------------------------------------------------

\* The service's pool is warm when the service starts to listen (warmPool).
WarmedPool == US!WarmedPool

\* No handler of the service, on any path, keeps a connection from those who wait
\* for one (rows.Close).
PoolServes == US!PoolServes

\* The load test loses no response between record and snapshot, and reports none
\* twice.
SamplesConserved == UF!SamplesConserved

\* So it would each error, did recordError not go past the mutex.
ErrorsConserved == UF!ErrorsConserved

\* Nor does the load test print all it has: the reporter's last snapshot may go
\* unprinted when main returns.
AllPrinted == UF!AllPrinted
=============================================================================
