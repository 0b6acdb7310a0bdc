------------------------- MODULE RoundRobinHistory -------------------------
(***************************************************************************)
(* RoundRobin with two history variables, which no action reads: they let  *)
(* the result of a call of Next be judged by what happened during it.      *)
(***************************************************************************)
EXTENDS RoundRobin

VARIABLES
    alive,   \* per call: the URLs healthy ever since it began
    alone    \* per call: its tickets have followed one another in the order of
             \* urls, no other call having taken one between two of them

historyVars == <<vars, alive, alone>>

HistoryTypeOK ==
    /\ TypeOK
    /\ alive \in [Callers -> SUBSET Urls]
    /\ alone \in [Callers -> BOOLEAN]

HistoryInit ==
    /\ Init
    /\ alive = [c \in Callers |-> {}]
    /\ alone = [c \in Callers |-> TRUE]

Reset(c, urlSet) ==
    /\ alive' = [alive EXCEPT ![c] = urlSet]
    /\ alone' = [alone EXCEPT ![c] = TRUE]

HistoryBegin(c) == Begin(c) /\ Reset(c, {u \in Urls : healthy[u]})

\* The order of urls goes on where the counter wraps.
WrapsEvenly == CounterSize % Len(urls) = 0

\* The call has not taken its first ticket.
NoTicketYet(c) == pc[c] = "idle" \/ (pc[c] = "ticket" /\ tries[c] = 0)

HistoryTicket(c) ==
    /\ Ticket(c)
    /\ alone' = [d \in Callers |->
                    alone[d] /\ IF d = c THEN counter' # 0 \/ WrapsEvenly ELSE NoTicketYet(d)]
    /\ UNCHANGED alive

HistoryLook(c) == Look(c) /\ UNCHANGED <<alive, alone>>

HistoryConsume(c) == Consume(c) /\ Reset(c, {})

\* A verdict is stored while calls are under way.
Recheck == alive' = [c \in Callers |-> {u \in alive[c] : healthy'[u]}]

HistorySetHealth(u) == SetHealth(u) /\ Recheck /\ UNCHANGED alone

HistoryNext ==
    \/ \E c \in Callers :
          HistoryBegin(c) \/ HistoryTicket(c) \/ HistoryLook(c) \/ HistoryConsume(c)
    \/ \E u \in Urls : HistorySetHealth(u)

HistorySpec == HistoryInit /\ [][HistoryNext]_historyVars

\* A goroutine inside Next is never blocked, so the scheduler runs it.
FairHistorySpec ==
    HistorySpec /\ \A c \in Callers : WF_historyVars(HistoryTicket(c) \/ HistoryLook(c))

----------------------------------------------------------------------------

Failed(c) == pc[c] = "done" /\ pick[c] = NoHealthy

\* "ErrNoHealthyUpstreams is returned when all backends are unhealthy": no
\* backend has been healthy throughout a call of Next that returns it.
ErrorMeansAllDown == \A c \in Callers : Failed(c) => alive[c] = {}

\* What the shared counter leaves of that under contention: a call of Next that
\* fails although some backend was healthy all along lost tickets to another, or
\* was under way when the counter wrapped in the middle of urls.
UncontendedErrorMeansAllDown ==
    \A c \in Callers : Failed(c) /\ alone[c] => alive[c] = {}
=============================================================================
