----------------------------- MODULE RoundRobin -----------------------------
(***************************************************************************)
(* internal/loadbalancer/roundrobin.go: concurrent calls of Next share one *)
(* atomic counter.  An attempt of a call takes a ticket off the counter,   *)
(* and asks IsHealthy about the ticket's URL in a later step: other calls  *)
(* take tickets, and the health checker writes, in between.                *)
(***************************************************************************)
EXTENDS Naturals, Sequences, Functions

CONSTANTS
    Callers,       \* goroutines that may be inside Next at once
    urls,          \* the backends, in configuration order
    CounterSize,   \* the counter wraps here; 2^64 in the code
    NoHealthy      \* ErrNoHealthyUpstreams

Urls == Range(urls)

\* validateServices demands at least one upstream.
ASSUME RoundRobinAssumption ==
    /\ urls \in Seq(Urls)
    /\ Len(urls) > 0
    /\ NoHealthy \notin Urls
    /\ CounterSize \in Nat \ {0}

VARIABLES
    healthy,   \* what IsHealthy answers, per URL
    counter,   \* the atomic counter
    pc,        \* per call: "idle", "ticket", "look" or "done"
    tries,     \* per call: attempts made, the loop variable
    pick       \* per call: the URL of its ticket; its result when "done"

vars == <<healthy, counter, pc, tries, pick>>

TypeOK ==
    /\ healthy \in [Urls -> BOOLEAN]
    /\ counter \in 0..(CounterSize - 1)
    /\ pc \in [Callers -> {"idle", "ticket", "look", "done"}]
    /\ tries \in [Callers -> 0..(Len(urls) - 1)]
    /\ pick \in [Callers -> Urls \cup {NoHealthy}]

InitCalls ==
    /\ counter = 0
    /\ pc = [c \in Callers |-> "idle"]
    /\ tries = [c \in Callers |-> 0]
    /\ pick = [c \in Callers |-> NoHealthy]

Init == healthy \in [Urls -> BOOLEAN] /\ InitCalls

----------------------------------------------------------------------------

\* Next is called.
Begin(c) ==
    /\ pc[c] = "idle"
    /\ pc' = [pc EXCEPT ![c] = "ticket"]
    /\ tries' = [tries EXCEPT ![c] = 0]
    /\ UNCHANGED <<healthy, counter, pick>>

\* i := counter.Add(1) - 1; url := urls[i % len(urls)]
Ticket(c) ==
    /\ pc[c] = "ticket"
    /\ counter' = (counter + 1) % CounterSize
    /\ pick' = [pick EXCEPT ![c] = urls[(counter % Len(urls)) + 1]]
    /\ pc' = [pc EXCEPT ![c] = "look"]
    /\ UNCHANGED <<healthy, tries>>

Return(c, result) ==
    /\ pc' = [pc EXCEPT ![c] = "done"]
    /\ pick' = [pick EXCEPT ![c] = result]
    /\ tries' = [tries EXCEPT ![c] = 0]

\* Slip: the loop stops one attempt early.
LastTryEarly(c) == tries[c] + 2 >= Len(urls)

LastTry(c) == tries[c] + 1 >= Len(urls)

\* Slip: the loop goes on until it meets a healthy backend.
LookForever(c) ==
    /\ pc[c] = "look"
    /\ \/ healthy[pick[c]] /\ Return(c, pick[c])
       \/ /\ ~healthy[pick[c]]
          /\ pc' = [pc EXCEPT ![c] = "ticket"]
          /\ UNCHANGED <<tries, pick>>
    /\ UNCHANGED <<healthy, counter>>

\* IsHealthy(url), and the end of the loop body.
Look(c) ==
    /\ pc[c] = "look"
    /\ \/ healthy[pick[c]] /\ Return(c, pick[c])
       \/ ~healthy[pick[c]] /\ LastTry(c) /\ Return(c, NoHealthy)
       \/ /\ ~healthy[pick[c]] /\ ~LastTry(c)
          /\ tries' = [tries EXCEPT ![c] = @ + 1]
          /\ pc' = [pc EXCEPT ![c] = "ticket"]
          /\ UNCHANGED pick
    /\ UNCHANGED <<healthy, counter>>

\* The caller has used the result; the call's variables are gone.
Consume(c) ==
    /\ pc[c] = "done"
    /\ pc' = [pc EXCEPT ![c] = "idle"]
    /\ pick' = [pick EXCEPT ![c] = NoHealthy]
    /\ UNCHANGED <<healthy, counter, tries>>

\* The health checker stores a new status.
SetHealth(u) ==
    /\ healthy' = [healthy EXCEPT ![u] = ~@]
    /\ UNCHANGED <<counter, pc, tries, pick>>

Step(c) == Begin(c) \/ Ticket(c) \/ Look(c) \/ Consume(c)

Next == (\E c \in Callers : Step(c)) \/ (\E u \in Urls : SetHealth(u))

Spec == Init /\ [][Next]_vars

----------------------------------------------------------------------------

\* Next is wait-free: it returns after len(urls) attempts at most, whatever
\* other callers and the health checker do.
NextReturns == \A c \in Callers : pc[c] = "ticket" ~> pc[c] = "done"
=============================================================================
