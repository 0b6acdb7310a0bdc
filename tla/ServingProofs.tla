--------------------------- MODULE ServingProofs ---------------------------
(***************************************************************************)
(* The safety of the balancer, of the health checker and of the process    *)
(* that joins them, for any upstreams, any requests and any width of the   *)
(* balancer's counter.                                                     *)
(***************************************************************************)
EXTENDS Serving, TLAPS

----------------------------------------------------------------------------
\* Remainders

\* Quotient and remainder of a division.
LEMMA Division ==
    ASSUME NEW n \in Nat, NEW l \in Nat \ {0}
    PROVE  n = l * (n \div l) + (n % l) /\ (n % l) \in 0..(l - 1) /\ (n \div l) \in Nat
  BY SMT

\* Multiples of l less than l apart are the same.
LEMMA CloseMultiples ==
    ASSUME NEW l \in Nat \ {0}, NEW a \in Int, NEW b \in Int, NEW x \in Int,
           l * a - l * b = x, -l < x, x < l
    PROVE  a = b
<1>1. l * (a - b) = x
  OBVIOUS
<1>2. ASSUME a - b >= 1 PROVE l * (a - b) >= l
  BY <1>2
<1>3. ASSUME a - b <= -1 PROVE l * (a - b) <= -l
  BY <1>3
<1> QED
  BY <1>1, <1>2, <1>3

\* A remainder is known by its equation.
LEMMA Remainder ==
    ASSUME NEW l \in Nat \ {0}, NEW d \in Nat, NEW m \in 0..(l - 1), NEW n \in Nat, n = l * d + m
    PROVE  n % l = m
<1> DEFINE e == n \div l
           k == n % l
<1>1. n = l * e + k /\ k \in 0..(l - 1) /\ e \in Nat
  BY Division, Zenon
<1> HIDE DEF e, k
<1> DEFINE p == l * d
           q == l * e
<1>2. p \in Int /\ q \in Int /\ p = l * d /\ q = l * e
  BY <1>1
<1>3. n = p + m /\ n = q + k
  BY <1>1
<1> HIDE DEF p, q
<1>4. p - q = k - m /\ k - m \in Int /\ -l < k - m /\ k - m < l
  BY <1>1, <1>2, <1>3
<1>5. d = e
  BY <1>1, <1>2, <1>4, CloseMultiples
<1> QED
  BY <1>1, <1>2, <1>3, <1>5 DEF k

\* A multiple leaves nothing.
LEMMA Multiple ==
    ASSUME NEW l \in Nat \ {0}, NEW d \in Nat
    PROVE  (l * d) % l = 0 /\ (l * (d + 1)) % l = 0
  BY SMT

\* The remainder of the next number.
LEMMA NextRemainder ==
    ASSUME NEW n \in Nat, NEW l \in Nat \ {0}
    PROVE  (n + 1) % l = IF n % l = l - 1 THEN 0 ELSE (n % l) + 1
<1> DEFINE d == n \div l
           m == n % l
<1>1. n = l * d + m /\ m \in 0..(l - 1) /\ d \in Nat
  BY Division, Zenon
<1> HIDE DEF d, m
<1>2. CASE m = l - 1
  <2>1. (l * (d + 1)) % l = 0
    BY <1>1, Multiple
  <2>2. n + 1 = l * (d + 1)
    BY <1>1, <1>2
  <2> QED
    BY <1>2, <2>1, <2>2 DEF m
<1>3. CASE m # l - 1
  <2>1. n + 1 = l * d + (m + 1) /\ m + 1 \in 0..(l - 1)
    BY <1>1, <1>3
  <2> QED
    BY <1>1, <1>3, <2>1, Remainder DEF m
<1> QED
  BY <1>2, <1>3

----------------------------------------------------------------------------
\* The balancer

\* Where a ticket points, and the i-th place of a turn through urls.
Index(ticket) == (ticket % Len(urls)) + 1
Turn(i) == IF i > Len(urls) THEN i - Len(urls) ELSE i

\* The ticket after the next one points at the next backend.
LEMMA NextIndex ==
    ASSUME NEW n \in 0..(CounterSize - 1), (n + 1) % CounterSize # 0 \/ WrapsEvenly
    PROVE  Index((n + 1) % CounterSize) = Turn(Index(n) + 1)
<1> USE RoundRobinAssumption
<1>0. Len(urls) \in Nat \ {0} /\ n \in Nat
  OBVIOUS
<1>1. (n + 1) % Len(urls) = IF n % Len(urls) = Len(urls) - 1 THEN 0 ELSE (n % Len(urls)) + 1
  BY ONLY <1>0, NextRemainder, Zenon
<1>2. n % Len(urls) \in 0..(Len(urls) - 1)
  BY Division
<1>3. CASE n + 1 < CounterSize
  <2>1. (n + 1) % CounterSize = n + 1
    <3>1. n + 1 = CounterSize * 0 + (n + 1)
      OBVIOUS
    <3> QED
      BY <1>3, <3>1, Remainder
  <2> QED
    BY <1>1, <1>2, <2>1 DEF Index, Turn
<1>4. CASE n + 1 = CounterSize
  <2>1. (n + 1) % CounterSize = 0
    <3>1. n + 1 = CounterSize * 1 + 0
      BY <1>4
    <3> QED
      BY <3>1, Remainder
  <2>2. n % Len(urls) = Len(urls) - 1
    BY <1>1, <1>2, <1>4, <2>1 DEF WrapsEvenly
  <2>3. 0 % Len(urls) = 0
    <3>1. 0 = Len(urls) * 0 + 0
      OBVIOUS
    <3> QED
      BY <3>1, Remainder
  <2> QED
    BY <2>1, <2>2, <2>3 DEF Index, Turn
<1> QED
  BY <1>3, <1>4

\* A call that has been alone since its first ticket, at place first, has looked in
\* vain at the backends from there on, and its next ticket points at the next.
Sweep(c, first) ==
    /\ \A j \in 0..(tries[c] - 1) : urls[Turn(first + j)] \notin alive[c]
    /\ pc[c] = "ticket" /\ tries[c] > 0 => Index(counter) = Turn(first + tries[c])
    /\ pc[c] = "look" => /\ pick[c] = urls[Turn(first + tries[c])]
                         /\ Index(counter) = Turn(Turn(first + tries[c]) + 1)

Rotation ==
    \A c \in Callers : alone[c] /\ pc[c] \in {"ticket", "look"} =>
        \E first \in 1..Len(urls) : Sweep(c, first)

\* What is left of alive is healthy now, and a call fails on what is not.
AliveIsHealthy ==
    /\ \A c \in Callers : \A u \in alive[c] : healthy[u]
    /\ \A c \in Callers : pc[c] = "look" => pick[c] \in Urls
    /\ \A c \in Callers : Failed(c) => alive[c] # Urls

BalancerInv == HistoryTypeOK /\ AliveIsHealthy /\ Rotation /\ UncontendedErrorMeansAllDown

\* Places of urls.
LEMMA Places ==
    /\ Len(urls) \in Nat \ {0} /\ DOMAIN urls = 1..Len(urls)
    /\ \A i \in 1..Len(urls) : urls[i] \in Urls
    /\ \A u \in Urls : \E i \in 1..Len(urls) : urls[i] = u
    /\ \A n \in Nat : Index(n) \in 1..Len(urls)
<1>1. Len(urls) \in Nat \ {0} /\ DOMAIN urls = 1..Len(urls)
  BY RoundRobinAssumption
<1>2. \A n \in Nat : Index(n) \in 1..Len(urls)
  BY <1>1, Division DEF Index
<1> QED
  BY <1>1, <1>2, Zenon DEF Urls, Range

\* A whole turn, from any place, comes to every backend.
LEMMA WholeTurn ==
    ASSUME NEW first \in 1..Len(urls), NEW u \in Urls
    PROVE  \E j \in 0..(Len(urls) - 1) : u = urls[Turn(first + j)]
<1>1. PICK i \in 1..Len(urls) : urls[i] = u
  BY Places
<1> DEFINE j == IF i >= first THEN i - first ELSE i - first + Len(urls)
<1>2. Len(urls) \in Nat
  BY Places
<1>3. j \in 0..(Len(urls) - 1) /\ Turn(first + j) = i
  BY <1>2 DEF Turn
<1> QED
  BY <1>1, <1>3, Zenon

\* No call is under way at first.
LEMMA InitBalancer == HistoryInit => BalancerInv
<1> SUFFICES ASSUME HistoryInit PROVE BalancerInv
  OBVIOUS
<1>0. 0 \in 0..(CounterSize - 1) /\ 0 \in 0..(Len(urls) - 1)
  BY RoundRobinAssumption
<1>1. HistoryTypeOK
  BY <1>0, Zenon DEF HistoryInit, Init, InitCalls, HistoryTypeOK, TypeOK
<1>2. AliveIsHealthy /\ Rotation /\ UncontendedErrorMeansAllDown
  BY DEF HistoryInit, Init, InitCalls, AliveIsHealthy, Rotation, UncontendedErrorMeansAllDown, Failed
<1> QED
  BY <1>1, <1>2 DEF BalancerInv

\* The types.
LEMMA NextHistoryTypeOK ==
    ASSUME HistoryTypeOK, HistoryNext
    PROVE  HistoryTypeOK'
<1> USE DEF HistoryTypeOK, TypeOK
<1>0. Len(urls) \in Nat \ {0}
  BY Places
<1>1. ASSUME NEW c \in Callers, HistoryBegin(c) PROVE HistoryTypeOK'
  BY <1>0, <1>1 DEF HistoryBegin, Begin, Reset
<1>2. ASSUME NEW c \in Callers, HistoryTicket(c) PROVE HistoryTypeOK'
  <2>1. (counter + 1) % CounterSize \in 0..(CounterSize - 1)
    <3>1. counter + 1 \in Nat /\ CounterSize \in Nat \ {0}
      BY RoundRobinAssumption
    <3> QED
      BY ONLY <3>1, Division
  <2>2. Index(counter) \in 1..Len(urls) /\ urls[Index(counter)] \in Urls
    BY Places
  <2>3. alone' \in [Callers -> BOOLEAN]
    BY <1>2, Zenon DEF HistoryTicket
  <2> QED
    BY <1>2, <2>1, <2>2, <2>3 DEF HistoryTicket, Ticket, Index
<1>3. ASSUME NEW c \in Callers, HistoryLook(c) PROVE HistoryTypeOK'
  <2>1. /\ pc' \in [Callers -> {"idle", "ticket", "look", "done"}]
        /\ pick' \in [Callers -> Urls \cup {NoHealthy}]
    BY <1>3, Zenon DEF HistoryLook, Look, Return
  <2>2. tries' \in [Callers -> 0..(Len(urls) - 1)]
    <3>1. CASE tries' = [tries EXCEPT ![c] = 0]
      BY <1>0, <3>1
    <3>2. CASE ~LastTry(c) /\ tries' = [tries EXCEPT ![c] = @ + 1]
      BY <1>0, <3>2 DEF LastTry
    <3> QED
      BY <1>3, <3>1, <3>2 DEF HistoryLook, Look, Return
  <2> QED
    BY <1>3, <2>1, <2>2 DEF HistoryLook, Look
<1>4. ASSUME NEW c \in Callers, HistoryConsume(c) PROVE HistoryTypeOK'
  BY <1>4 DEF HistoryConsume, Consume, Reset
<1>5. ASSUME NEW u \in Urls, HistorySetHealth(u) PROVE HistoryTypeOK'
  BY <1>5 DEF HistorySetHealth, SetHealth, Recheck
<1> QED
  BY <1>1, <1>2, <1>3, <1>4, <1>5 DEF HistoryNext

\* alive loses a backend when it is found unhealthy, and before a call looks.
LEMMA NextAlive ==
    ASSUME HistoryTypeOK, AliveIsHealthy, HistoryNext
    PROVE  AliveIsHealthy'
<1> USE DEF HistoryTypeOK, TypeOK, AliveIsHealthy, Failed
<1>1. ASSUME NEW c \in Callers, HistoryBegin(c) PROVE AliveIsHealthy'
  BY <1>1 DEF HistoryBegin, Begin, Reset
<1>2. ASSUME NEW c \in Callers, HistoryTicket(c) PROVE AliveIsHealthy'
  <2>1. Index(counter) \in 1..Len(urls) /\ urls[Index(counter)] \in Urls
    BY Places
  <2> QED
    BY <1>2, <2>1 DEF HistoryTicket, Ticket, Index
<1>3. ASSUME NEW c \in Callers, HistoryLook(c) PROVE AliveIsHealthy'
  <2>0. NoHealthy \notin Urls
    BY RoundRobinAssumption
  <2>1. UNCHANGED <<healthy, alive>> /\ pick[c] \in Urls
    BY <1>3 DEF HistoryLook, Look
  <2>2. CASE healthy[pick[c]] /\ Return(c, pick[c])
    BY <2>0, <2>1, <2>2 DEF Return
  <2>3. CASE ~healthy[pick[c]] /\ Return(c, NoHealthy)
    BY <2>1, <2>3 DEF Return
  <2>4. CASE pc' = [pc EXCEPT ![c] = "ticket"] /\ UNCHANGED pick
    BY <2>1, <2>4
  <2> QED
    BY <1>3, <2>2, <2>3, <2>4 DEF HistoryLook, Look
<1>4. ASSUME NEW c \in Callers, HistoryConsume(c) PROVE AliveIsHealthy'
  BY <1>4 DEF HistoryConsume, Consume, Reset
<1>5. ASSUME NEW u \in Urls, HistorySetHealth(u) PROVE AliveIsHealthy'
  BY <1>5, Zenon DEF HistorySetHealth, SetHealth, Recheck
<1> QED
  BY <1>1, <1>2, <1>3, <1>4, <1>5 DEF HistoryNext

\* The next ticket of a call, if it is alone, is where its sweep goes on.
LEMMA TicketSweeps ==
    ASSUME BalancerInv, NEW c \in Callers, HistoryTicket(c), alone'[c]
    PROVE  \E first \in 1..Len(urls) : Sweep(c, first)'
<1> USE DEF BalancerInv, HistoryTypeOK, TypeOK
<1>1. /\ pc[c] = "ticket" /\ pc' = [pc EXCEPT ![c] = "look"]
      /\ counter' = (counter + 1) % CounterSize
      /\ pick' = [pick EXCEPT ![c] = urls[Index(counter)]]
      /\ UNCHANGED <<tries, alive>>
      /\ alone[c] /\ (counter' # 0 \/ WrapsEvenly)
  BY Zenon DEF HistoryTicket, Ticket, Index
<1>2. Index(counter') = Turn(Index(counter) + 1)
  BY <1>1, NextIndex
<1>3. Index(counter) \in 1..Len(urls) /\ Len(urls) \in Nat \ {0}
  BY Places
<1>4. CASE tries[c] = 0
  <2>1. Turn(Index(counter) + 0) = Index(counter)
    BY <1>3 DEF Turn
  <2> QED
    BY <1>1, <1>2, <1>3, <1>4, <2>1 DEF Sweep
<1>5. CASE tries[c] > 0
  <2>1. PICK first \in 1..Len(urls) : Sweep(c, first)
    BY <1>1 DEF Rotation
  <2>2. Index(counter) = Turn(first + tries[c])
    BY <1>1, <1>5, <2>1 DEF Sweep
  <2> QED
    BY <1>1, <1>2, <2>1, <2>2 DEF Sweep
<1> QED
  BY <1>4, <1>5

\* A backend found unhealthy adds to the sweep; with the last one it is a whole turn.
LEMMA LookSweeps ==
    ASSUME BalancerInv, NEW c \in Callers, HistoryLook(c), alone[c]
    PROVE  /\ pc'[c] = "ticket" => \E first \in 1..Len(urls) : Sweep(c, first)'
           /\ Failed(c)' => alive'[c] = {}
<1>1. pc[c] = "look" /\ UNCHANGED <<healthy, counter, alive, alone>> /\ pick[c] \in Urls /\ NoHealthy \notin Urls
  BY RoundRobinAssumption DEF HistoryLook, Look, BalancerInv, AliveIsHealthy
<1>2. Len(urls) \in Nat \ {0} /\ tries[c] \in 0..(Len(urls) - 1)
  BY Places DEF BalancerInv, HistoryTypeOK, TypeOK
<1>3. PICK first \in 1..Len(urls) : Sweep(c, first)
  BY <1>1 DEF BalancerInv, Rotation
<1>4. pick[c] = urls[Turn(first + tries[c])] /\ Index(counter) = Turn(Turn(first + tries[c]) + 1)
  BY <1>1, <1>3 DEF Sweep
<1>s. ~healthy[pick[c]] => \A j \in 0..tries[c] : urls[Turn(first + j)] \notin alive[c]
  <2>1. \A j \in 0..(tries[c] - 1) : urls[Turn(first + j)] \notin alive[c]
    BY <1>3 DEF Sweep
  <2>2. ~healthy[pick[c]] => urls[Turn(first + tries[c])] \notin alive[c]
    BY <1>4 DEF BalancerInv, AliveIsHealthy
  <2>3. \A j \in 0..tries[c] : j = tries[c] \/ j \in 0..(tries[c] - 1)
    BY <1>2
  <2> QED
    BY <2>1, <2>2, <2>3
<1>5. CASE healthy[pick[c]] /\ Return(c, pick[c])
  BY <1>1, <1>5 DEF Return, Failed, BalancerInv, HistoryTypeOK, TypeOK
<1>6. CASE ~healthy[pick[c]] /\ LastTry(c) /\ Return(c, NoHealthy)
  <2>1. tries[c] = Len(urls) - 1
    BY <1>2, <1>6 DEF LastTry
  <2>2. alive[c] \subseteq Urls
    BY DEF BalancerInv, HistoryTypeOK
  <2>3. alive[c] = {}
    <3> SUFFICES ASSUME NEW u \in alive[c] PROVE FALSE
      OBVIOUS
    <3>1. PICK j \in 0..(Len(urls) - 1) : u = urls[Turn(first + j)]
      BY <2>2, WholeTurn
    <3> QED
      BY <1>s, <1>6, <2>1, <3>1
  <2> QED
    BY <1>1, <1>6, <2>3 DEF Return, BalancerInv, HistoryTypeOK, TypeOK
<1>7. CASE ~healthy[pick[c]] /\ ~LastTry(c) /\ pc' = [pc EXCEPT ![c] = "ticket"]
           /\ tries' = [tries EXCEPT ![c] = @ + 1]
  <2>1. tries'[c] = tries[c] + 1 /\ pc'[c] = "ticket" /\ tries[c] + 1 < Len(urls)
    BY <1>2, <1>7 DEF LastTry, BalancerInv, HistoryTypeOK, TypeOK
  <2>2. \A j \in 0..(tries'[c] - 1) : urls[Turn(first + j)] \notin alive'[c]
    <3>1. tries'[c] - 1 = tries[c]
      BY <1>2, <2>1
    <3> QED
      BY <1>1, <1>s, <1>7, <3>1
  <2>3. Index(counter') = Turn(first + tries'[c])
    BY <1>1, <1>2, <1>4, <2>1 DEF Turn
  <2>4. Sweep(c, first)'
    BY <2>1, <2>2, <2>3 DEF Sweep
  <2> QED
    BY <2>1, <2>4 DEF Failed
<1> QED
  BY <1>5, <1>6, <1>7 DEF HistoryLook, Look

\* What a step leaves of a call leaves its sweep.
LEMMA SweepKept ==
    ASSUME NEW c \in Callers, NEW first \in 1..Len(urls), Sweep(c, first),
           pc'[c] = pc[c], tries'[c] = tries[c], pick'[c] = pick[c],
           alive'[c] \subseteq alive[c], counter' = counter
    PROVE  Sweep(c, first)'
  BY DEF Sweep

\* Every step of the balancer keeps the sweeps.
LEMMA NextRotation ==
    ASSUME BalancerInv, HistoryNext
    PROVE  Rotation'
<1> SUFFICES ASSUME NEW d \in Callers, alone'[d], pc'[d] \in {"ticket", "look"}
             PROVE  \E first \in 1..Len(urls) : Sweep(d, first)'
  BY DEF Rotation
<1>t. /\ pc \in [Callers -> {"idle", "ticket", "look", "done"}]
      /\ tries \in [Callers -> 0..(Len(urls) - 1)]
      /\ pick \in [Callers -> Urls \cup {NoHealthy}]
      /\ alive \in [Callers -> SUBSET Urls] /\ alone \in [Callers -> BOOLEAN]
      /\ Len(urls) \in Nat \ {0}
  BY Places, Zenon DEF BalancerInv, HistoryTypeOK, TypeOK
<1>k. ASSUME alone[d], pc'[d] = pc[d], tries'[d] = tries[d], pick'[d] = pick[d],
             alive'[d] \subseteq alive[d], counter' = counter
      PROVE  \E first \in 1..Len(urls) : Sweep(d, first)'
  <2>1. PICK first \in 1..Len(urls) : Sweep(d, first)
    BY <1>k DEF BalancerInv, Rotation
  <2> QED
    BY <1>k, <2>1, SweepKept
<1>n. ASSUME pc'[d] = "ticket", tries'[d] = 0
      PROVE  \E first \in 1..Len(urls) : Sweep(d, first)'
  BY <1>n, <1>t DEF Sweep
<1>1. ASSUME NEW c \in Callers, HistoryBegin(c) PROVE \E first \in 1..Len(urls) : Sweep(d, first)'
  <2>1. CASE d = c
    BY <1>1, <1>n, <1>t, <2>1 DEF HistoryBegin, Begin
  <2>2. CASE d # c
    BY <1>1, <1>k, <1>t, <2>2 DEF HistoryBegin, Begin, Reset
  <2> QED
    BY <2>1, <2>2
<1>2. ASSUME NEW c \in Callers, HistoryTicket(c) PROVE \E first \in 1..Len(urls) : Sweep(d, first)'
  <2>1. CASE d = c
    BY <1>2, <2>1, TicketSweeps
  <2>2. CASE d # c
    <3>1. pc'[d] = pc[d] /\ tries'[d] = tries[d] /\ NoTicketYet(d)
      BY <1>2, <1>t, <2>2, Zenon DEF HistoryTicket, Ticket
    <3> QED
      BY <1>n, <3>1 DEF NoTicketYet
  <2> QED
    BY <2>1, <2>2
<1>3. ASSUME NEW c \in Callers, HistoryLook(c) PROVE \E first \in 1..Len(urls) : Sweep(d, first)'
  <2>1. CASE d = c
    <3>1. pc'[d] = "ticket" /\ alone[d]
      BY <1>3, <1>t, <2>1 DEF HistoryLook, Look, Return
    <3> QED
      BY <1>3, <2>1, <3>1, LookSweeps
  <2>2. CASE d # c
    BY <1>3, <1>k, <1>t, <2>2 DEF HistoryLook, Look, Return
  <2> QED
    BY <2>1, <2>2
<1>4. ASSUME NEW c \in Callers, HistoryConsume(c) PROVE \E first \in 1..Len(urls) : Sweep(d, first)'
  <2>1. d # c
    BY <1>4, <1>t DEF HistoryConsume, Consume
  <2> QED
    BY <1>4, <1>k, <1>t, <2>1 DEF HistoryConsume, Consume, Reset
<1>5. ASSUME NEW u \in Urls, HistorySetHealth(u) PROVE \E first \in 1..Len(urls) : Sweep(d, first)'
  BY <1>5, <1>k, <1>t DEF HistorySetHealth, SetHealth, Recheck
<1> QED
  BY <1>1, <1>2, <1>3, <1>4, <1>5 DEF HistoryNext

\* A call alone fails at the end of a whole turn only.
LEMMA NextUncontended ==
    ASSUME BalancerInv, HistoryNext
    PROVE  UncontendedErrorMeansAllDown'
<1> SUFFICES ASSUME NEW d \in Callers, Failed(d)', alone'[d] PROVE alive'[d] = {}
  BY DEF UncontendedErrorMeansAllDown
<1> USE DEF HistoryTypeOK, TypeOK, UncontendedErrorMeansAllDown, Failed
<1>1. ASSUME NEW c \in Callers, HistoryBegin(c) PROVE alive'[d] = {}
  BY <1>1 DEF BalancerInv, HistoryBegin, Begin, Reset
<1>2. ASSUME NEW c \in Callers, HistoryTicket(c) PROVE alive'[d] = {}
  BY <1>2 DEF BalancerInv, HistoryTicket, Ticket, NoTicketYet
<1>3. ASSUME NEW c \in Callers, HistoryLook(c) PROVE alive'[d] = {}
  <2>1. CASE d = c
    BY <1>3, <2>1, LookSweeps DEF HistoryLook
  <2>2. CASE d # c
    BY <1>3, <2>2 DEF BalancerInv, HistoryLook, Look, Return
  <2> QED
    BY <2>1, <2>2
<1>4. ASSUME NEW c \in Callers, HistoryConsume(c) PROVE alive'[d] = {}
  BY <1>4 DEF BalancerInv, HistoryConsume, Consume, Reset
<1>5. ASSUME NEW u \in Urls, HistorySetHealth(u) PROVE alive'[d] = {}
  BY <1>5 DEF BalancerInv, HistorySetHealth, SetHealth, Recheck
<1> QED
  BY <1>1, <1>2, <1>3, <1>4, <1>5 DEF HistoryNext

\* Every step of the balancer keeps the invariant.
LEMMA NextBalancer == BalancerInv /\ [HistoryNext]_historyVars => BalancerInv'
<1> SUFFICES ASSUME BalancerInv, [HistoryNext]_historyVars PROVE BalancerInv'
  OBVIOUS
<1>1. CASE HistoryNext
  BY <1>1, NextHistoryTypeOK, NextAlive, NextRotation, NextUncontended DEF BalancerInv
<1>2. CASE UNCHANGED historyVars
  <2>1. UNCHANGED <<healthy, counter, pc, tries, pick, alive, alone>>
    BY <1>2 DEF historyVars, vars
  <2> QED
    BY <2>1 DEF BalancerInv, HistoryTypeOK, TypeOK, AliveIsHealthy, Rotation, Sweep,
           UncontendedErrorMeansAllDown, Failed
<1> QED
  BY <1>1, <1>2

\* However many calls of Next there are, over however many backends, whatever the
\* width of the counter and whenever verdicts change: a call whose tickets followed
\* one another fails only if no backend was healthy throughout it.
THEOREM UncontendedErrorIsDeserved == HistorySpec => []UncontendedErrorMeansAllDown
<1>1. BalancerInv => UncontendedErrorMeansAllDown
  BY DEF BalancerInv
<1> QED
  BY <1>1, InitBalancer, NextBalancer, PTL DEF HistorySpec

----------------------------------------------------------------------------
\* The health checker

\* The history variables contain the present.
HistoryCovers == up \subseteq everUp /\ Urls \ up \subseteq everDown

\* Good news, on its way or stored, is about an upstream that has been up.
GoodNewsIsTrue == \A u \in Urls : check[u] = "yes" \/ healthy[u] => u \in everUp

\* Before the signal, bad news on its way is about an upstream that has been
\* down.
BadNewsIsTrue ==
    ctx = "live" => \A u \in Urls : check[u] = "no" => u \in everDown

\* Before the signal, an upstream that has never been down is healthy as soon
\* as Probe has stored its verdict on it.
ProbeReportsUp ==
    ctx = "live" /\ phase = "probe" =>
        \A u \in Urls \ everDown : check[u] = "none" => healthy[u]

\* NoDeadBoot rests on GoodNewsIsTrue, NoFalseAlarm on BadNewsIsTrue and, for
\* the step in which Probe returns, on ProbeReportsUp.
CheckerInv ==
    /\ HC!TypeOK
    /\ HistoryCovers
    /\ GoodNewsIsTrue
    /\ BadNewsIsTrue
    /\ ProbeReportsUp
    /\ HC!NoDeadBoot
    /\ HC!NoFalseAlarm

\* The program starts in a state that satisfies the inductive invariant.
LEMMA InitChecker == HC!Init => CheckerInv
  BY SMTT(15) DEF HC!Init, CheckerInv, HC!TypeOK, HistoryCovers, GoodNewsIsTrue, BadNewsIsTrue,
         ProbeReportsUp, HC!NoDeadBoot, HC!NoFalseAlarm, HC!AllSent

\* Every step of the program preserves it.
LEMMA NextChecker == CheckerInv /\ [HC!Next]_(HC!vars) => CheckerInv'
<1> SUFFICES ASSUME CheckerInv, [HC!Next]_(HC!vars) PROVE CheckerInv'
  OBVIOUS
<1> USE DEF CheckerInv, HC!TypeOK, HistoryCovers, GoodNewsIsTrue, BadNewsIsTrue,
            ProbeReportsUp, HC!NoDeadBoot, HC!NoFalseAlarm, HC!IsHealthy, HC!environment
<1>1. ASSUME NEW u \in Urls, HC!Answer(u) PROVE CheckerInv'
  BY <1>1 DEF HC!Answer
<1>2. ASSUME NEW u \in Urls, HC!Store(u) PROVE CheckerInv'
  BY <1>2, Zenon DEF HC!Store
<1>3. CASE HC!ProbeReturns
  BY <1>3 DEF HC!ProbeReturns, HC!RoundOver, HC!AllSent
<1>4. CASE HC!StartReturns
  BY <1>4 DEF HC!StartReturns
<1>5. CASE HC!Tick
  BY <1>5 DEF HC!Tick, HC!AllSent
<1>6. CASE HC!Stop
  BY <1>6 DEF HC!Stop
<1>7. CASE HC!Cancel
  BY <1>7 DEF HC!Cancel
<1>8. ASSUME NEW u \in Urls, HC!Flip(u) PROVE CheckerInv'
  BY <1>8 DEF HC!Flip
<1>9. CASE UNCHANGED HC!vars
  BY <1>9 DEF HC!vars
<1> QED
  BY <1>1, <1>2, <1>3, <1>4, <1>5, <1>6, <1>7, <1>8, <1>9, Zenon DEF HC!Next, HC!Checking

\* Hence it holds in every reachable state.
LEMMA CheckerInvHolds == HC!Spec => []CheckerInv
  BY InitChecker, NextChecker, PTL DEF HC!Spec

----------------------------------------------------------------------------

\* However many upstreams a service has, the gateway never boots past Probe
\* when none of them has been up since the process started.
THEOREM CheckerNoDeadBoot == HC!Spec => []HC!NoDeadBoot
<1>1. CheckerInv => HC!NoDeadBoot
  BY DEF CheckerInv
<1> QED
  BY <1>1, CheckerInvHolds, PTL

\* Until the signal, no interleaving of checks, rounds and outages of other
\* upstreams makes IsHealthy deny an upstream that has never been down.
THEOREM CheckerNoFalseAlarm == HC!Spec => []HC!NoFalseAlarm
<1>1. CheckerInv => HC!NoFalseAlarm
  BY DEF CheckerInv
<1> QED
  BY <1>1, CheckerInvHolds, PTL

----------------------------------------------------------------------------
\* The process

\* A step of the process is a step of the checker, or none of its business.
LEMMA StepsOfChecker == [ServingNext]_servingVars => [HC!Next]_(HC!vars)
<1> SUFFICES ASSUME [ServingNext]_servingVars PROVE HC!Next \/ UNCHANGED HC!vars
  OBVIOUS
<1> USE DEF HC!vars, HC!environment, checkerVars, historyVars, vars
<1>1. CASE CheckHealth
  BY <1>1 DEF CheckHealth, Checks
<1>2. CASE BootFails \/ Listen \/ ListenFails \/ Shutdown \/ Exit
  BY <1>2 DEF BootFails, Listen, ListenFails, Shutdown, Exit
<1>3. ASSUME NEW r \in Callers, Accept(r) \/ Balance(r) \/ Answer(r)
      PROVE  UNCHANGED HC!vars
  BY <1>3 DEF Accept, Balance, Answer, HistoryBegin, HistoryTicket, HistoryLook, HistoryConsume,
         Begin, Ticket, Look, Consume
<1>4. CASE UNCHANGED servingVars
  BY <1>4 DEF servingVars
<1> QED
  BY <1>1, <1>2, <1>3, <1>4 DEF ServingNext

\* And it is a step of the balancer, to which a verdict comes from outside, or none
\* of its business.
LEMMA StepsOfBalancer == BalancerInv /\ [ServingNext]_servingVars => [HistoryNext]_historyVars
<1> SUFFICES ASSUME BalancerInv, [ServingNext]_servingVars PROVE HistoryNext \/ UNCHANGED historyVars
  OBVIOUS
<1>t. healthy \in [Urls -> BOOLEAN] /\ alive \in [Callers -> SUBSET Urls]
  BY DEF BalancerInv, HistoryTypeOK, TypeOK
<1>1. CASE CheckHealth
  <2>1. HC!Next /\ Recheck /\ UNCHANGED <<counter, pc, tries, pick, alone>>
    BY <1>1 DEF CheckHealth, Checks, callVars
  <2>2. CASE healthy' = healthy
    <3>1. alive' = alive
      BY <1>t, <2>1, <2>2 DEF Recheck, BalancerInv, AliveIsHealthy
    <3> QED
      BY <2>1, <2>2, <3>1 DEF historyVars, vars
  <2>3. CASE healthy' # healthy
    <3>1. PICK u \in Urls : HC!Store(u)
      BY <2>1, <2>3 DEF HC!Next, HC!Checking, HC!Answer, HC!ProbeReturns, HC!StartReturns, HC!Tick,
             HC!Stop, HC!Cancel, HC!Flip
    <3>2. healthy' = [healthy EXCEPT ![u] = ~@]
      <4>1. PICK b \in BOOLEAN : healthy' = [healthy EXCEPT ![u] = b]
        BY <3>1, Zenon DEF HC!Store
      <4>2. b # healthy[u]
        BY <1>t, <2>3, <4>1
      <4> QED
        BY <1>t, <4>1, <4>2, Zenon
    <3>3. HistorySetHealth(u)
      BY <2>1, <3>2 DEF HistorySetHealth, SetHealth
    <3> QED
      BY <3>3 DEF HistoryNext
  <2> QED
    BY <2>2, <2>3
<1>2. CASE BootFails \/ Listen \/ ListenFails \/ Shutdown \/ Exit
  BY <1>2 DEF BootFails, Listen, ListenFails, Shutdown, Exit
<1>3. ASSUME NEW r \in Callers, Accept(r) \/ Balance(r) \/ Answer(r)
      PROVE  HistoryNext
  BY <1>3 DEF Accept, Balance, Answer, HistoryNext
<1>4. CASE UNCHANGED servingVars
  BY <1>4 DEF servingVars
<1> QED
  BY <1>1, <1>2, <1>3, <1>4 DEF ServingNext

\* The invariants of the two hold throughout the process.
LEMMA PartsHold == ServingSpec => [](CheckerInv /\ BalancerInv)
<1>1. ServingInit => CheckerInv /\ BalancerInv
  BY InitChecker, InitBalancer DEF ServingInit
<1>2. CheckerInv /\ [ServingNext]_servingVars => CheckerInv'
  BY StepsOfChecker, NextChecker
<1>3. BalancerInv /\ [ServingNext]_servingVars => BalancerInv'
  BY StepsOfBalancer, NextBalancer
<1> QED
  BY <1>1, <1>2, <1>3, PTL DEF ServingSpec

\* The process puts the checker and the balancer together without disturbing
\* either: each behaviour of it is one of both, so what is shown of them by
\* themselves holds in the process.
THEOREM ProcessImplementsParts == ServingSpec => HC!Spec /\ HistorySpec
<1>1. ServingInit => HC!Init /\ HistoryInit
  BY DEF ServingInit
<1>2. ServingSpec => [][HC!Next]_(HC!vars)
  BY StepsOfChecker, PTL DEF ServingSpec
<1>3. ServingSpec => [][HistoryNext]_historyVars
  BY StepsOfBalancer, PartsHold, PTL DEF ServingSpec
<1> QED
  BY <1>1, <1>2, <1>3, PTL DEF ServingSpec, HC!Spec, HistorySpec

\* The server listens only when buildRouter has returned, requests are only where
\* a server has listened, and polling stops by the signal only.
BuiltFirst ==
    /\ server \in {"booting", "serving", "draining", "exited"}
    /\ server \in {"serving", "draining"} => Built
    /\ \A r \in Callers : pc[r] # "idle" => server # "booting"
    /\ phase = "stopped" => ctx = "cancelled"

\* Before the signal, what has been unhealthy during a request has been down.
UnhealthyWasDown ==
    ctx = "live" => \A r \in Callers : pc[r] # "idle" => Urls \ alive[r] \subseteq everDown

\* UnhealthyWasDown joins the two parts: the checker's NoFalseAlarm, in the phases
\* BuiltFirst says requests are balanced in, and the balancer's alive.
ProcessInv == BuiltFirst /\ UnhealthyWasDown /\ early \subseteq Callers

\* The process starts without a request.
LEMMA InitProcess == ServingInit => ProcessInv
  BY DEF ServingInit, HC!Init, HistoryInit, Init, InitCalls, ProcessInv, BuiltFirst, UnhealthyWasDown, Built

\* A round of checks before the signal spares what has not been down.
LEMMA ChecksProcess ==
    ASSUME CheckerInv, CheckerInv', BalancerInv, ProcessInv, CheckHealth
    PROVE  ProcessInv'
<1> USE DEF CheckHealth, Checks, callVars, Running
<1>1. /\ ctx' \in {ctx, "cancelled"}
      /\ everDown \subseteq everDown'
      /\ Built => Built'
      /\ phase' = "stopped" => phase = "stopped" \/ ctx = "cancelled"
  BY DEF HC!Next, HC!Checking, HC!Answer, HC!Store, HC!ProbeReturns, HC!StartReturns,
         HC!Tick, HC!Stop, HC!Cancel, HC!Flip, HC!environment, Built
<1>2. BuiltFirst'
  BY <1>1 DEF ProcessInv, BuiltFirst
<1>3. ASSUME ctx' = "live", NEW r \in Callers, pc'[r] # "idle", NEW u \in Urls \ alive'[r]
      PROVE  u \in everDown'
  <2>1. Built' /\ phase' # "stopped" /\ ctx = "live" /\ pc[r] # "idle"
    BY <1>1, <1>2, <1>3 DEF BuiltFirst, ProcessInv
  <2>2. CASE u \notin alive[r]
    BY <1>1, <2>1, <2>2 DEF ProcessInv, UnhealthyWasDown
  <2>3. CASE ~healthy'[u]
    BY <1>3, <2>1, <2>3, SMTT(15) DEF CheckerInv, HC!NoFalseAlarm, HC!IsHealthy, Built
  <2> QED
    BY <1>3, <2>2, <2>3 DEF Recheck
<1> QED
  BY <1>2, <1>3 DEF ProcessInv, UnhealthyWasDown

\* Every step of the process keeps the invariant.
LEMMA NextProcess ==
    CheckerInv /\ CheckerInv' /\ BalancerInv /\ ProcessInv /\ [ServingNext]_servingVars => ProcessInv'
<1> SUFFICES ASSUME CheckerInv, CheckerInv', BalancerInv, ProcessInv, [ServingNext]_servingVars
             PROVE  ProcessInv'
  OBVIOUS
<1>t. /\ pc \in [Callers -> {"idle", "ticket", "look", "done"}]
      /\ alive \in [Callers -> SUBSET Urls]
  BY DEF BalancerInv, HistoryTypeOK, TypeOK
<1> USE DEF ProcessInv, BuiltFirst, UnhealthyWasDown, Built, checkerVars
<1>1. CASE BootFails \/ Listen \/ ListenFails \/ Shutdown \/ Exit
  BY <1>1 DEF BootFails, Listen, ListenFails, Shutdown, Exit, historyVars, vars
<1>2. ASSUME NEW r \in Callers, Accept(r) PROVE ProcessInv'
  <2>1. ctx = "live" => \A u \in Urls : healthy[u] \/ u \in everDown
    BY <1>2 DEF Accept, CheckerInv, HC!NoFalseAlarm, HC!IsHealthy
  <2> QED
    BY <1>2, <1>t, <2>1 DEF Accept, HistoryBegin, Begin, Reset
<1>3. ASSUME NEW r \in Callers, Balance(r), HistoryTicket(r) PROVE ProcessInv'
  BY <1>3, <1>t DEF Balance, HistoryTicket, Ticket
<1>4. ASSUME NEW r \in Callers, Balance(r), HistoryLook(r) PROVE ProcessInv'
  BY <1>4, <1>t DEF Balance, HistoryLook, Look, Return
<1>5. ASSUME NEW r \in Callers, Answer(r) PROVE ProcessInv'
  BY <1>5, <1>t DEF Answer, HistoryConsume, Consume, Reset
<1>6. CASE UNCHANGED servingVars
  BY <1>6 DEF servingVars, historyVars, vars
<1> QED
  BY <1>1, <1>2, <1>3, <1>4, <1>5, <1>6, ChecksProcess, Zenon DEF ServingNext, Balance

\* Hence all three invariants hold in every reachable state.
LEMMA ProcessInvHolds == ServingSpec => [](CheckerInv /\ BalancerInv /\ ProcessInv)
  BY PartsHold, InitProcess, NextProcess, PTL DEF ServingSpec

----------------------------------------------------------------------------

\* Every reachable state of the process is well typed.
THEOREM ProcessTypeCorrect == ServingSpec => []ServingTypeOK
<1>1. CheckerInv /\ BalancerInv /\ ProcessInv => ServingTypeOK
  BY DEF CheckerInv, BalancerInv, ProcessInv, BuiltFirst, ServingTypeOK
<1> QED
  BY <1>1, ProcessInvHolds, PTL

\* However many upstreams a service has, a gateway that serves has seen one of
\* them up: no interleaving of probe, outages, signal and listening gets past that.
THEOREM ProcessNoDeadBoot == ServingSpec => []NoDeadBoot
<1>1. CheckerInv /\ BalancerInv /\ ProcessInv => NoDeadBoot
  BY DEF CheckerInv, ProcessInv, BuiltFirst, Built, NoDeadBoot, HC!NoDeadBoot
<1> QED
  BY <1>1, ProcessInvHolds, PTL

\* From the first request to the signal, IsHealthy never denies an upstream that
\* has never been down.
THEOREM ProcessNoFalseAlarm == ServingSpec => []NoFalseAlarm
<1>1. CheckerInv /\ BalancerInv /\ ProcessInv => NoFalseAlarm
  BY DEF CheckerInv, ProcessInv, BuiltFirst, Built, NoFalseAlarm, HC!NoFalseAlarm, HC!IsHealthy
<1> QED
  BY <1>1, ProcessInvHolds, PTL

\* Until the signal, no request, among however many, is told "no healthy upstreams"
\* as long as no upstream has been down, and none whose tickets followed one
\* another unless all of them have.
THEOREM ProcessNoSpuriousOutage == ServingSpec => []NoSpuriousOutage
<1>1. CheckerInv /\ BalancerInv /\ ProcessInv => NoSpuriousOutage
  <2> SUFFICES ASSUME CheckerInv, BalancerInv, ProcessInv, NEW r \in Callers, Failed(r), ctx = "live"
               PROVE  everDown # {} /\ (alone[r] => everDown = Urls)
    BY DEF NoSpuriousOutage
  <2>1. Urls \ alive[r] \subseteq everDown
    BY DEF ProcessInv, UnhealthyWasDown, Failed
  <2>2. alive[r] # Urls /\ alive[r] \subseteq Urls
    BY DEF BalancerInv, AliveIsHealthy, HistoryTypeOK
  <2>3. alone[r] => alive[r] = {}
    BY DEF BalancerInv, UncontendedErrorMeansAllDown
  <2>4. everDown \subseteq Urls
    BY DEF CheckerInv, HC!TypeOK
  <2> QED
    BY <2>1, <2>2, <2>3, <2>4
<1> QED
  BY <1>1, ProcessInvHolds, PTL
=============================================================================
