--------------------------- MODULE PipelineProofs ---------------------------
(***************************************************************************)
(* The safety of the middleware chain for any number of requests and any   *)
(* max_in_flight, and of the compressing writer for any minimum size and   *)
(* any way of cutting a body into writes.                                  *)
(***************************************************************************)
EXTENDS Pipeline, Compress, FiniteSetTheorems, TLAPS

\* The layers by number: which of them observe, open a span or take a slot.
LEMMA ChainLayers ==
    /\ Len(Chain) = 11
    /\ Position("Logger") = 3 /\ Position("Metrics") = 5 /\ Position("Tracing") = 6
    /\ Position("ConcurrencyLimit") = 7
    /\ \A i \in 1..11 :
          /\ Chain[i] = "Recoverer" <=> i = 1
          /\ Chain[i] = "Logger" <=> i = 3
          /\ Chain[i] = "MaxBody" <=> i = 4
          /\ Chain[i] = "Metrics" <=> i = 5
          /\ Chain[i] = "Tracing" <=> i = 6
          /\ Chain[i] = "ConcurrencyLimit" <=> i = 7
          /\ Chain[i] = "handler" <=> i = 11
<1>1. /\ Len(Chain) = 11 /\ DOMAIN Chain = 1..11
      /\ Chain[1] = "Recoverer" /\ Chain[2] = "RequestID" /\ Chain[3] = "Logger"
      /\ Chain[4] = "MaxBody" /\ Chain[5] = "Metrics" /\ Chain[6] = "Tracing"
      /\ Chain[7] = "ConcurrencyLimit" /\ Chain[8] = "JWTAuth"
      /\ Chain[9] = "RequireAnyRole" /\ Chain[10] = "RateLimit" /\ Chain[11] = "handler"
  BY DEF Chain
<1>2. \A i \in 1..11 : i = 1 \/ i = 2 \/ i = 3 \/ i = 4 \/ i = 5 \/ i = 6 \/ i = 7
                       \/ i = 8 \/ i = 9 \/ i = 10 \/ i = 11
  OBVIOUS
<1>3. \A i \in DOMAIN Chain :
          /\ Chain[i] = "Logger" <=> i = 3
          /\ Chain[i] = "Metrics" <=> i = 5
          /\ Chain[i] = "Tracing" <=> i = 6
          /\ Chain[i] = "ConcurrencyLimit" <=> i = 7
  BY <1>1, <1>2
<1>4. 3 \in 1..11 /\ 5 \in 1..11 /\ 6 \in 1..11 /\ 7 \in 1..11
  OBVIOUS
<1>5. /\ Position("Logger") = 3 /\ Position("Metrics") = 5 /\ Position("Tracing") = 6
      /\ Position("ConcurrencyLimit") = 7
  BY <1>1, <1>3, <1>4, Zenon DEF Position
<1> QED
  BY <1>1, <1>2, <1>5

\* Only MaxBody, ConcurrencyLimit and the layers up to RateLimit answer.
LEMMA AnsweringLayers == \A i \in 1..11 : Answers(Chain[i]) # {} => i = 4 \/ i \in 7..10
<1> SUFFICES ASSUME NEW i \in 1..11, i # 4, i \notin 7..10 PROVE Answers(Chain[i]) = {}
  OBVIOUS
<1>1. Chain[i] \in {"Recoverer", "RequestID", "Logger", "Metrics", "Tracing", "handler"}
  BY DEF Chain
<1> QED
  BY <1>1 DEF Answers

\* What they answer is a status; MaxBody's is 413.
LEMMA AnswersAreStatuses ==
    /\ \A layer : Answers(layer) \subseteq Nat \ {0}
    /\ Answers("MaxBody") = {413}
  BY DEF Answers, MaxBodyAnswers, ConcurrencyLimitAnswers, JWTAuthAnswers,
         RequireAnyRoleAnswers, RateLimitAnswers

----------------------------------------------------------------------------

Types ==
    /\ at \in [Requests -> 0..11]
    /\ flow \in [Requests -> {"down", "return", "panic"}]
    /\ sent \in [Requests -> Nat]
    /\ rw \in [Requests -> [Observers -> Nat]]
    /\ semaphore \in Nat
    /\ span \in [Requests -> {"none", "open", "ended"}]
    /\ logged \in [Requests -> Nat]
    /\ counted \in [Requests -> Nat]
    /\ traced \in [Requests -> Nat]
    /\ panicked \in [Requests -> BOOLEAN]

\* A request is past the gate of layer i: below it, or on its way back through it.
Past(r, i) == at[r] > i \/ (at[r] = i /\ flow[r] # "down")

\* An open span is that of a request Tracing will see again.
SpansHeld == \A r \in Requests : span[r] = "open" => Past(r, 6)

\* The observers have recorded nothing on the way down; on the way up those the
\* request has passed have recorded the status, unless MaxBody refused it above
\* Metrics and Tracing.
Observed(r) ==
    /\ flow[r] = "down" => counted[r] = 0 /\ traced[r] = 0
    /\ flow[r] = "panic" => panicked[r]
    /\ flow[r] = "return" /\ ~panicked[r] =>
          /\ sent[r] # 0 /\ rw[r]["Logger"] = sent[r]
          /\ at[r] <= 2 => logged[r] = sent[r]
          /\ \/ at[r] <= 3 /\ sent[r] = 413 /\ counted[r] = 0 /\ traced[r] = 0
             \/ /\ rw[r]["Metrics"] = sent[r] /\ rw[r]["Tracing"] = sent[r]
                /\ at[r] <= 5 => traced[r] = sent[r]
                /\ at[r] <= 4 => counted[r] = sent[r]

IInv == Types /\ SlotsAccounted /\ SpansHeld /\ \A r \in Requests : Observed(r)

\* A status that is written reaches the wire and the writers above, and changes
\* nothing for other requests.
LEMMA StatusWritten ==
    ASSUME Types, NEW r \in Requests, NEW code \in Nat, WriteStatus(r, code)
    PROVE  /\ sent' \in [Requests -> Nat] /\ rw' \in [Requests -> [Observers -> Nat]]
           /\ sent'[r] = code
           /\ at[r] >= 4 => rw'[r]["Logger"] = code
           /\ at[r] >= 7 => rw'[r]["Metrics"] = code /\ rw'[r]["Tracing"] = code
           /\ \A q \in Requests \ {r} : sent'[q] = sent[q] /\ rw'[q] = rw[q]
<1> DEFINE w == [o \in Observers |-> IF Position(o) < at[r] THEN code ELSE rw[r][o]]
<1>1. /\ sent \in [Requests -> Nat] /\ rw \in [Requests -> [Observers -> Nat]]
      /\ rw[r] \in [Observers -> Nat] /\ at[r] \in Nat
  BY DEF Types
<1>2. sent' = [sent EXCEPT ![r] = code] /\ rw' = [rw EXCEPT ![r] = w]
  BY DEF WriteStatus
<1>3. w \in [Observers -> Nat]
  BY <1>1
<1>4. /\ at[r] >= 4 => w["Logger"] = code
      /\ at[r] >= 7 => w["Metrics"] = code /\ w["Tracing"] = code
  BY <1>1, ChainLayers DEF Observers
<1> HIDE DEF w
<1> QED
  BY <1>1, <1>2, <1>3, <1>4

\* In flight, before and after a step, are the requests past ConcurrencyLimit.
LEMMA InFlightPast ==
    /\ InFlight = {r \in Requests : Past(r, 7)}
    /\ InFlight' = {r \in Requests : Past(r, 7)'}
    /\ IsFiniteSet(InFlight)
<1>1. InFlight = {r \in Requests : Past(r, 7)} /\ InFlight' = {r \in Requests : Past(r, 7)'}
  BY ChainLayers DEF InFlight, Past
<1> QED
  BY <1>1, PipelineAssumption, FS_Subset

\* The size of a finite set after an element has come or gone.
LEMMA OneMoreOneLess ==
    ASSUME NEW S, IsFiniteSet(S), NEW r
    PROVE  /\ Cardinality(S) \in Nat
           /\ r \notin S => Cardinality(S \cup {r}) = Cardinality(S) + 1
           /\ r \in S => Cardinality(S \ {r}) = Cardinality(S) - 1 /\ Cardinality(S) > 0
<1>1. Cardinality(S) \in Nat
  BY FS_CardinalityType
<1>2. r \notin S => Cardinality(S \cup {r}) = Cardinality(S) + 1
  BY FS_AddElement
<1>3. r \in S => Cardinality(S \ {r}) = Cardinality(S) - 1
  BY FS_RemoveElement
<1>4. r \in S => Cardinality(S) > 0
  BY <1>1, FS_EmptySet
<1> QED
  BY <1>1, <1>2, <1>3, <1>4

\* The gateway starts in a state that satisfies the invariant.
LEMMA InitIInv == Init => IInv
<1> SUFFICES ASSUME Init PROVE IInv
  OBVIOUS
<1>1. InFlight = {}
  BY InFlightPast DEF Init, Past, Nothing
<1> QED
  BY <1>1, FS_EmptySet DEF Init, IInv, Types, SlotsAccounted, SpansHeld, Observed, Nothing,
                              NoWriters

\* Every step of a request preserves it.
LEMMA NextIInv == IInv /\ [Next]_vars => IInv'
<1> SUFFICES ASSUME IInv, [Next]_vars PROVE IInv'
  OBVIOUS
<1> USE DEF IInv, Types
<1>1. ASSUME NEW r \in Requests, Arrive(r) PROVE IInv'
  <2>1. InFlight' = InFlight
    BY <1>1, InFlightPast DEF Arrive, Past
  <2> QED
    BY <1>1, <2>1 DEF Arrive, NoWriters, SlotsAccounted, SpansHeld, Past, Observed
<1>2. ASSUME NEW r \in Requests, Descend(r) PROVE IInv'
  <2>1. at[r] \in 1..10 /\ Layer(r) = Chain[at[r]]
    BY <1>2, ChainLayers DEF Descend, Layer
  <2>2. /\ Layer(r) = "ConcurrencyLimit" <=> at[r] = 7
        /\ Layer(r) = "Tracing" <=> at[r] = 6
    BY <2>1, ChainLayers
  <2>3. Types'
    <3>1. semaphore' \in Nat
      BY <1>2, PipelineAssumption DEF Descend, Acquire
    <3>2. at' \in [Requests -> 0..11]
      <4>1. at' = [at EXCEPT ![r] = at[r] + 1] /\ at[r] + 1 \in 0..11
        BY <1>2, <2>1, SMTT(15) DEF Descend
      <4> QED
        BY <4>1, Zenon
    <3>3. span' \in [Requests -> {"none", "open", "ended"}]
      BY <1>2, Zenon DEF Descend
    <3>4. rw' \in [Requests -> [Observers -> Nat]]
      BY <1>2 DEF Descend, Wrap
    <3> QED
      BY <1>2, <3>1, <3>2, <3>3, <3>4 DEF Descend
  <2>4. SpansHeld'
    BY <1>2, <2>1, <2>2 DEF Descend, SpansHeld, Past
  <2>5. \A q \in Requests : Observed(q)'
    <3>1. \A q \in Requests \ {r} : rw'[q] = rw[q]
      BY <1>2 DEF Descend, Wrap
    <3> QED
      BY <1>2, <2>1, <3>1 DEF Descend, Observed
  <2>6. SlotsAccounted'
    <3>1. CASE at[r] = 7
      <4>1. r \notin InFlight /\ InFlight' = InFlight \cup {r}
        BY <1>2, <3>1, InFlightPast DEF Descend, Past
      <4>2. Cardinality(InFlight') = Cardinality(InFlight) + 1
        BY <4>1, InFlightPast, OneMoreOneLess, Zenon
      <4> QED
        BY <1>2, <2>2, <3>1, <4>2 DEF Descend, Acquire, SlotsAccounted
    <3>2. CASE at[r] # 7
      <4>1. InFlight' = InFlight
        BY <1>2, <2>1, <3>2, InFlightPast DEF Descend, Past
      <4> QED
        BY <1>2, <2>2, <3>2, <4>1 DEF Descend, SlotsAccounted
    <3> QED
      BY <3>1, <3>2
  <2> QED
    BY <2>3, <2>4, <2>5, <2>6
<1>3. ASSUME NEW r \in Requests, Refuse(r) PROVE IInv'
  <2>1. at[r] \in 1..11 /\ Layer(r) = Chain[at[r]]
    BY <1>3 DEF Refuse, Layer
  <2>2. at[r] = 4 \/ at[r] \in 7..10
    BY <1>3, <2>1, AnsweringLayers, Zenon DEF Refuse
  <2>3. PICK status \in Answers(Layer(r)) : WriteStatus(r, status)
    BY <1>3, Zenon DEF Refuse
  <2>4. status \in Nat \ {0} /\ (at[r] = 4 => status = 413)
    <3>1. status \in Nat \ {0}
      BY <2>3, AnswersAreStatuses
    <3>2. at[r] = 4 => Layer(r) = "MaxBody"
      BY <2>1, ChainLayers
    <3> QED
      BY <2>3, <3>1, <3>2, AnswersAreStatuses
  <2>5. InFlight' = InFlight
    BY <1>3, <2>2, InFlightPast DEF Refuse, Past
  <2>6. /\ sent' \in [Requests -> Nat] /\ rw' \in [Requests -> [Observers -> Nat]]
        /\ sent'[r] = status /\ rw'[r]["Logger"] = status
        /\ at[r] # 4 => rw'[r]["Metrics"] = status /\ rw'[r]["Tracing"] = status
        /\ \A q \in Requests \ {r} : sent'[q] = sent[q] /\ rw'[q] = rw[q]
    BY <2>2, <2>3, <2>4, StatusWritten
  <2>7. Types'
    <3>1. at' \in [Requests -> 0..11]
      BY <1>3, <2>2 DEF Refuse
    <3>2. flow' \in [Requests -> {"down", "return", "panic"}]
      BY <1>3, <2>2 DEF Refuse
    <3>3. panicked' \in [Requests -> BOOLEAN]
      BY <1>3, <2>2, Zenon DEF Refuse
    <3> QED
      BY <1>3, <2>6, <3>1, <3>2, <3>3, Zenon DEF Refuse, seen
  <2>8. SlotsAccounted' /\ SpansHeld'
    BY <1>3, <2>2, <2>4, <2>5, <2>6 DEF Refuse, seen, SlotsAccounted, SpansHeld, Past
  <2>9. \A q \in Requests : Observed(q)'
    BY <1>3, <2>2, <2>4, <2>5, <2>6 DEF Refuse, seen, Observed
  <2> QED
    BY <2>7, <2>8, <2>9
<1>4. ASSUME NEW r \in Requests, Serve(r) \/ Panic(r) PROVE IInv'
  <2>1. at[r] = 11
    BY <1>4, ChainLayers DEF Serve, Panic, Layer
  <2>2. InFlight' = InFlight
    BY <1>4, <2>1, InFlightPast DEF Serve, Panic, Past
  <2>3. CASE Serve(r)
    <3>1. PICK status \in {200, 413, 502, 503} : WriteStatus(r, status)
      BY <2>3, Zenon DEF Serve
    <3>2. /\ sent' \in [Requests -> Nat] /\ rw' \in [Requests -> [Observers -> Nat]]
          /\ sent'[r] = status /\ rw'[r]["Logger"] = status
          /\ rw'[r]["Metrics"] = status /\ rw'[r]["Tracing"] = status
          /\ \A q \in Requests \ {r} : sent'[q] = sent[q] /\ rw'[q] = rw[q]
      BY <2>1, <3>1, StatusWritten
    <3>3. Types'
      <4>1. at' \in [Requests -> 0..11]
        BY <2>1, <2>3 DEF Serve
      <4>2. flow' \in [Requests -> {"down", "return", "panic"}]
        BY <2>1, <2>3 DEF Serve
      <4>3. panicked' \in [Requests -> BOOLEAN]
        BY <2>3 DEF Serve
      <4>4. UNCHANGED <<semaphore, span, logged, counted, traced>>
        BY <2>3 DEF Serve, seen
      <4> QED
        BY <3>2, <4>1, <4>2, <4>3, <4>4, Zenon
    <3>4. SlotsAccounted' /\ SpansHeld'
      BY <2>1, <2>2, <2>3, <3>1, <3>2 DEF Serve, seen, SlotsAccounted, SpansHeld, Past
    <3>5. \A q \in Requests : Observed(q)'
      BY <2>1, <2>2, <2>3, <3>1, <3>2 DEF Serve, seen, Observed
    <3> QED
      BY <3>3, <3>4, <3>5
  <2>4. CASE Panic(r)
    <3>1. /\ sent' \in [Requests -> Nat] /\ rw' \in [Requests -> [Observers -> Nat]]
          /\ \A q \in Requests \ {r} : sent'[q] = sent[q] /\ rw'[q] = rw[q]
      BY <2>4, StatusWritten DEF Panic
    <3>2. Types'
      <4>1. at' \in [Requests -> 0..11]
        BY <2>1, <2>4 DEF Panic
      <4>2. flow' \in [Requests -> {"down", "return", "panic"}]
        BY <2>1, <2>4 DEF Panic
      <4>3. panicked' \in [Requests -> BOOLEAN]
        BY <2>1, <2>4, Zenon DEF Panic
      <4> QED
        BY <2>4, <3>1, <4>1, <4>2, <4>3, Zenon DEF Panic, seen
    <3>3. SlotsAccounted' /\ SpansHeld'
      BY <2>1, <2>2, <2>4, <3>1 DEF Panic, seen, SlotsAccounted, SpansHeld, Past
    <3>4. \A q \in Requests : Observed(q)'
      BY <2>1, <2>2, <2>4, <3>1 DEF Panic, seen, Observed
    <3> QED
      BY <3>2, <3>3, <3>4
  <2> QED
    BY <1>4, <2>3, <2>4
<1>5. ASSUME NEW r \in Requests, Ascend(r) PROVE IInv'
  <2>1. at[r] \in 1..11 /\ Layer(r) = Chain[at[r]]
    BY <1>5 DEF Ascend, Layer
  <2>2. /\ Layer(r) = "Recoverer" <=> at[r] = 1
        /\ Layer(r) = "Logger" <=> at[r] = 3
        /\ Layer(r) = "Metrics" <=> at[r] = 5
        /\ Layer(r) = "Tracing" <=> at[r] = 6
        /\ Layer(r) = "ConcurrencyLimit" <=> at[r] = 7
    BY <2>1, ChainLayers
  <2>3. SlotsAccounted' /\ semaphore' \in Nat
    <3>1. CASE at[r] = 7
      <4>1. r \in InFlight /\ InFlight' = InFlight \ {r}
        BY <1>5, <2>2, <3>1, InFlightPast DEF Ascend, Past
      <4>2. /\ Cardinality(InFlight') = Cardinality(InFlight) - 1
            /\ Cardinality(InFlight) \in Nat /\ Cardinality(InFlight) > 0
        BY <4>1, InFlightPast, OneMoreOneLess, Zenon
      <4> QED
        BY <1>5, <2>2, <3>1, <4>2, PipelineAssumption DEF Ascend, Release, SlotsAccounted
    <3>2. CASE at[r] # 7
      <4>1. InFlight' = InFlight
        BY <1>5, <2>1, <2>2, <3>2, InFlightPast DEF Ascend, Recover, Past
      <4> QED
        BY <1>5, <2>2, <3>2, <4>1 DEF Ascend, SlotsAccounted
    <3> QED
      BY <3>1, <3>2
  <2>4. Types'
    <3>1. Layer(r) \in Observers => rw[r][Layer(r)] \in Nat
      OBVIOUS
    <3>2. \A record \in [Requests -> Nat] :
              Layer(r) \in Observers => Observe(r, record) \in [Requests -> Nat]
      BY <3>1 DEF Observe
    <3>3. /\ logged' \in [Requests -> Nat] /\ counted' \in [Requests -> Nat]
          /\ traced' \in [Requests -> Nat]
      BY <1>5, <3>2, Zenon DEF Ascend, Log, Count, Trace, Observers
    <3>4. span' \in [Requests -> {"none", "open", "ended"}]
      BY <1>5 DEF Ascend, EndSpan
    <3>5. at' \in [Requests -> 0..11]
      BY <1>5, <2>1 DEF Ascend
    <3>6. flow' \in [Requests -> {"down", "return", "panic"}] /\ sent' \in [Requests -> Nat]
      BY <1>5, SMTT(15) DEF Ascend, Recover
    <3> QED
      BY <1>5, <2>3, <3>3, <3>4, <3>5, <3>6 DEF Ascend
  <2>5. SpansHeld'
    BY <1>5, <2>1, <2>2 DEF Ascend, EndSpan, Recover, SpansHeld, Past
  <2>6. ASSUME NEW q \in Requests PROVE Observed(q)'
    BY <1>5, <2>1, <2>2 DEF Ascend, Log, Count, Trace, Observe, Recover, Observed
  <2> QED
    BY <2>3, <2>4, <2>5, <2>6
<1>6. CASE UNCHANGED vars
  BY <1>6 DEF vars, seen, SlotsAccounted, InFlight, SpansHeld, Past, Observed
<1> QED
  BY <1>1, <1>2, <1>3, <1>4, <1>5, <1>6 DEF Next, Step

\* Hence it holds in every reachable state.
LEMMA IInvHolds == Spec => []IInv
  BY InitIInv, NextIInv, PTL DEF Spec

----------------------------------------------------------------------------

\* Whatever max_in_flight is and however many requests interleave, return or
\* panic, the semaphore holds one token for each request in flight.
THEOREM EverySlotAccounted == Spec => []SlotsAccounted
<1>1. IInv => SlotsAccounted
  BY DEF IInv
<1> QED
  BY <1>1, IInvHolds, PTL

\* Every span is ended when its request is over.
THEOREM EverySpanEnded == Spec => []SpansEnded
<1>1. IInv => SpansEnded
  BY DEF IInv, Types, SpansHeld, Past, SpansEnded, Finished
<1> QED
  BY <1>1, IInvHolds, PTL

\* Log, counter and span agree with what the client was sent.
THEOREM AllObserversAgree == Spec => []ObserversAgree
<1>1. IInv => ObserversAgree
  BY DEF IInv, Types, Observed, ObserversAgree, Finished
<1> QED
  BY <1>1, IInvHolds, PTL

----------------------------------------------------------------------------
\* The compressing writer

\* Before the head all of the body is in the buffer, after it none is, and what
\* follows goes the way the head announces.
Accounted ==
    IF wroteHead
    THEN /\ buf = 0
         /\ IF compress THEN plain = 0 /\ zipped = written /\ head.encoding = "gzip"
                        ELSE zipped = 0 /\ plain = written
    ELSE buf = written /\ plain = 0 /\ zipped = 0 /\ ~compress

\* The head is out when the handler has returned, and the stream closed.
Closed == phase = "returned" => wroteHead /\ closed = compress

Numbers == buf \in Nat /\ plain \in Nat /\ zipped \in Nat /\ written \in Nat

Flags == wroteHead \in BOOLEAN /\ compress \in BOOLEAN /\ closed \in BOOLEAN /\ compressible \in BOOLEAN

WriterInv == Numbers /\ Flags /\ Accounted /\ Closed

\* Nothing has been written at first.
LEMMA InitWriterInv == CompressInit => WriterInv
<1> SUFFICES ASSUME CompressInit PROVE WriterInv
  OBVIOUS
<1>1. Flags /\ ~wroteHead /\ ~compress
  BY Zenon DEF CompressInit, Flags
<1> QED
  BY <1>1, Zenon DEF CompressInit, WriterInv, Numbers, Accounted, Closed

\* Sending the head empties the buffer in the one way or the other.
LEMMA Flushed ==
    ASSUME NEW zip \in BOOLEAN, NEW n \in Nat, FlushBuffered(zip, n)
    PROVE  /\ wroteHead' = TRUE /\ compress' = zip /\ buf' = 0
           /\ IF zip THEN plain' = 0 /\ zipped' = n /\ head'.encoding = "gzip"
                     ELSE zipped' = 0 /\ plain' = n
  BY DEF FlushBuffered

\* Every step keeps the invariant.
LEMMA NextWriterInv == WriterInv /\ [CompressNext]_compressVars => WriterInv'
<1> SUFFICES ASSUME WriterInv, [CompressNext]_compressVars PROVE WriterInv'
  OBVIOUS
<1> USE CompressAssumption DEF WriterInv, Numbers, Flags, Accounted, Closed
<1>1. ASSUME NEW code \in Codes, WriteHeader(code) PROVE WriterInv'
  BY <1>1 DEF WriteHeader, wire
<1>2. ASSUME NEW n \in Pieces, Write(n) PROVE WriterInv'
  <2>0. n \in Nat /\ written' = written + n /\ UNCHANGED <<phase, compressible, closed>> /\ phase = "handler"
    BY <1>2 DEF Write
  <2>1. CASE PassOn(n)
    BY <2>0, <2>1 DEF PassOn
  <2>2. CASE Gather(n)
    BY <2>0, <2>2 DEF Gather
  <2>3. CASE Cross(n)
    <3>1. Decide \in BOOLEAN
      BY DEF Decide
    <3>2. FlushBuffered(Decide, written') /\ written' \in Nat
      BY <2>0, <2>3 DEF Cross
    <3> QED
      BY <2>0, <3>1, <3>2, Flushed, Zenon
  <2> QED
    BY <1>2, <2>1, <2>2, <2>3 DEF Write
<1>3. CASE Finish
  <2>1. CASE wroteHead
    BY <1>3, <2>1 DEF Finish
  <2>2. CASE ~wroteHead
    <3>1. FlushBuffered(FALSE, buf)
      BY <1>3, <2>2, Zenon DEF Finish
    <3>2. closed' = compress /\ ~compress /\ UNCHANGED <<compressible, written>>
      BY <1>3, <2>2 DEF Finish
    <3> QED
      BY <2>2, <3>1, <3>2, Flushed, Zenon
  <2> QED
    BY <2>1, <2>2
<1>4. CASE HandlerPanics
  BY <1>4 DEF HandlerPanics, writer, wire
<1>5. CASE UNCHANGED compressVars
  BY <1>5 DEF compressVars, writer, wire
<1> QED
  BY <1>1, <1>2, <1>3, <1>4, <1>5 DEF CompressNext

\* Hence it holds in every reachable state.
LEMMA WriterInvHolds == CompressSpec => []WriterInv
  BY InitWriterInv, NextWriterInv, PTL DEF CompressSpec

----------------------------------------------------------------------------

\* Whatever the minimum size and however the handler cuts its writes, the client
\* gets all of them in the one coding the head announces.
THEOREM BodyArrivesIntact == CompressSpec => []BodyIntact
<1>1. WriterInv => BodyIntact
  BY DEF WriterInv, Numbers, Flags, Accounted, Closed, BodyIntact
<1> QED
  BY <1>1, WriterInvHolds, PTL

\* No write makes the writer compress what is short, unsuitable or encoded already.
THEOREM OnlyWorthwhileCompressed == CompressSpec => OnlyWorthwhile
<1> DEFINE Worth == compress' /\ ~compress => encoding = "" /\ compressible /\ zipped' >= minSize
<1>1. WriterInv /\ [CompressNext]_compressVars => [Worth]_compressVars
  <2> SUFFICES ASSUME WriterInv, [CompressNext]_compressVars, compress', ~compress
               PROVE  encoding = "" /\ compressible /\ zipped' >= minSize
    BY Zenon DEF Worth
  <2>1. PICK n \in Pieces : Write(n) /\ Cross(n)
    <3>1. CASE Finish
      BY <3>1, Zenon DEF Finish, FlushBuffered
    <3> QED
      BY <3>1, Zenon DEF CompressNext, WriteHeader, Write, PassOn, Gather, HandlerPanics, compressVars, writer
  <2>2. FlushBuffered(Decide, buf + n) /\ buf + n >= minSize
    BY <2>1 DEF Cross
  <2> QED
    BY <2>2, Zenon DEF FlushBuffered, Decide
<1> QED
  BY <1>1, WriterInvHolds, PTL DEF CompressSpec, OnlyWorthwhile, Worth
=============================================================================
