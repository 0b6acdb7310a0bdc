------------------------------ MODULE Pipeline ------------------------------
(***************************************************************************)
(* The middleware chain buildRouter assembles.  A request goes down the    *)
(* chain to its handler and comes back up, by returning or by unwinding a  *)
(* panic; each layer acts on the way down, may answer by itself, and acts  *)
(* on the way up according to what it defers.  Requests interleave; the    *)
(* semaphore of ConcurrencyLimit is what they share.  Cache, Compress and  *)
(* the proxy are the handler here (ResponseCache, Proxy).                  *)
(***************************************************************************)
EXTENDS Naturals, Sequences, FiniteSets

CONSTANTS
    Requests,
    limit      \* max_in_flight; zero disables the middleware

ASSUME PipelineAssumption == limit \in Nat /\ IsFiniteSet(Requests)

\* r.Use in the order of buildRouter, then of the service's route.
Chain == <<"Recoverer", "RequestID", "Logger", "MaxBody", "Metrics", "Tracing",
           "ConcurrencyLimit", "JWTAuth", "RequireAnyRole", "RateLimit", "handler">>

Position(layer) == CHOOSE i \in DOMAIN Chain : Chain[i] = layer

\* The layers that wrap the ResponseWriter to learn the status.
Observers == {"Logger", "Metrics", "Tracing"}

VARIABLES
    at,         \* per request: its layer of Chain, 0 outside
    flow,       \* per request: "down", "return" or "panic"
    sent,       \* per request: the status on the wire, 0 before it is written
    semaphore,  \* tokens in the channel of ConcurrencyLimit
    rw,         \* per request and observer: the status field of its writer, 0
                \* before there is one
    span,       \* per request: "none", "open", "ended"
    logged, counted, traced,   \* per request: the status each observer
                               \* recorded, 0 for none
    panicked    \* per request: its handler panicked              (history)

seen == <<span, logged, counted, traced>>
vars == <<at, flow, sent, rw, semaphore, seen, panicked>>

Statuses == {200, 401, 403, 413, 429, 500, 502, 503}

Layer(r) == IF at[r] = 0 THEN "none" ELSE Chain[at[r]]

TypeOK ==
    /\ at \in [Requests -> 0..Len(Chain)]
    /\ flow \in [Requests -> {"down", "return", "panic"}]
    /\ sent \in [Requests -> Statuses \cup {0}]
    /\ rw \in [Requests -> [Observers -> Statuses \cup {0}]]
    /\ semaphore \in 0..limit
    /\ span \in [Requests -> {"none", "open", "ended"}]
    /\ \A observed \in {logged, counted, traced} :
          observed \in [Requests -> Statuses \cup {0}]
    /\ panicked \in [Requests -> BOOLEAN]

Nothing == [r \in Requests |-> 0]

NoWriters == [o \in Observers |-> 0]

Init ==
    /\ at = Nothing
    /\ flow = [r \in Requests |-> "down"]
    /\ sent = Nothing
    /\ rw = [r \in Requests |-> NoWriters]
    /\ semaphore = 0
    /\ span = [r \in Requests |-> "none"]
    /\ logged = Nothing
    /\ counted = Nothing
    /\ traced = Nothing
    /\ panicked = [r \in Requests |-> FALSE]

----------------------------------------------------------------------------

Arrive(r) ==
    /\ at[r] = 0
    /\ at' = [at EXCEPT ![r] = 1]
    /\ flow' = [flow EXCEPT ![r] = "down"]
    /\ sent' = [sent EXCEPT ![r] = 0]
    /\ rw' = [rw EXCEPT ![r] = NoWriters]
    /\ span' = [span EXCEPT ![r] = "none"]
    /\ logged' = [logged EXCEPT ![r] = 0]
    /\ counted' = [counted EXCEPT ![r] = 0]
    /\ traced' = [traced EXCEPT ![r] = 0]
    /\ panicked' = [panicked EXCEPT ![r] = FALSE]
    /\ UNCHANGED semaphore

\* semaphore <- struct{}{} when there is room; nothing when disabled.
Acquire ==
    /\ limit > 0 => semaphore < limit
    /\ semaphore' = IF limit > 0 THEN semaphore + 1 ELSE semaphore

\* An observer wraps the writer; status is StatusOK until WriteHeader is called.
Wrap(r) == rw' = IF Layer(r) \in Observers THEN [rw EXCEPT ![r][Layer(r)] = 200] ELSE rw

\* A layer calls next.ServeHTTP.
Descend(r) ==
    /\ at[r] \in 1..(Len(Chain) - 1)
    /\ flow[r] = "down"
    /\ at' = [at EXCEPT ![r] = @ + 1]
    /\ Wrap(r)
    /\ IF Layer(r) = "ConcurrencyLimit" THEN Acquire ELSE UNCHANGED semaphore
    /\ span' = IF Layer(r) = "Tracing" THEN [span EXCEPT ![r] = "open"] ELSE span
    /\ UNCHANGED <<flow, sent, logged, counted, traced, panicked>>

\* Slip: the writer of Tracing does not override WriteHeader.
WriteStatusPastTracing(r, code) ==
    /\ sent' = [sent EXCEPT ![r] = code]
    /\ rw' = [rw EXCEPT ![r] = [o \in Observers |->
                  IF Position(o) < at[r] /\ o # "Tracing" THEN code ELSE @[o]]]

\* The layer a request is at calls WriteHeader: the writers of the observers above
\* it keep the status and pass it on, down to the wire.
WriteStatus(r, code) ==
    /\ sent' = [sent EXCEPT ![r] = code]
    /\ rw' = [rw EXCEPT ![r] = [o \in Observers |-> IF Position(o) < at[r] THEN code ELSE @[o]]]

\* The answers layers give instead of calling next.  RequestID gives none,
\* crypto/rand no longer failing.
MaxBodyAnswers          == {413}
ConcurrencyLimitAnswers == IF limit > 0 /\ semaphore = limit THEN {503} ELSE {}
JWTAuthAnswers          == {401}
RequireAnyRoleAnswers   == {403}   \* claims are there: validate insists on auth
RateLimitAnswers        == {429}   \* an error of the limiter lets the request pass

Answers(layer) ==
    CASE layer = "MaxBody"          -> MaxBodyAnswers
      [] layer = "ConcurrencyLimit" -> ConcurrencyLimitAnswers
      [] layer = "JWTAuth"          -> JWTAuthAnswers
      [] layer = "RequireAnyRole"   -> RequireAnyRoleAnswers
      [] layer = "RateLimit"        -> RateLimitAnswers
      [] OTHER                      -> {}

\* Slip: a full semaphore makes requests wait.
RefuseExceptOverload(r) ==
    /\ at[r] # 0 /\ flow[r] = "down"
    /\ Layer(r) # "ConcurrencyLimit"
    /\ \E status \in Answers(Layer(r)) : WriteStatus(r, status)
    /\ flow' = [flow EXCEPT ![r] = "return"]
    /\ at' = [at EXCEPT ![r] = @ - 1]
    /\ UNCHANGED <<semaphore, seen, panicked>>

Refuse(r) ==
    /\ at[r] # 0 /\ flow[r] = "down"
    /\ \E status \in Answers(Layer(r)) : WriteStatus(r, status)
    /\ flow' = [flow EXCEPT ![r] = "return"]
    /\ at' = [at EXCEPT ![r] = @ - 1]
    /\ UNCHANGED <<semaphore, seen, panicked>>

\* The handler answers ...
Serve(r) ==
    /\ Layer(r) = "handler" /\ flow[r] = "down"
    /\ \E status \in {200, 413, 502, 503} : WriteStatus(r, status)
    /\ flow' = [flow EXCEPT ![r] = "return"]
    /\ at' = [at EXCEPT ![r] = @ - 1]
    /\ UNCHANGED <<semaphore, seen, panicked>>

\* ... or panics, before it has written anything or, when the upstream's body
\* breaks off, after.
Panic(r) ==
    /\ Layer(r) = "handler" /\ flow[r] = "down"
    /\ WriteStatus(r, 200) \/ UNCHANGED <<sent, rw>>
    /\ flow' = [flow EXCEPT ![r] = "panic"]
    /\ at' = [at EXCEPT ![r] = @ - 1]
    /\ panicked' = [panicked EXCEPT ![r] = TRUE]
    /\ UNCHANGED <<semaphore, seen>>

\* Slip: the slot is given back only on return.
ReleaseOnReturn(r) ==
    semaphore' = IF limit > 0 /\ flow[r] = "return" THEN semaphore - 1 ELSE semaphore

\* defer func() { <-semaphore }()
Release(r) == semaphore' = IF limit > 0 THEN semaphore - 1 ELSE semaphore

\* Slip: span.End is not deferred.
EndSpanOnReturn(r) ==
    span' = IF flow[r] = "return" THEN [span EXCEPT ![r] = "ended"] ELSE span

\* defer span.End()
EndSpan(r) == span' = [span EXCEPT ![r] = "ended"]

\* What an observer records after next.ServeHTTP: the status its own writer kept.
\* Nothing of it is deferred, so a panic skips it.
Observe(r, record) ==
    IF flow[r] = "return" THEN [record EXCEPT ![r] = rw[r][Layer(r)]] ELSE record

Log(r)   == logged'  = IF Layer(r) = "Logger"  THEN Observe(r, logged)  ELSE logged
Count(r) == counted' = IF Layer(r) = "Metrics" THEN Observe(r, counted) ELSE counted
Trace(r) == traced'  = IF Layer(r) = "Tracing" THEN Observe(r, traced)  ELSE traced

\* Recoverer ends a panic with a 500, past the observers' writers; it reaches the
\* wire only if no status has been written before.
Recover(r) ==
    /\ flow' = [flow EXCEPT ![r] = "return"]
    /\ sent' = IF flow[r] = "panic" /\ sent[r] = 0 THEN [sent EXCEPT ![r] = 500] ELSE sent

\* A request leaves a layer on its way up.
Ascend(r) ==
    /\ at[r] # 0 /\ flow[r] # "down"
    /\ at' = [at EXCEPT ![r] = @ - 1]
    /\ Log(r) /\ Count(r) /\ Trace(r)
    /\ IF Layer(r) = "Tracing" THEN EndSpan(r) ELSE UNCHANGED span
    /\ IF Layer(r) = "ConcurrencyLimit" THEN Release(r) ELSE UNCHANGED semaphore
    /\ IF Layer(r) = "Recoverer" THEN Recover(r) ELSE UNCHANGED <<flow, sent>>
    /\ UNCHANGED <<rw, panicked>>

\* The gateway's own steps, which nothing outside can hold up.
Step(r) == Descend(r) \/ Refuse(r) \/ Ascend(r)

Next == \E r \in Requests : Arrive(r) \/ Step(r) \/ Serve(r) \/ Panic(r)

Spec == Init /\ [][Next]_vars

\* Handlers may hang for ever.
FairSpec == Spec /\ \A r \in Requests : WF_vars(Step(r))

----------------------------------------------------------------------------

\* The requests ConcurrencyLimit has let through and not yet seen back.
InFlight ==
    LET gate == Position("ConcurrencyLimit") IN
    {r \in Requests : at[r] > gate \/ (at[r] = gate /\ flow[r] # "down")}

\* The semaphore counts exactly the requests in flight, so that no more than
\* the limit ever are, and a panic does not cost a slot.
SlotsAccounted == limit > 0 => semaphore = Cardinality(InFlight)

Finished(r) == at[r] = 0 /\ flow[r] = "return"

\* Whatever a request's fate, the span it opened is ended when it is over.
SpansEnded == \A r \in Requests : Finished(r) => span[r] # "open"

\* Unless the handler panicked, the log, the counter and the span report the
\* status the client was sent, although each learns it from a writer of its own:
\* whatever layer answers, its status passes the writers of all observers above.
\* Only what MaxBody answers, above Metrics and Tracing, is not counted.
ObserversAgree ==
    \A r \in Requests :
        Finished(r) /\ ~panicked[r] =>
            /\ logged[r] = sent[r]
            /\ counted[r] = traced[r]
            /\ counted[r] \in {sent[r], 0}
            /\ counted[r] = 0 => sent[r] = 413

\* "sheds requests ... to keep goroutines from piling up": however long
\* handlers take, no request waits before it is at its handler or is answered.
NeverQueued ==
    \A r \in Requests : at[r] # 0 ~> (at[r] = 0 \/ Layer(r) = "handler")

\* "logs every request".
LogsEveryRequest == \A r \in Requests : Finished(r) => logged[r] = sent[r]

\* "catches panics ... and responds with a 500 JSON error".
PanicsAnswered500 ==
    \A r \in Requests : Finished(r) /\ panicked[r] => sent[r] = 500
=============================================================================
