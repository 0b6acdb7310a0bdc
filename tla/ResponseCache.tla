--------------------------- MODULE ResponseCache ---------------------------
(***************************************************************************)
(* internal/middleware/cache.go for the GETs of one path and query.        *)
(* Handlers interleave between the read of the Vary list, the lookup, the  *)
(* singleflight call, the capture, the update of the Vary list and Set.    *)
(* The LRU underneath is what LRU is shown to be, a LossyStore.            *)
(* singleflight, http.Header and the reverse proxy's panics are external.  *)
(*                                                                         *)
(* A header field is the sequence of its lines.  A line of Vary is a       *)
(* sequence of header names.  A line of another field, and a key, is text: *)
(* a sequence of words, one of which may be the name of a header; that     *)
(* stands for the text "|name=", wherever it comes from.                   *)
(***************************************************************************)
EXTENDS Naturals, Sequences, FiniteSets, Functions

CONSTANTS
    Requests,
    Headers,      \* request headers a response may vary on
    Words,        \* what text consists of
    Fields,       \* the fields Headers of a request
    VaryFields,   \* the Vary fields of a response; Compress inside puts a line
                  \* of its own before the upstream's
    MaxEntries,   \* how many entries of the path the LRU holds
    MaxVersion,   \* how often the resource may change            (bound)
    None

ASSUME CacheAssumption ==
    /\ Headers \subseteq Words
    /\ Fields # {} /\ Fields \subseteq [Headers -> Seq(Seq(Words))]
    /\ VaryFields \subseteq Seq(Seq(Headers))
    /\ MaxVersion \in Nat
ASSUME NoneAssumption == \A waiting \in SUBSET Requests : waiting # None

VARIABLES
    store,    \* the cache: per key an entry, or None
    vary,     \* varyState: the Vary list the path last advertised
    flight,   \* singleflight: per key the requests waiting, or None
    stage,    \* per request, see Stages
    hdr,      \* per request: its fields Headers
    key,      \* per request: the key built when it arrived
    resp,     \* per request: the response it has captured or been given
    source,   \* per request: where resp comes from: "own", "shared", "cache"
    version,  \* the resource's version at the upstream            (environment)
    kept      \* the keys whose entry was stored by a call made for the key
              \* itself, not for another                           (history)

request == <<stage, hdr, key, resp, source>>
vars == <<store, vary, flight, request, version, kept>>

\* http.Header.Get returns the first line of a field, or the empty string.
FirstLine(field) == IF field = <<>> THEN <<>> ELSE Head(field)

\* What a Vary list may be: nil, or the names parsed from the first line of Vary.
Lists == {<<>>} \cup {FirstLine(field) : field \in VaryFields}

\* buildKey: "|name=value" for one header after the other, nothing escaped.
BuildKey(h, list) ==
    LET text[n \in 0..Len(list)] ==
            IF n = 0 THEN <<>> ELSE (text[n - 1] \o <<list[n]>>) \o FirstLine(h[list[n]])
    IN  text[Len(list)]

Keys == {BuildKey(h, list) : h \in Fields, list \in Lists}

\* What cacheableResponse is asked about: the status, the directives of the
\* response's Cache-Control, Vary: * and the request's Authorization header.
Terms ==
    [ok: BOOLEAN, cc: SUBSET {"no-store", "private", "public"}, varyAny: BOOLEAN,
     authorized: BOOLEAN]

\* Slip: the Authorization header of the request is not looked at.
CacheableResponseToAnyone(t) ==
    t.ok /\ t.cc \cap {"no-store", "private"} = {} /\ ~t.varyAny

CacheableResponse(t) ==
    /\ t.ok
    /\ "no-store" \notin t.cc
    /\ "private" \notin t.cc
    /\ ~t.varyAny
    /\ t.authorized => "public" \in t.cc

\* Meant for the one who asked: "responses to authenticated requests unless the
\* response opts in via public".
Personal(t) == t.authorized /\ "public" \notin t.cc

\* A captured response: the request headers it answers, its Vary field, the
\* version it shows, what cacheableResponse says of it and whether it is
\* personal.
Responses ==
    [for: Fields, vary: VaryFields, version: 0..MaxVersion, cacheable: BOOLEAN, personal: BOOLEAN]

\* The terms of a response come to these two facts.
Verdicts == {<<CacheableResponse(t), Personal(t)>> : t \in Terms}

AnyVary == CHOOSE field \in VaryFields : TRUE

\* What the upstream may answer r now.  Of an uncacheable response nothing is
\* looked at any more, so one that says little stands for all.
Answers(r) ==
    {e \in Responses :
        /\ e.for = hdr[r] /\ e.version = version
        /\ <<e.cacheable, e.personal>> \in Verdicts
        /\ e.cacheable \/ (e.vary = AnyVary /\ ~e.personal)}

\* parseVary(cw.header.Get("Vary"))
ParsedVary(response) == FirstLine(response.vary)

Entries == {e \in Responses : e.cacheable}

LS == INSTANCE LossyStore WITH got <- None

Stages == {"idle", "bypass", "lookup", "reload", "missed", "waiting", "fetching",
           "captured", "recorded", "filled", "aborted", "served"}

AnyHeaders == CHOOSE h \in Fields : TRUE

TypeOK ==
    /\ store \in [Keys -> Entries \cup {None}]
    /\ vary \in Lists
    /\ flight \in [Keys -> (SUBSET Requests) \cup {None}]
    /\ stage \in [Requests -> Stages]
    /\ hdr \in [Requests -> Fields]
    /\ key \in [Requests -> Keys]
    /\ resp \in [Requests -> Responses \cup {None}]
    /\ source \in [Requests -> {"own", "shared", "cache"}]
    /\ version \in 0..MaxVersion
    /\ kept \subseteq Keys

Init ==
    /\ store = [k \in Keys |-> None]
    /\ vary = <<>>
    /\ flight = [k \in Keys |-> None]
    /\ stage = [r \in Requests |-> "idle"]
    /\ hdr = [r \in Requests |-> AnyHeaders]
    /\ key = [r \in Requests |-> BuildKey(AnyHeaders, <<>>)]
    /\ resp = [r \in Requests |-> None]
    /\ source = [r \in Requests |-> "own"]
    /\ version = 0
    /\ kept = {}

----------------------------------------------------------------------------

\* Moves request r to a stage.
At(r, from, to) == stage[r] = from /\ stage' = [stage EXCEPT ![r] = to]

Give(r, response, from) ==
    /\ resp' = [resp EXCEPT ![r] = response]
    /\ source' = [source EXCEPT ![r] = from]

\* Request r arrives.  With no-store it passes through; otherwise its key is built
\* from the list varyState holds at that moment, and no-cache skips the lookup.
Arrive(r, h) ==
    /\ \/ At(r, "idle", "bypass") /\ UNCHANGED <<hdr, key>>
       \/ /\ At(r, "idle", "lookup") \/ At(r, "idle", "reload")
          /\ hdr' = [hdr EXCEPT ![r] = h]
          /\ key' = [key EXCEPT ![r] = BuildKey(h, vary)]
    /\ UNCHANGED <<store, vary, flight, resp, source, version, kept>>

\* c.Get(key): a hit is served, a miss goes on to singleflight.
Lookup(r) ==
    /\ \/ At(r, "lookup", "served") /\ store[key[r]] # None /\ Give(r, store[key[r]], "cache")
       \/ At(r, "lookup", "missed") /\ store[key[r]] = None /\ UNCHANGED <<resp, source>>
    /\ UNCHANGED <<store, vary, flight, hdr, key, version, kept>>

\* A no-store request goes straight to the next handler, which answers it.
Bypass(r) ==
    /\ At(r, "bypass", "idle")
    /\ UNCHANGED <<store, vary, flight, hdr, key, resp, source, version, kept>>

\* Slip: calls are collapsed by as many headers as can be, not by the key.
FlightKeyTooFine(r) ==
    BuildKey(hdr[r], CHOOSE list \in Lists : \A other \in Lists : Len(other) <= Len(list))

FlightKey(r) == key[r]

\* sf.Do(key): joins the call in progress for the key, or makes it.
Join(r) ==
    /\ At(r, "missed", "waiting") \/ At(r, "reload", "waiting")
    /\ flight[FlightKey(r)] # None
    /\ flight' = [flight EXCEPT ![FlightKey(r)] = @ \cup {r}]
    /\ UNCHANGED <<store, vary, hdr, key, resp, source, version, kept>>

Lead(r) ==
    /\ At(r, "missed", "fetching") \/ At(r, "reload", "fetching")
    /\ flight[FlightKey(r)] = None
    /\ flight' = [flight EXCEPT ![FlightKey(r)] = {}]
    /\ UNCHANGED <<store, vary, hdr, key, resp, source, version, kept>>

\* fillCache: next.ServeHTTP has written the whole response to the capture.
Capture(r, response) ==
    /\ At(r, "fetching", "captured")
    /\ Give(r, response, "own")
    /\ UNCHANGED <<store, vary, flight, hdr, key, version, kept>>

\* next.ServeHTTP panics: the reverse proxy aborts when the upstream's body
\* breaks off.
Abort(r) ==
    /\ At(r, "fetching", "aborted")
    /\ UNCHANGED <<store, vary, flight, hdr, key, resp, source, version, kept>>

\* An uncacheable response ends fillCache; for a cacheable one varyState learns
\* its Vary list ...
Record(r) ==
    /\ \/ At(r, "captured", "recorded") /\ resp[r].cacheable /\ vary' = ParsedVary(resp[r])
       \/ At(r, "captured", "filled") /\ ~resp[r].cacheable /\ UNCHANGED vary
    /\ UNCHANGED <<store, flight, hdr, key, resp, source, version, kept>>

\* Slip: the entry is stored under the key of the lookup.
FinalKeyOfLookup(r) == key[r]

\* The key is built again with the list parsed from the response.
FinalKey(r) == BuildKey(hdr[r], ParsedVary(resp[r]))

\* What the LRU leaves of the entries in s, of which those in own are kept.
LeftOf(s, own) ==
    /\ store' \in LS!Remains(s)
    /\ Cardinality({k \in Keys : store'[k] # None}) <= MaxEntries
    /\ kept' = {k \in own : store'[k] # None}

\* ... and the entry is stored; the LRU may drop any others, or this one.
Store(r) ==
    /\ At(r, "recorded", "filled")
    /\ LeftOf([store EXCEPT ![FinalKey(r)] = resp[r]],
              (kept \ {FinalKey(r)}) \cup ({FinalKey(r)} \cap {key[r]}))
    /\ UNCHANGED <<vary, flight, hdr, key, resp, source, version>>

\* Requests whose handlers have returned: nothing of them stays.
Forget(gone) ==
    /\ hdr' = [q \in Requests |-> IF q \in gone THEN AnyHeaders ELSE hdr[q]]
    /\ key' = [q \in Requests |-> IF q \in gone THEN BuildKey(AnyHeaders, <<>>) ELSE key[q]]

\* The call of singleflight ends: everyone who waited gets the leader's response,
\* or its panic, and the leader is done.
EndFlight(r) ==
    LET woken == flight[FlightKey(r)]
        gone  == IF stage[r] = "aborted" THEN woken \cup {r} ELSE {r}
        To(left, given, else) ==
            [q \in Requests |-> IF q \in gone THEN left ELSE IF q \in woken THEN given ELSE else[q]]
    IN  /\ stage[r] \in {"filled", "aborted"}
        /\ stage' = To("idle", "served", stage)
        /\ resp' = To(None, resp[r], resp)
        /\ source' = To("own", "shared", source)
        /\ Forget(gone)
        /\ flight' = [flight EXCEPT ![FlightKey(r)] = None]
        /\ UNCHANGED <<store, vary, version, kept>>

\* The handler has written the answer and returns.
Leave(r) ==
    /\ At(r, "served", "idle")
    /\ Forget({r})
    /\ Give(r, None, "own")
    /\ UNCHANGED <<store, vary, flight, version, kept>>

\* Entries expire, or other paths push them out.
Lose ==
    /\ LeftOf(store, kept)
    /\ UNCHANGED <<vary, flight, request, version>>

\* The resource changes at the upstream.
Change ==
    /\ version < MaxVersion
    /\ version' = version + 1
    /\ UNCHANGED <<store, vary, flight, request, kept>>

Handle(r) ==
    \/ Lookup(r) \/ Bypass(r) \/ Join(r) \/ Lead(r) \/ Abort(r)
    \/ \E response \in Answers(r) : Capture(r, response)
    \/ Record(r) \/ Store(r) \/ EndFlight(r) \/ Leave(r)

Next ==
    \/ \E r \in Requests : Handle(r)
    \/ \E r \in Requests, h \in Fields : Arrive(r, h)
    \/ Lose \/ Change

Spec == Init /\ [][Next]_vars

----------------------------------------------------------------------------

\* The headers a response says to vary on, in all lines of Vary.
VariesOn(response) == UNION {Range(line) : line \in Range(response.vary)}

\* The response suits the request: they agree on the headers it varies on.
Suits(r) == \A x \in VariesOn(resp[r]) : resp[r].for[x] = hdr[r][x]

\* Header fields of at most one line, not empty, and without "|name=" in it.
Plain(h) ==
    \A x \in Headers :
        Len(h[x]) <= 1 /\ \A line \in Range(h[x]) : line # <<>> /\ Range(line) \cap Headers = {}

\* "keys entries by ... Vary header values": a cache hit suits the request it
\* is served to, although key and Vary list are read at different times and the
\* list may change in between.  The code takes it for granted that a field has
\* one line, Vary included, and that "|" and "=" are enough to tell the parts of
\* a key apart: with more lines, or a value that looks like such a part, two
\* requests or two lists may share a key.
HitsSuit ==
    \A r \in Requests :
        /\ stage[r] = "served" /\ source[r] = "cache"
        /\ Plain(hdr[r]) /\ Plain(resp[r].for) /\ Len(resp[r].vary) <= 1
        => Suits(r)

\* The same of all requests and responses.
EveryHitSuits ==
    \A r \in Requests : stage[r] = "served" /\ source[r] = "cache" => Suits(r)

\* "refuse responses to authenticated requests unless the response opts in via
\* public": no hit hands one client what was meant for another, whoever filled
\* the cache and however the fill was keyed.
HitsImpersonal ==
    \A r \in Requests : stage[r] = "served" /\ source[r] = "cache" => ~resp[r].personal

\* Fills for a key never go back to an older version, although requests overlap
\* with one another and with changes of the resource: singleflight runs the calls
\* of a key one after the other, and a call stores before it ends.  That orders
\* calls whose entry goes under the key they were made for.  An entry that went
\* under another key, because its response named another Vary list than was known
\* when its request arrived, can still replace a newer one or be replaced by an
\* older one.
FillsAdvance ==
    [][\A k \in Keys :
          store[k] # None /\ store'[k] # None /\ k \in kept \cap kept' =>
              store'[k].version >= store[k].version]_vars

\* The same of all fills.
EveryFillAdvances ==
    [][\A k \in Keys :
          store[k] # None /\ store'[k] # None => store'[k].version >= store[k].version]_vars

\* "keys entries by ... Vary header values", for the entries singleflight hands
\* to the requests that waited.
SharedSuit ==
    \A r \in Requests :
        stage[r] = "served" /\ source[r] = "shared" /\ resp[r].cacheable => Suits(r)

\* "Uncacheable response: replay the captured bytes once."
ReplayedOnce ==
    \A r \in Requests : stage[r] = "served" /\ ~resp[r].cacheable => source[r] = "own"

\* "Singleflight collapses concurrent misses for the same key into one upstream
\* call": no upstream call starts for a plain request whose entry is there.
MissesCollapse ==
    [][\A r \in Requests :
          Lead(r) /\ stage[r] = "missed" => store[key[r]] = None]_vars
=============================================================================
