------------------------------ MODULE Compress ------------------------------
(***************************************************************************)
(* compressWriter of internal/middleware/compress.go: one response written *)
(* by the inner handler in pieces, for a client that accepts gzip.  Bytes  *)
(* are counted; what the wire carries is a count of plain bytes and one of *)
(* bytes that went through gzip.                                           *)
(***************************************************************************)
EXTENDS Naturals

CONSTANTS
    minSize,
    Pieces,    \* lengths of a Write, zero included
    MaxBody    \* bound: bytes the handler writes

ASSUME CompressAssumption ==
    minSize \in Nat /\ MaxBody \in Nat /\ Pieces \subseteq Nat

VARIABLES
    phase,                          \* "handler", "returned" or "panicked"
    encoding,                       \* Content-Encoding in the header map: "", "gzip", "other"
    compressible,                   \* what isCompressibleType says of the response
    statusCode, wroteHead, compress, buf,   \* compressWriter
    closed,                         \* the gzip stream has its trailer
    head,                           \* what was sent: the status and encoding, status 0 before
    plain, zipped,                  \* bytes on the wire
    written                         \* bytes the handler wrote           (history)

writer == <<statusCode, wroteHead, compress, buf>>
wire   == <<closed, head, plain, zipped>>
compressVars == <<phase, encoding, compressible, writer, wire, written>>

Codes  == {200, 404}
Encodings == {"", "gzip", "other"}

CompressTypeOK ==
    /\ phase \in {"handler", "returned", "panicked"}
    /\ encoding \in Encodings
    /\ compressible \in BOOLEAN
    /\ statusCode \in Codes \cup {0}
    /\ wroteHead \in BOOLEAN
    /\ compress \in BOOLEAN
    /\ buf \in 0..MaxBody
    /\ closed \in BOOLEAN
    /\ head \in [status: Codes \cup {0}, encoding: Encodings]
    /\ wroteHead <=> head.status # 0
    /\ plain \in 0..MaxBody
    /\ zipped \in 0..MaxBody
    /\ written \in 0..MaxBody

\* The upstream may have encoded the body itself.
CompressInit ==
    /\ phase = "handler"
    /\ encoding \in Encodings
    /\ compressible \in BOOLEAN
    /\ statusCode = 0
    /\ wroteHead = FALSE
    /\ compress = FALSE
    /\ buf = 0
    /\ closed = FALSE
    /\ head = [status |-> 0, encoding |-> ""]
    /\ plain = 0
    /\ zipped = 0
    /\ written = 0

----------------------------------------------------------------------------

WriteHeader(code) ==
    /\ phase = "handler"
    /\ statusCode' = code
    /\ UNCHANGED <<phase, encoding, compressible, wroteHead, compress, buf, wire, written>>

\* Slip: an encoding the upstream has applied is not looked at.
DecideByType == compressible

\* decide: nothing the upstream has encoded, and only what is worth it.
Decide == encoding = "" /\ compressible

\* flushBuffered, after the choice was made: n buffered bytes follow the head.
FlushBuffered(zip, n) ==
    /\ compress' = zip
    /\ encoding' = IF zip THEN "gzip" ELSE encoding
    /\ head' = [status |-> IF statusCode = 0 THEN 200 ELSE statusCode, encoding |-> encoding']
    /\ wroteHead' = TRUE
    /\ zipped' = IF zip THEN n ELSE 0
    /\ plain' = IF zip THEN 0 ELSE n
    /\ buf' = 0

\* Write once the head is out.
PassOn(n) ==
    /\ wroteHead
    /\ zipped' = IF compress THEN zipped + n ELSE zipped
    /\ plain' = IF compress THEN plain ELSE plain + n
    /\ UNCHANGED <<encoding, wroteHead, compress, buf, head>>

\* Write while the body is short.
Gather(n) ==
    /\ ~wroteHead
    /\ buf + n < minSize
    /\ buf' = buf + n
    /\ UNCHANGED <<encoding, wroteHead, compress, head, plain, zipped>>

\* Write that reaches minSize.
Cross(n) ==
    /\ ~wroteHead
    /\ buf + n >= minSize
    /\ FlushBuffered(Decide, buf + n)

Write(n) ==
    /\ phase = "handler"
    /\ written + n <= MaxBody
    /\ PassOn(n) \/ Gather(n) \/ Cross(n)
    /\ written' = written + n
    /\ UNCHANGED <<phase, compressible, statusCode, closed>>

\* Slip: a short body is left in the buffer.
FinishLosesShort ==
    /\ phase = "handler"
    /\ phase' = "returned"
    /\ closed' = compress
    /\ IF wroteHead
       THEN UNCHANGED <<encoding, wroteHead, compress, buf, head, plain, zipped>>
       ELSE FlushBuffered(FALSE, 0)
    /\ UNCHANGED <<compressible, statusCode, written>>

\* The handler returns; finish sends a body that stayed short as it is, or
\* closes the gzip stream.
Finish ==
    /\ phase = "handler"
    /\ phase' = "returned"
    /\ closed' = compress
    /\ IF wroteHead
       THEN UNCHANGED <<encoding, wroteHead, compress, buf, head, plain, zipped>>
       ELSE FlushBuffered(FALSE, buf)
    /\ UNCHANGED <<compressible, statusCode, written>>

\* The handler panics; finish is not deferred.
HandlerPanics ==
    /\ phase = "handler"
    /\ phase' = "panicked"
    /\ UNCHANGED <<encoding, compressible, writer, wire, written>>

CompressNext ==
    \/ \E code \in Codes : WriteHeader(code)
    \/ \E n \in Pieces : Write(n)
    \/ Finish
    \/ HandlerPanics

CompressSpec == CompressInit /\ [][CompressNext]_compressVars

----------------------------------------------------------------------------

\* However the handler cuts its writes, the client gets every byte, and all of
\* them in the one coding the head announces.
BodyIntact ==
    /\ phase = "returned" => plain + zipped = written /\ buf = 0
    /\ plain = 0 \/ zipped = 0
    /\ compress => zipped = written /\ head.encoding = "gzip"
    /\ phase = "returned" => closed = compress

\* What is sent compressed was at least minSize bytes long, compressible, and
\* not encoded before: the upstream's own encoding is passed on untouched.
OnlyWorthwhile ==
    [][compress' /\ ~compress => encoding = "" /\ compressible /\ zipped' >= minSize]_compressVars
=============================================================================
