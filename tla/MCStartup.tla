----------------------------- MODULE MCStartup -----------------------------
(* Model-checking instance of Startup. *)
EXTENDS Startup

\* An entry with everything in it that can be wrong comes first ...
AnyService ==
    [name: {"", "a"}, prefix: {"", "/a"}, upstreams: BOOLEAN, auth: BOOLEAN, roles: BOOLEAN,
     rateLimit: ServiceRateLimits \cup {None}, cache: ServiceCaches \cup {None}]

\* ... and plain ones follow, with any name and prefix.
PlainService ==
    [name: Names, prefix: PathPrefixes, upstreams: {TRUE}, auth: {FALSE}, roles: {FALSE},
     rateLimit: {None}, cache: {None}]
=============================================================================
