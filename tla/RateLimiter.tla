----------------------------- MODULE RateLimiter -----------------------------
(***************************************************************************)
(* rate_limit_middleware: the key a request is counted under, and          *)
(* RateLimiter::check, one token bucket per key in a map of at most        *)
(* MAX_RATE_LIMIT_KEYS buckets.  The whole call holds the mutex, so it is  *)
(* one step; time passes between calls.                                    *)
(*                                                                         *)
(* A level is a number of tokens times Per, so that the refill rate        *)
(* max / per is the integer Burst per tick and a request costs Per.        *)
(***************************************************************************)
EXTENDS Integers, FiniteSets, FiniteSetsExt

CONSTANTS
    Requests,   \* what callers send: [basic, query, form, class, ip]
    None,       \* the carrier names no client, or the address is unknown
    Burst,      \* max: requests per period
    Per,        \* the period, in ticks
    MaxKeys,    \* MAX_RATE_LIMIT_KEYS
    MaxTime,    \* bound on the clock
    MaxCalls    \* bound on the requests of a key let through in one tick

-----------------------------------------------------------------------------
(* The bucket of a request: the client_id of the Basic header, else of the *)
(* query, else of the form; without one, the address for registrations and *)
(* the endpoint class for everything else.                                 *)

ClientOf(q) ==
    IF q.basic # None THEN q.basic
    ELSE IF q.query # None THEN q.query ELSE q.form

AnonymousBucketKey(q) ==
    IF q.class = "register" /\ q.ip # None
    THEN <<"register-ip", q.ip>> ELSE <<"global", q.class>>

\* (mutant) everything without a client_id shares one bucket.
KeyOfOneGlobal(q) ==
    IF ClientOf(q) # None THEN <<"client", ClientOf(q)>> ELSE <<"global", "other">>

KeyOf(q) ==
    IF ClientOf(q) # None THEN <<"client", ClientOf(q)>> ELSE AnonymousBucketKey(q)

BucketKeys == {KeyOf(q) : q \in Requests}

-----------------------------------------------------------------------------
VARIABLES
    now,
    buckets,    \* the map: key -> [level, last], its domain the tracked keys
    admitted,   \* history: admitted[q][t], requests q let through at t
    denied      \* what the last call refused: one request, or none

vars == <<now, buckets, admitted, denied>>

Full == Burst * Per

Times == 0 .. MaxTime

TypeOK ==
    /\ now \in Times
    /\ DOMAIN buckets \subseteq BucketKeys
    /\ Cardinality(DOMAIN buckets) <= MaxKeys
    /\ \A k \in DOMAIN buckets : buckets[k] \in [level: 0 .. Full, last: Times]
    /\ admitted \in [Requests -> [Times -> Nat]]
    /\ denied \subseteq Requests

Init ==
    /\ now = 0
    /\ buckets = <<>>
    /\ admitted = [q \in Requests |-> [t \in Times |-> 0]]
    /\ denied = {}

KeepOnly(keys) == [k \in keys |-> buckets[k]]

\* retain: the buckets whose stored level is below full.
BelowFull == {k \in DOMAIN buckets : buckets[k].level < Full}

\* (mutant) a full map is only thinned out, never cleared.
RoomOnlyRetain(k) ==
    IF k \notin DOMAIN buckets /\ Cardinality(DOMAIN buckets) >= MaxKeys
    THEN KeepOnly(BelowFull) ELSE buckets

\* A new key in a full map: evict the full buckets, and all if that is not
\* enough.
RoomFor(k) ==
    IF k \notin DOMAIN buckets /\ Cardinality(DOMAIN buckets) >= MaxKeys
    THEN IF Cardinality(BelowFull) >= MaxKeys THEN <<>> ELSE KeepOnly(BelowFull)
    ELSE buckets

\* The level a bucket has by now.
Refilled(b) == Min({b.level + (now - b.last) * Burst, Full})

Put(map, k, b) == [j \in DOMAIN map \cup {k} |-> IF j = k THEN b ELSE map[j]]

Check(q) ==
    LET k == KeyOf(q)
        map == RoomFor(k)
        level == IF k \in DOMAIN map THEN Refilled(map[k]) ELSE Full
    IN  /\ admitted[q][now] < MaxCalls
        /\ IF level >= Per
           THEN /\ buckets' = Put(map, k, [level |-> level - Per, last |-> now])
                /\ admitted' = [admitted EXCEPT ![q][now] = @ + 1]
                /\ denied' = {}
                /\ UNCHANGED now
           ELSE /\ buckets' = Put(map, k, [level |-> level, last |-> now])
                /\ denied' = {q}
                /\ UNCHANGED <<now, admitted>>

Tick ==
    /\ now < MaxTime
    /\ now' = now + 1
    /\ denied' = {}
    /\ UNCHANGED <<buckets, admitted>>

Next == Tick \/ \E q \in Requests : Check(q)

Spec == Init /\ [][Next]_vars

-----------------------------------------------------------------------------
(* Properties.                                                             *)

AdmittedBetween(k, a, b) ==
    MapThenSumSet(LAMBDA q : MapThenSumSet(LAMBDA t : admitted[q][t], a .. b),
                  {q \in Requests : KeyOf(q) = k})

\* Over any stretch of time a key is let through at most one full bucket plus
\* what the stretch refills, however its calls are spread (the cap of the
\* refill, and the stamp of `last` on refused calls too).
RateBound ==
    \A k \in BucketKeys : \A a \in 0 .. now : \A b \in a .. now :
        AdmittedBetween(k, a, b) * Per <= Full + (b - a) * Burst

\* Requests that may use up each other's tokens: of one client, or of callers
\* that name none and use one class of endpoints, registrations from one
\* address only.
SameParty(q, r) ==
    \/ ClientOf(q) # None /\ ClientOf(q) = ClientOf(r)
    \/ /\ ClientOf(q) = None /\ ClientOf(r) = None
       /\ q.class = r.class
       /\ q.class = "register" => q.ip = r.ip

\* A request is refused only for its own party's requests: one of them was
\* let through so recently that no token has come back since.  No other
\* client, no other endpoint class and no eviction can starve it.
DeniedForItsOwn ==
    \A q \in denied : \E r \in Requests, a \in 0 .. now :
        /\ SameParty(q, r)
        /\ admitted[r][a] > 0
        /\ (now - a) * Burst < Per
=============================================================================
