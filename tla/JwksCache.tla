------------------------------ MODULE JwksCache ------------------------------
(***************************************************************************)
(* The in-memory JWKS cache of one replica, for one jwks_url: requests     *)
(* that validate ID tokens read it under a lock, fetch the key set without *)
(* the lock when the entry is missing or old, and write what they got.     *)
(* The upstream provider rotates its keys; a version is one published set. *)
(***************************************************************************)
EXTENDS Naturals, FiniteSets

CONSTANTS
    Lookups,        \* callbacks in progress
    Ttl,            \* JWKS_CACHE_TTL, in ticks
    JwksMaxTime,    \* bound on the clock
    MaxVersion,     \* bound on rotations
    NoKeys

ASSUME JwksAssumption ==
    /\ Ttl \in Nat \ {0}
    /\ JwksMaxTime \in Nat
    /\ MaxVersion \in Nat \ {0}
    /\ NoKeys \notin Nat

VARIABLES
    clock,     \* the monotonic clock
    version,   \* the set the provider publishes
    replaced,  \* replaced[v]: when set v was replaced, or NoKeys
    entry,     \* the entry: [keys, at], or NoKeys
    lookup,    \* lookup[r]: pc, the `now` it took and the keys it fetched
    used       \* history: the last lookup answered, <<keys, `now` of the request>>

jwksVars == <<clock, version, replaced, entry, lookup, used>>

JwksTimes == 0..JwksMaxTime
Versions == 1..MaxVersion
NoLookup == [pc |-> "idle", at |-> 0, keys |-> NoKeys]

\* The type invariant: an entry is never stamped later than the clock.
JwksTypeOK ==
    /\ clock \in JwksTimes
    /\ version \in Versions
    /\ replaced \in [Versions -> JwksTimes \cup {NoKeys}]
    /\ entry \in [keys: Versions, at: 0..clock] \cup {NoKeys}
    /\ lookup \in [Lookups -> [pc: {"idle", "lock", "fetch", "insert"}, at: JwksTimes,
                               keys: Versions \cup {NoKeys}]]
    /\ used \subseteq Versions \X JwksTimes

JwksInit ==
    /\ clock = 0
    /\ version = 1
    /\ replaced = [v \in Versions |-> NoKeys]
    /\ entry = NoKeys
    /\ lookup = [r \in Lookups |-> NoLookup]
    /\ used = {}

JwksTick ==
    /\ clock < JwksMaxTime
    /\ clock' = clock + 1
    /\ UNCHANGED <<version, replaced, entry, lookup, used>>

\* (external) the provider publishes another key set.
Rotate ==
    /\ version < MaxVersion
    /\ version' = version + 1
    /\ replaced' = [replaced EXCEPT ![version] = clock]
    /\ UNCHANGED <<clock, entry, lookup, used>>

\* decoding_key_for_token: the header is decoded and `now` is taken.
BeginLookup(r) ==
    /\ lookup[r].pc = "idle"
    /\ lookup' = [lookup EXCEPT ![r] = [pc |-> "lock", at |-> clock, keys |-> NoKeys]]
    /\ UNCHANGED <<clock, version, replaced, entry, used>>

Answer(r, keys) ==
    /\ used' = {<<keys, lookup[r].at>>}
    /\ lookup' = [lookup EXCEPT ![r] = NoLookup]

\* now.duration_since(fetched_at) < JWKS_CACHE_TTL.  An entry may be younger
\* than the request: duration_since is then zero.
EntryFresh(at) == entry # NoKeys /\ at < entry.at + Ttl

\* The cache is read under the lock, which is released either way.
ReadCache(r) ==
    /\ lookup[r].pc = "lock"
    /\ IF EntryFresh(lookup[r].at)
       THEN Answer(r, entry.keys)
       ELSE lookup' = [lookup EXCEPT ![r].pc = "fetch"] /\ UNCHANGED used
    /\ UNCHANGED <<clock, version, replaced, entry>>

\* GET jwks_url, without the lock: the set published when it is served.
Fetch(r) ==
    /\ lookup[r].pc = "fetch"
    /\ lookup' = [lookup EXCEPT ![r] = [pc |-> "insert", at |-> lookup[r].at, keys |-> version]]
    /\ UNCHANGED <<clock, version, replaced, entry, used>>

\* A transport error, a bad status or an unreadable body: InvalidIdToken.
FetchFails(r) ==
    /\ lookup[r].pc = "fetch"
    /\ lookup' = [lookup EXCEPT ![r] = NoLookup]
    /\ UNCHANGED <<clock, version, replaced, entry, used>>

\* (mutant) the entry is stamped when it is written.
StampAtInsert(r) == clock

\* The entry is stamped with the instant taken before the fetch.
Stamp(r) == lookup[r].at

\* cache.insert: over whatever another request wrote meanwhile
InsertKeys(r) ==
    /\ lookup[r].pc = "insert"
    /\ entry' = [keys |-> lookup[r].keys, at |-> Stamp(r)]
    /\ Answer(r, lookup[r].keys)
    /\ UNCHANGED <<clock, version, replaced>>

JwksNext ==
    \/ JwksTick \/ Rotate
    \/ \E r \in Lookups :
           BeginLookup(r) \/ ReadCache(r) \/ Fetch(r) \/ FetchFails(r) \/ InsertKeys(r)

JwksSpec == JwksInit /\ [][JwksNext]_jwksVars

-----------------------------------------------------------------------------
\* An ID token is checked with keys the provider still published less than
\* JWKS_CACHE_TTL before the callback began, however long the fetch that filled
\* the entry took and whichever of two overlapping fetches wrote last.
KeysRecent ==
    \A v \in Versions, at \in JwksTimes :
        <<v, at>> \in used => (replaced[v] = NoKeys \/ at < replaced[v] + Ttl)
=============================================================================
