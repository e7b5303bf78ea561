------------------------------- MODULE SamlIdp -------------------------------
(***************************************************************************)
(* The gateway as a SAML identity provider: the /saml/sso handler, cut at  *)
(* its awaits, over the inbound request table, the pairwise NameID table   *)
(* and the signing keys, which are moved to encrypted storage when they    *)
(* are first read by a replica that has SAML_IDP_KEY_ENCRYPTION_KEY.       *)
(*                                                                         *)
(* Parsing, the issuer, destination and signature checks come before the   *)
(* first write and change nothing; the requests here have passed them.     *)
(* The pairwise hash of (tenant, SP, identity) is the pair <<sp, i>>: an   *)
(* SP client has one tenant, and SHA-256 is taken to be injective.         *)
(***************************************************************************)
EXTENDS Naturals, FiniteSets

CONSTANTS
    Handlers,    \* requests in progress, on any replica
    Keyed,       \* the handlers on replicas with the encryption key
    Sps,         \* registered SP clients
    AuthnRequests,    \* AuthnRequest ids
    SpOf,        \* SpOf[q]: the SP that sent request q
    Identities,  \* Kratos identities that may hold the browser session
    Keys,        \* signing key rows an operator may store, in creation order
    ForceAuthn,  \* the requests with ForceAuthn="true"
    MaxFaults,   \* bound: NameID statements that fail
    Absent

ASSUME SamlIdpAssumption ==
    /\ Keyed \subseteq Handlers
    /\ SpOf \in [AuthnRequests -> Sps]
    /\ ForceAuthn \subseteq AuthnRequests
    /\ Keys \in SUBSET Nat /\ IsFiniteSet(Keys)
    /\ MaxFaults \in Nat
    /\ Absent \notin Identities \cup [plain: BOOLEAN, cipher: BOOLEAN]

VARIABLES
    inbound,    \* saml_inbound_requests: the request ids stored
    nameids,    \* saml_nameid_mappings: <<sp, identity>> -> name_id, or Absent
    keys,       \* saml_idp_keys: key -> [plain, cipher], or Absent when not stored
    session,    \* the identity the browser's Kratos session belongs to, or Absent
    h,          \* h[x]: the request a handler serves and what it has read
    responses,  \* history: the SAML responses sent
    unusable,   \* history: a keyed handler found an active key it could not use
    faults

stores == <<inbound, nameids, keys, session>>
idpVars == <<stores, h, responses, unusable, faults>>

IdpPcs == {"idle", "record", "whoami", "key", "decrypt", "migrate", "nameid"}
Resting == [pc |-> "idle", req |-> Absent, who |-> Absent, key |-> Absent, plain |-> FALSE]
Pairs == Sps \X Identities
KeyRows == [plain: BOOLEAN, cipher: BOOLEAN]

\* The type invariant; a stored key always has its private key somewhere.
IdpTypeOK ==
    /\ inbound \subseteq AuthnRequests
    /\ nameids \in [Pairs -> Pairs \cup {Absent}]
    /\ keys \in [Keys -> KeyRows \cup {Absent}]
    /\ \A k \in Keys : keys[k] # Absent => keys[k].plain # keys[k].cipher
    /\ session \in Identities \cup {Absent}
    /\ h \in [Handlers -> [pc: IdpPcs, req: AuthnRequests \cup {Absent},
                           who: Identities \cup {Absent},
                           key: Keys \cup {Absent}, plain: BOOLEAN]]
    /\ responses \subseteq [req: AuthnRequests, who: Identities, name: Pairs, key: Keys]
    /\ unusable \in BOOLEAN
    /\ faults \in 0..MaxFaults

IdpInit ==
    /\ inbound = {}
    /\ nameids = [p \in Pairs |-> Absent]
    /\ keys = [k \in Keys |-> Absent]
    /\ session = Absent
    /\ h = [x \in Handlers |-> Resting]
    /\ responses = {}
    /\ unusable = FALSE
    /\ faults = 0

Go(x, next) == h' = [h EXCEPT ![x] = next]
Fail(x) == Go(x, Resting)

-----------------------------------------------------------------------------
(* The browser and the operator.                                           *)

\* (external) The browser signs in, as anyone, or signs out.
SessionChanges ==
    /\ session' \in (Identities \cup {Absent}) \ {session}
    /\ UNCHANGED <<inbound, nameids, keys, h, responses, unusable, faults>>

\* SamlIdpKeyStore::create: encrypted where the process has the key, plain text
\* where it has not.
StoreKey(k, keyed) ==
    /\ keys[k] = Absent
    /\ \A j \in Keys : j < k => keys[j] # Absent
    /\ keys' = [keys EXCEPT ![k] = [plain |-> ~keyed, cipher |-> keyed]]
    /\ UNCHANGED <<inbound, nameids, session, h, responses, unusable, faults>>

-----------------------------------------------------------------------------
(* The handler.                                                            *)

\* The browser presents an AuthnRequest, perhaps again.
Sso(x, q) ==
    /\ h[x].pc = "idle"
    /\ Go(x, [pc |-> "record", req |-> q, who |-> Absent, key |-> Absent, plain |-> FALSE])
    /\ UNCHANGED <<stores, responses, unusable, faults>>

\* (mutant) the rows-affected test is dropped.
FreshIdAlways(q) == TRUE

\* ON CONFLICT (id) DO NOTHING inserted a row
FreshId(q) == q \notin inbound

\* create_inbound: a known id is SamlRequestReplay; ForceAuthn and a missing
\* session token are refused after the id was recorded.
CreateInbound(x) ==
    LET q == h[x].req
    IN  /\ h[x].pc = "record"
        /\ inbound' = inbound \cup {q}
        /\ IF FreshId(q) /\ q \notin ForceAuthn
           THEN Go(x, [h[x] EXCEPT !.pc = "whoami"])
           ELSE Fail(x)
        /\ UNCHANGED <<nameids, keys, session, responses, unusable, faults>>

\* whoami with the session token the browser sent.
Whoami(x) ==
    /\ h[x].pc = "whoami"
    /\ IF session = Absent THEN Fail(x)
       ELSE Go(x, [h[x] EXCEPT !.pc = "key", !.who = session])
    /\ UNCHANGED <<stores, responses, unusable, faults>>

\* get_active: the newest row, with its plain text column.
GetActive(x) ==
    LET stored == {k \in Keys : keys[k] # Absent}
    IN  /\ h[x].pc = "key"
        /\ IF stored = {} THEN Fail(x)
           ELSE \E k \in stored :
                    /\ \A j \in stored : j <= k
                    /\ Go(x, [pc |-> "decrypt", req |-> h[x].req, who |-> h[x].who,
                              key |-> k, plain |-> keys[k].plain])
        /\ UNCHANGED <<stores, responses, unusable, faults>>

\* (mutant) the ciphertext is not read again: the row as first read decides.
CipherOfRow(x) == FALSE

\* SELECT encrypted_private_key ... WHERE id: after the row was read
CipherOf(x) == keys[h[x].key].cipher

\* decrypt_row: decrypt the ciphertext; otherwise the plain text as first read
\* is migrated, and is an error on a replica without the key.
DecryptRow(x) ==
    LET next == CASE CipherOf(x) /\ x \in Keyed            -> "nameid"
                  [] ~CipherOf(x) /\ h[x].plain /\ x \in Keyed -> "migrate"
                  [] OTHER                                  -> "idle"
    IN  /\ h[x].pc = "decrypt"
        /\ IF next = "idle" THEN Fail(x) ELSE Go(x, [h[x] EXCEPT !.pc = next])
        /\ unusable' = (unusable \/ (next = "idle" /\ x \in Keyed))
        /\ UNCHANGED <<stores, responses, faults>>

\* SET encrypted_private_key = .., private_key_pem = ''
Migrated(k) == [plain |-> FALSE, cipher |-> TRUE]

MigrateKey(x) ==
    /\ h[x].pc = "migrate"
    /\ keys' = [keys EXCEPT ![h[x].key] = Migrated(h[x].key)]
    /\ Go(x, [h[x] EXCEPT !.pc = "nameid"])
    /\ UNCHANGED <<inbound, nameids, session, responses, unusable, faults>>

\* compute_pairwise_name_id
Computed(sp, i) == <<sp, i>>

Respond(x, name) ==
    /\ responses' = responses \cup
           {[req |-> h[x].req, who |-> h[x].who, name |-> name, key |-> h[x].key]}
    /\ Go(x, Resting)

\* get_or_create: an upsert that keeps the stored name_id; then the response.
NameIdStored(x) ==
    LET p == <<SpOf[h[x].req], h[x].who>>
        name == IF nameids[p] = Absent THEN Computed(p[1], p[2]) ELSE nameids[p]
    IN  /\ h[x].pc = "nameid"
        /\ nameids' = [nameids EXCEPT ![p] = name]
        /\ Respond(x, name)
        /\ UNCHANGED <<inbound, keys, session, unusable, faults>>

\* (mutant) the fallback identifies the browser's identity of this moment.
FallbackNow(x) == Computed(SpOf[h[x].req], IF session = Absent THEN h[x].who ELSE session)

\* resolve_pairwise_name_id falls back to the computed value when the store fails
Fallback(x) == Computed(SpOf[h[x].req], h[x].who)

NameIdComputed(x) ==
    /\ h[x].pc = "nameid"
    /\ faults < MaxFaults
    /\ faults' = faults + 1
    /\ Respond(x, Fallback(x))
    /\ UNCHANGED <<stores, unusable>>

IdpNext ==
    \/ SessionChanges
    \/ \E k \in Keys, keyed \in BOOLEAN : StoreKey(k, keyed)
    \/ \E x \in Handlers :
           \/ \E q \in AuthnRequests : Sso(x, q)
           \/ CreateInbound(x) \/ Whoami(x) \/ GetActive(x) \/ DecryptRow(x)
           \/ MigrateKey(x) \/ NameIdStored(x) \/ NameIdComputed(x)

IdpSpec == IdpInit /\ [][IdpNext]_idpVars

-----------------------------------------------------------------------------
\* An AuthnRequest id is answered at most once, however often and wherever the
\* browser presents it ("Persist the inbound request ID to reject replays").
AnsweredOnce == \A a, b \in responses : a.req = b.req => a = b

\* A pairwise NameID names one identity to an SP and an identity has one: when
\* the table answers and when it fails, and whoever signs in meanwhile.
NameIdStable ==
    \A a, b \in responses :
        SpOf[a.req] = SpOf[b.req] => (a.who = b.who <=> a.name = b.name)

\* A replica with the encryption key can use every stored key: while another
\* replica moves the row to encrypted storage it finds one form or the other.
KeyAlwaysUsable == ~unusable
=============================================================================
