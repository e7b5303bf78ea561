---------------------- MODULE IdentityLifecycle_proofs ----------------------
(***************************************************************************)
(* Proofs about IdentityLifecycle, for every number of requests, tenants,  *)
(* addresses and ids.  A step either leaves the stores alone, and then     *)
(* only its own request's invariant is at stake (Quiet), or it changes     *)
(* them in a way every other request can live with (Evolves, Advance).     *)
(***************************************************************************)
EXTENDS IdentityLifecycle, TLAPS

-----------------------------------------------------------------------------
(* Requests and stores.                                                    *)

\* What a step may do to the stores under the requests in flight: identities
\* and public ids are added behind the ones in use, an identity keeps its
\* address until it is gone for good, a mapping stays or goes, the identity
\* first, and a membership stays.
Evolves ==
    /\ nextOry' >= nextOry /\ nextPublic' >= nextPublic
    /\ \A k \in Created : kratos[k] = Gone => kratos'[k] = Gone
    /\ NoScimUpdate =>
          \A k \in Created : kratos'[k] = Gone \/ kratos'[k].email = kratos[k].email
    /\ \A x \in Minted : mapping'[x] \in {mapping[x], Unmapped}
    /\ NoUndo =>
          \A x \in Minted : Linked(x) /\ mapping'[x] = Unmapped => kratos'[mapping[x].ory] = Gone
    /\ \A m \in Tenants \X PublicIds : member[m] # NoMember => member'[m] # NoMember

\* The address of an identity that exists is an address.
LEMMA Records ==
    ASSUME StoreTypeOK
    PROVE  /\ nextOry \in Nat /\ nextPublic \in Nat
           /\ Created \subseteq OryIds /\ Minted \subseteq PublicIds
           /\ \A k \in OryIds : kratos[k] # Gone => kratos[k].email \in Emails
           /\ \A k \in OryIds : kratos[k] = Gone <=> kratos[k].email = None
           /\ \A x \in PublicIds : Linked(x) =>
                 /\ mapping[x].tenant \in Tenants /\ mapping[x].ory \in OryIds
                 /\ mapping[x] = [tenant |-> mapping[x].tenant, ory |-> mapping[x].ory]
BY IdentityAssumption
   DEF StoreTypeOK, Created, Minted, OryIds, PublicIds, Gone, Unmapped, Linked

\* The same after a step.
LEMMA RecordsNext ==
    ASSUME StoreTypeOK'
    PROVE  nextOry' \in Nat /\ nextPublic' \in Nat /\ Minted' \subseteq PublicIds
<1>1. PICK k : k = nextPublic'
  BY Zenon
<1>2. nextOry' \in Nat /\ k \in Nat /\ k <= MaxPublic + 1
  BY <1>1, IdentityAssumption DEF StoreTypeOK
<1>3. 1 .. k - 1 \subseteq 1 .. MaxPublic
  BY <1>2, IdentityAssumption
<1> QED BY Zenon, <1>1, <1>2, <1>3 DEF Minted, PublicIds

\* What a request knows stays true while others change the stores.
LEMMA RequestStable ==
    ASSUME IdentityIInv, Evolves, nextOry' \in Nat, nextPublic' \in Nat,
           NEW q \in RequestType, RequestInv(q)
    PROVE  RequestInv(q)'
<1>1. Created \subseteq Created' /\ Minted \subseteq Minted'
  BY Records DEF IdentityIInv, IdentityTypeOK, Evolves, Created, Minted
<1>2. ASSUME NEW t, NEW x, NEW k, Backed(t, x, k)
      PROVE  Backed(t, x, k)'
  BY Zenon, <1>1, <1>2 DEF Evolves, Backed, Linked
<1>3. ASSUME NEW t, NEW x, NEW k, Backed(t, x, k), Chained(x, k), NoUndo
      PROVE  Chained(x, k)'
  BY <1>3 DEF Evolves, Backed, Linked, Chained
<1>4. ASSUME NEW k \in Created, NEW e, SameEmail(k, e), NoScimUpdate
      PROVE  SameEmail(k, e)'
  BY Zenon, <1>4 DEF Evolves, SameEmail
<1>5. ASSUME NEW k \in Created, kratos[k] = Gone
      PROVE  kratos'[k] = Gone
  BY Zenon, <1>5 DEF Evolves
<1>6. ASSUME NEW t \in Tenants, NEW x \in Minted, member[<<t, x>>] # NoMember
      PROVE  member'[<<t, x>>] # NoMember
  BY Zenon, <1>6, Records DEF Evolves, IdentityIInv, IdentityTypeOK
<1>7. HasRead(q) \/ Vouched(q) => q.ory \in Created
  BY Zenon DEF RequestInv, HasRead, Vouched, WithOry, WithBoth, Backed, FederatedOps
<1>8. q.op \in FederatedOps /\ q.pc \in {"member", "upsert", "saml_put", "ok"} =>
        Backed(q.tenant, q.public, q.ory)
  BY Zenon DEF RequestInv, WithBoth
<1>9. q.op \in FederatedOps /\ q.pc \in {"saml_put", "ok"} => q.public \in Minted
  BY Zenon, <1>8 DEF Backed
<1> QED
  BY <1>1, <1>2, <1>3, <1>4, <1>5, <1>6, <1>7, <1>8, <1>9
     DEF RequestInv, HasRead, Vouched, CallTable, By, WithOry, WithBoth

\* The request n that takes the place of p's has its pair of ids from p's, or
\* from a mapping that is there.
Keeps(p, n) ==
    Holds(n) =>
        \/ mapping'[n.public] # Unmapped
        \/ /\ Holds(proc[p]) /\ n.tenant = proc[p].tenant
           /\ n.public = proc[p].public /\ n.ory = proc[p].ory

\* The only membership p may write is the one of the pair it holds, with the
\* identity's address.
OwnMember(p) ==
    \/ UNCHANGED member
    \/ /\ Holds(proc[p])
       /\ \A t \in Tenants, x \in PublicIds :
             member'[<<t, x>>] # member[<<t, x>>] =>
                 /\ x = proc[p].public
                 /\ NoScimUpdate => SameEmail(proc[p].ory, member'[<<t, x>>].email)

\* Facts about the request of a process.
LEMMA Mine ==
    ASSUME IdentityIInv, NEW p \in Procs
    PROVE  /\ proc[p] \in RequestType /\ RequestInv(proc[p])
           /\ proc[p].op \in Ops \cup {"none"}
           /\ proc[p].read \in Emails \cup {None}
           /\ proc[p].ory \in OryIds \cup {0} /\ proc[p].public \in PublicIds \cup {0}
           /\ Holds(proc[p]) => /\ proc[p].tenant \in Tenants /\ proc[p].public \in PublicIds
                                /\ proc[p].ory \in Created
                                /\ Backed(proc[p].tenant, proc[p].public, proc[p].ory)
           /\ StoreTypeOK /\ StoreInv /\ HolderInv
<1>1. proc[p] \in RequestType /\ RequestInv(proc[p]) /\ StoreTypeOK /\ StoreInv /\ HolderInv
  BY Zenon DEF IdentityIInv, IdentityTypeOK
<1>2. Holds(proc[p]) => /\ proc[p].tenant \in Tenants /\ proc[p].ory \in Created
                        /\ Backed(proc[p].tenant, proc[p].public, proc[p].ory)
  BY Zenon, <1>1 DEF RequestInv, Holds, WithBoth, WithOry, CallPcs
<1>3. Holds(proc[p]) => proc[p].public \in PublicIds
  BY Zenon, <1>1, <1>2, Records DEF Backed
<1> QED BY Zenon, <1>1, <1>2, <1>3 DEF RequestType, RequestInv

\* Pairs and memberships stay in step.
LEMMA HoldersAgree ==
    ASSUME IdentityIInv, NEW p \in Procs, NEW n \in RequestType,
           proc' = [proc EXCEPT ![p] = n], StoreTypeOK', StoreInv', Evolves,
           \A r \in Procs : RequestInv(proc[r])', Keeps(p, n), OwnMember(p)
    PROVE  HolderInv'
<1>1. ASSUME NEW r \in Procs PROVE proc'[r] = IF r = p THEN n ELSE proc[r]
  BY Zenon DEF IdentityIInv, IdentityTypeOK
<1>2. ASSUME NEW r \in Procs, NEW z, z = proc'[r], Holds(z)
      PROVE  /\ z.tenant \in Tenants /\ z.public \in PublicIds
             /\ mapping'[z.public] # Unmapped => mapping'[z.public] = [tenant |-> z.tenant, ory |-> z.ory]
             /\ \/ mapping'[z.public] # Unmapped
                \/ /\ Holds(proc[r]) /\ z.tenant = proc[r].tenant
                   /\ z.public = proc[r].public /\ z.ory = proc[r].ory
  <2>1. RequestInv(z)'
    BY Zenon, <1>2
  <2>2. z.tenant \in Tenants /\ Backed(z.tenant, z.public, z.ory)'
    BY Zenon, <1>2, <2>1 DEF RequestInv, Holds, WithBoth, CallPcs
  <2>3. z.public \in PublicIds
    BY Zenon, <2>2, RecordsNext DEF Backed
  <2>4. \/ mapping'[z.public] # Unmapped
        \/ /\ Holds(proc[r]) /\ z.tenant = proc[r].tenant
           /\ z.public = proc[r].public /\ z.ory = proc[r].ory
    BY Zenon, <1>1, <1>2 DEF Keeps
  <2> QED BY Zenon, <2>2, <2>3, <2>4 DEF Backed, Linked
<1>3. ASSUME NEW r \in Procs, NEW s \in Procs, NEW y, NEW z, y = proc'[r], z = proc'[s],
             Holds(y), Holds(z), y.public = z.public
      PROVE  y.ory = z.ory
  <2>1. CASE mapping'[y.public] # Unmapped
    <3>1. /\ mapping'[y.public] = [tenant |-> y.tenant, ory |-> y.ory]
          /\ mapping'[z.public] = [tenant |-> z.tenant, ory |-> z.ory]
      BY <1>2, <1>3, <2>1
    <3> QED BY <1>3, <3>1
  <2>2. CASE mapping'[y.public] = Unmapped
    <3>1. Holds(proc[r]) /\ y.public = proc[r].public /\ y.ory = proc[r].ory
      <4>1. \/ mapping'[y.public] # Unmapped
            \/ Holds(proc[r]) /\ y.public = proc[r].public /\ y.ory = proc[r].ory
        BY Zenon, <1>2, <1>3
      <4> QED BY Zenon, <2>2, <4>1
    <3>2. Holds(proc[s]) /\ z.public = proc[s].public /\ z.ory = proc[s].ory
      <4>1. \/ mapping'[z.public] # Unmapped
            \/ Holds(proc[s]) /\ z.public = proc[s].public /\ z.ory = proc[s].ory
        BY Zenon, <1>2, <1>3
      <4> QED BY Zenon, <1>3, <2>2, <4>1
    <3> QED BY <1>3, <3>1, <3>2, Mine DEF HolderInv
  <2> QED BY Zenon, <2>1, <2>2
<1>4. ASSUME NoScimUpdate, NEW r \in Procs, NEW z, z = proc'[r], Holds(z),
             member'[<<z.tenant, z.public>>] # NoMember
      PROVE  \/ kratos'[z.ory] = Gone
             \/ kratos'[z.ory].email = member'[<<z.tenant, z.public>>].email
  <2>1. CASE mapping'[z.public] # Unmapped
    <3>1. /\ z.tenant \in Tenants /\ z.public \in PublicIds
          /\ mapping'[z.public] = [tenant |-> z.tenant, ory |-> z.ory]
      BY <1>2, <1>4, <2>1
    <3>2. SameEmail(mapping[z.public].ory, member[<<z.tenant, z.public>>].email)'
      BY Zenon, <1>4, <2>1, <3>1 DEF StoreInv, Linked
    <3> QED BY <3>1, <3>2 DEF SameEmail
  <2>2. CASE mapping'[z.public] = Unmapped
    <3>1. PICK q : q = proc[r]
      BY Zenon
    <3>2. Holds(q) /\ z.tenant = q.tenant /\ z.public = q.public /\ z.ory = q.ory
      <4>1. \/ mapping'[z.public] # Unmapped
            \/ /\ Holds(proc[r]) /\ z.tenant = proc[r].tenant
               /\ z.public = proc[r].public /\ z.ory = proc[r].ory
        BY Zenon, <1>2, <1>4
      <4> QED BY Zenon, <2>2, <3>1, <4>1
    <3>3. q.ory \in Created /\ q.tenant \in Tenants /\ q.public \in PublicIds
      BY Zenon, <3>1, <3>2, Mine
    <3>4. SameEmail(q.ory, member'[<<q.tenant, q.public>>].email)
      <4>1. CASE member'[<<q.tenant, q.public>>] = member[<<q.tenant, q.public>>]
        BY Zenon, <1>4, <3>1, <3>2, <4>1, Mine DEF HolderInv
      <4>2. CASE member'[<<q.tenant, q.public>>] # member[<<q.tenant, q.public>>]
        <5>1. /\ Holds(proc[p]) /\ q.public = proc[p].public
              /\ SameEmail(proc[p].ory, member'[<<q.tenant, q.public>>].email)
          BY Zenon, <1>4, <3>3, <4>2 DEF OwnMember
        <5>2. proc[p].ory = q.ory
          BY Zenon, <3>1, <3>2, <5>1, Mine DEF HolderInv
        <5> QED BY Zenon, <5>1, <5>2
      <4> QED BY Zenon, <4>1, <4>2
    <3>5. kratos'[q.ory] = Gone \/ kratos'[q.ory].email = member'[<<q.tenant, q.public>>].email
      BY Zenon, <1>4, <3>3, <3>4 DEF Evolves, SameEmail
    <3> QED BY Zenon, <3>2, <3>5
  <2> QED BY Zenon, <2>1, <2>2
<1> QED BY <1>3, <1>4 DEF HolderInv, SameEmail

\* A step that changes the stores.
LEMMA Advance ==
    ASSUME IdentityIInv, NEW p \in Procs, NEW n \in RequestType,
           proc' = [proc EXCEPT ![p] = n],
           StoreTypeOK', StoreInv', Evolves, RequestInv(n)', Keeps(p, n), OwnMember(p)
    PROVE  IdentityIInv'
<1>1. ASSUME NEW r \in Procs PROVE RequestInv(proc[r])'
  <2>1. CASE r = p
    <3>1. proc'[r] = n
      BY Zenon, <2>1 DEF IdentityIInv, IdentityTypeOK
    <3>2. \A q : q = proc'[r] => RequestInv(q)'
      BY Zenon, <3>1
    <3> QED BY Zenon, <3>2
  <2>2. CASE r # p
    <3>1. PICK q : q = proc[r]
      BY Zenon
    <3>2. q \in RequestType /\ RequestInv(q)
      BY Zenon, <3>1 DEF IdentityIInv, IdentityTypeOK
    <3>3. nextOry' \in Nat /\ nextPublic' \in Nat
      BY Zenon, RecordsNext
    <3>4. RequestInv(q)'
      BY Zenon, <3>2, <3>3, RequestStable
    <3>5. proc'[r] = q
      BY Zenon, <2>2, <3>1 DEF IdentityIInv, IdentityTypeOK
    <3>6. \A z : z = proc'[r] => RequestInv(z)'
      BY Zenon, <3>4, <3>5
    <3> QED BY Zenon, <3>6
  <2> QED BY Zenon, <2>1, <2>2
<1>2. proc' \in [Procs -> RequestType]
  BY Zenon DEF IdentityIInv, IdentityTypeOK
<1>3. HolderInv'
  BY Zenon, <1>1, HoldersAgree
<1> QED BY Zenon, <1>1, <1>2, <1>3 DEF IdentityIInv, IdentityTypeOK

\* Stores that are left alone are as good as before ...
LEMMA QuietStores ==
    ASSUME IdentityIInv, UNCHANGED storeVars
    PROVE  StoreTypeOK' /\ StoreInv' /\ Evolves
<1>1. StoreTypeOK'
  BY Zenon DEF IdentityIInv, IdentityTypeOK, StoreTypeOK, storeVars
<1>2. StoreInv'
  BY Zenon DEF IdentityIInv, storeVars, StoreInv, OnePublicIdPerIdentity, MembershipInHomeTenant,
         Linked, Minted, Created, Backed, Chained, SameEmail
<1>3. nextOry \in Nat /\ nextPublic \in Nat
  BY Zenon, Records DEF IdentityIInv, IdentityTypeOK
<1>4. Evolves
  BY <1>3 DEF storeVars, Evolves, Linked
<1> QED BY Zenon, <1>1, <1>2, <1>4

\* ... and only the request of the step is at stake.
LEMMA Quiet ==
    ASSUME IdentityIInv, UNCHANGED storeVars, NEW p \in Procs, NEW n \in RequestType,
           proc' = [proc EXCEPT ![p] = n], RequestInv(n), Keeps(p, n)
    PROVE  IdentityIInv'
<1>1. StoreTypeOK' /\ StoreInv' /\ Evolves
  BY Zenon, QuietStores
<1>2. nextOry' \in Nat /\ nextPublic' \in Nat
  BY Zenon, <1>1, RecordsNext
<1>3. RequestInv(n)'
  BY Zenon, <1>1, <1>2, RequestStable
<1>4. OwnMember(p)
  BY Zenon DEF storeVars, OwnMember
<1> QED BY Zenon, <1>1, <1>3, <1>4, Advance

-----------------------------------------------------------------------------
(* The writes.                                                             *)

\* Kratos creates an identity under its next id.
LEMMA InsertIdentity ==
    ASSUME StoreTypeOK, StoreInv, NEW e \in Emails, NEW by \in {"base", "scim"},
           KratosInsert(e, by), UNCHANGED <<mapping, member, saml, nextPublic>>
    PROVE  /\ StoreTypeOK' /\ StoreInv' /\ Evolves
           /\ nextOry \in Created' /\ kratos'[nextOry].email = e
<1>1. /\ nextOry \in OryIds /\ nextOry' = nextOry + 1 /\ nextOry >= 1
      /\ nextOry \in Nat /\ nextPublic \in Nat
  BY Records DEF StoreTypeOK, KratosInsert, OryIds
<1>2. /\ kratos'[nextOry] = [email |-> e, by |-> by]
      /\ \A k \in OryIds : k # nextOry => kratos'[k] = kratos[k]
  BY Zenon, <1>1 DEF StoreTypeOK, KratosInsert
<1>3. StoreTypeOK'
  BY <1>1, IdentityAssumption DEF StoreTypeOK, KratosInsert, OryIds
<1>4. Created' = Created \cup {nextOry} /\ nextOry \notin Created /\ Minted' = Minted
  BY <1>1 DEF Created, Minted
<1>5. Created \subseteq OryIds
  BY Zenon, Records
<1>6. Evolves
  BY <1>1, <1>2, <1>4, <1>5 DEF Evolves, Linked
<1>7. StoreInv'
  <2> USE DEF Linked
  <2>1. \A k \in OryIds : k >= nextOry' => kratos'[k] = Gone
    BY <1>1, <1>2 DEF StoreInv, OryIds
  <2>2. OnePublicIdPerIdentity' /\ MembershipInHomeTenant'
    BY Zenon, <1>4 DEF StoreInv, OnePublicIdPerIdentity, MembershipInHomeTenant
  <2>3. \A x \in PublicIds : Linked(x) => mapping[x].ory \in Created
    BY Zenon DEF StoreInv
  <2>4. \A t \in Tenants, n \in NameIds :
          saml[<<t, n>>] # NoSaml => Backed(t, saml[<<t, n>>].public, saml[<<t, n>>].ory)'
    BY Zenon, <1>4 DEF StoreInv, Backed
  <2>5. \A k \in Created : kratos'[k] = kratos[k]
    BY Zenon, <1>2, <1>4, <1>5
  <2> QED BY <1>1, <1>4, <2>1, <2>2, <2>3, <2>4, <2>5 DEF StoreInv, Chained, SameEmail, Backed
<1> QED BY <1>2, <1>3, <1>4, <1>6, <1>7

\* Kratos replaces the traits of an identity, or deletes it.
LEMMA WriteIdentity ==
    ASSUME StoreTypeOK, StoreInv, NEW k \in Created,
           NEW v \in [email: Emails, by: {"base", "scim"}] \cup {Gone},
           v # Gone => kratos[k] # Gone /\ (NoScimUpdate => SameEmail(k, v.email)),
           kratos' = [kratos EXCEPT ![k] = v],
           UNCHANGED <<mapping, member, saml, nextOry, nextPublic>>
    PROVE  StoreTypeOK' /\ StoreInv' /\ Evolves
<1>1. k \in OryIds /\ k < nextOry /\ nextOry \in Nat /\ nextPublic \in Nat
  BY Records DEF Created
<1>2. kratos'[k] = v /\ \A j \in OryIds : j # k => kratos'[j] = kratos[j]
  BY Zenon, <1>1 DEF StoreTypeOK
<1>3. StoreTypeOK'
  BY Zenon, <1>1 DEF StoreTypeOK
<1>4. Created' = Created /\ Minted' = Minted /\ Created \subseteq OryIds
  BY Zenon, Records DEF Created, Minted
<1>5. /\ \A j \in Created : kratos[j] = Gone => kratos'[j] = Gone
      /\ NoScimUpdate => \A j \in Created : kratos'[j] = Gone \/ kratos'[j].email = kratos[j].email
  BY Zenon, <1>2, <1>4 DEF SameEmail
<1>6. Evolves
  BY <1>1, <1>4, <1>5 DEF Evolves, Linked
<1>7. StoreInv'
  <2> USE DEF Linked
  <2>1. \A j \in OryIds : j >= nextOry' => kratos'[j] = Gone
    BY Zenon, <1>1, <1>2 DEF StoreInv, OryIds
  <2>2. OnePublicIdPerIdentity' /\ MembershipInHomeTenant'
    BY Zenon, <1>4 DEF StoreInv, OnePublicIdPerIdentity, MembershipInHomeTenant
  <2>3. \A x \in PublicIds : Linked(x) => mapping[x].ory \in Created
    BY Zenon DEF StoreInv
  <2>4. \A t \in Tenants, n \in NameIds :
          saml[<<t, n>>] # NoSaml => Backed(t, saml[<<t, n>>].public, saml[<<t, n>>].ory)'
    BY Zenon, <1>4 DEF StoreInv, Backed
  <2> QED BY <1>1, <1>4, <1>5, <2>1, <2>2, <2>3, <2>4 DEF StoreInv, Chained, SameEmail, Backed
<1> QED BY Zenon, <1>3, <1>6, <1>7

\* A mapping is inserted under the next public id.
LEMMA InsertLink ==
    ASSUME StoreTypeOK, StoreInv, NEW t \in Tenants, NEW k \in Created,
           CanMap(t, k), InsertMapping(t, k), UNCHANGED <<kratos, member, saml, nextOry>>
    PROVE  /\ StoreTypeOK' /\ StoreInv' /\ Evolves
           /\ nextPublic \in Minted' /\ k \in Created'
           /\ mapping'[nextPublic] = [tenant |-> t, ory |-> k]
<1>1. /\ nextPublic \in PublicIds /\ nextPublic' = nextPublic + 1 /\ nextPublic >= 1
      /\ nextOry \in Nat /\ nextPublic \in Nat /\ k \in OryIds
  BY Records DEF StoreTypeOK, InsertMapping, PublicIds
<1>2. /\ mapping'[nextPublic] = [tenant |-> t, ory |-> k]
      /\ \A x \in PublicIds : x # nextPublic => mapping'[x] = mapping[x]
  BY Zenon, <1>1 DEF StoreTypeOK, InsertMapping
<1>3. StoreTypeOK'
  BY <1>1, IdentityAssumption DEF StoreTypeOK, InsertMapping, PublicIds
<1>4. Minted' = Minted \cup {nextPublic} /\ nextPublic \notin Minted /\ Created' = Created
  BY <1>1 DEF Created, Minted
<1>5. Minted \subseteq PublicIds
  BY Zenon, Records
<1>6. Evolves
  BY <1>1, <1>2, <1>4, <1>5 DEF Evolves, Linked
<1>7. mapping'[nextPublic] # Unmapped
  BY <1>2, IdentityAssumption DEF Unmapped
<1>8. StoreInv'
  <2> USE DEF Linked
  <2>1. \A x \in PublicIds : x >= nextPublic' => mapping'[x] = Unmapped
    BY <1>1, <1>2 DEF StoreInv, PublicIds
  <2>2. OnePublicIdPerIdentity'
    <3>1. \A x \in Minted : mapping[x] # [tenant |-> t, ory |-> k]
      BY Zenon, <1>5 DEF CanMap, PublicIdsOf
    <3> QED BY <1>2, <1>4, <1>5, <3>1 DEF StoreInv, OnePublicIdPerIdentity
  <2>3. MembershipInHomeTenant'
    <3>1. \A u \in Tenants : member[<<u, nextPublic>>] = NoMember
      BY Zenon, <1>1, <1>4 DEF StoreInv, MembershipInHomeTenant
    <3>2. ASSUME NEW u \in Tenants, NEW x \in PublicIds, member[<<u, x>>] # NoMember
          PROVE  x \in Minted /\ (mapping'[x] # Unmapped => mapping'[x].tenant = u)
      BY <1>2, <3>1, <3>2 DEF StoreInv, MembershipInHomeTenant
    <3> QED BY Zenon, <1>4, <3>2 DEF MembershipInHomeTenant
  <2>4. \A x \in PublicIds : mapping'[x] # Unmapped => mapping'[x].ory \in Created'
    BY <1>2, <1>4 DEF StoreInv
  <2>5. ASSUME NEW u \in Tenants, NEW m \in NameIds, saml[<<u, m>>] # NoSaml
        PROVE  /\ Backed(u, saml[<<u, m>>].public, saml[<<u, m>>].ory)'
               /\ member[<<u, saml[<<u, m>>].public>>] # NoMember
               /\ NoUndo => Chained(saml[<<u, m>>].public, saml[<<u, m>>].ory)'
    <3>1. /\ Backed(u, saml[<<u, m>>].public, saml[<<u, m>>].ory)
          /\ member[<<u, saml[<<u, m>>].public>>] # NoMember
          /\ NoUndo => Chained(saml[<<u, m>>].public, saml[<<u, m>>].ory)
      BY Zenon, <2>5 DEF StoreInv
    <3> QED BY Zenon, <3>1, <1>2, <1>4, <1>5 DEF Backed, Chained
  <2>6. NoScimUpdate =>
          \A u \in Tenants, x \in PublicIds :
             mapping'[x] # Unmapped /\ member[<<u, x>>] # NoMember
                => SameEmail(mapping'[x].ory, member[<<u, x>>].email)
    <3>1. \A u \in Tenants : member[<<u, nextPublic>>] = NoMember
      BY Zenon, <1>1, <1>4 DEF StoreInv, MembershipInHomeTenant
    <3> QED BY Zenon, <1>2, <3>1 DEF StoreInv
  <2> QED BY Zenon, <1>1, <1>4, <2>1, <2>2, <2>3, <2>4, <2>5, <2>6 DEF StoreInv, SameEmail
<1> QED BY Zenon, <1>2, <1>3, <1>4, <1>6, <1>8

\* A mapping is removed.
LEMMA RemoveLink ==
    ASSUME StoreTypeOK, StoreInv, NEW x \in Minted,
           NoUndo => (Linked(x) => kratos[mapping[x].ory] = Gone),
           mapping' = [mapping EXCEPT ![x] = Unmapped],
           UNCHANGED <<kratos, member, saml, nextOry, nextPublic>>
    PROVE  StoreTypeOK' /\ StoreInv' /\ Evolves
<1>1. x \in PublicIds /\ nextOry \in Nat /\ nextPublic \in Nat /\ Minted \subseteq PublicIds
  BY Zenon, Records
<1>2. mapping'[x] = Unmapped /\ \A y \in PublicIds : y # x => mapping'[y] = mapping[y]
  BY Zenon, <1>1 DEF StoreTypeOK
<1>3. StoreTypeOK'
  BY Zenon, <1>1 DEF StoreTypeOK
<1>4. Created' = Created /\ Minted' = Minted
  BY Zenon DEF Created, Minted
<1>5. Evolves
  BY SMTT(30), <1>1, <1>2, <1>4 DEF Evolves, Linked
<1>6. StoreInv'
  <2> USE DEF Linked
  <2>1. OnePublicIdPerIdentity'
    BY <1>1, <1>2, <1>4 DEF StoreInv, OnePublicIdPerIdentity
  <2>2. MembershipInHomeTenant'
    <3>1. ASSUME NEW u \in Tenants, NEW y \in PublicIds, member[<<u, y>>] # NoMember
          PROVE  y \in Minted /\ (mapping'[y] # Unmapped => mapping'[y].tenant = u)
      BY <1>2, <3>1 DEF StoreInv, MembershipInHomeTenant
    <3> QED BY Zenon, <1>4, <3>1 DEF MembershipInHomeTenant
  <2>3. \A y \in PublicIds :
           /\ y >= nextPublic => mapping'[y] = Unmapped
           /\ mapping'[y] # Unmapped => mapping'[y].ory \in Created'
    BY <1>2, <1>4 DEF StoreInv
  <2>4. ASSUME NEW u \in Tenants, NEW m \in NameIds, saml[<<u, m>>] # NoSaml
        PROVE  /\ Backed(u, saml[<<u, m>>].public, saml[<<u, m>>].ory)'
               /\ member[<<u, saml[<<u, m>>].public>>] # NoMember
               /\ NoUndo => Chained(saml[<<u, m>>].public, saml[<<u, m>>].ory)'
    <3>1. /\ Backed(u, saml[<<u, m>>].public, saml[<<u, m>>].ory)
          /\ member[<<u, saml[<<u, m>>].public>>] # NoMember
          /\ NoUndo => Chained(saml[<<u, m>>].public, saml[<<u, m>>].ory)
      BY Zenon, <2>4 DEF StoreInv
    <3> QED BY <3>1, <1>1, <1>2, <1>4 DEF Backed, Chained
  <2>5. NoScimUpdate =>
          \A u \in Tenants, y \in PublicIds :
             mapping'[y] # Unmapped /\ member[<<u, y>>] # NoMember
                => SameEmail(mapping'[y].ory, member[<<u, y>>].email)
    BY Zenon, <1>2 DEF StoreInv
  <2> QED BY <1>4, <2>1, <2>2, <2>3, <2>4, <2>5 DEF StoreInv, SameEmail
<1> QED BY Zenon, <1>3, <1>5, <1>6

\* A membership is written for a public id of the tenant.
LEMMA WriteMember ==
    ASSUME StoreTypeOK, StoreInv, NEW t \in Tenants, NEW x \in Minted, NEW e \in Emails,
           NEW by \in {"jit", "admin", "backfill", "self"},
           Linked(x) => mapping[x].tenant = t,
           NoScimUpdate /\ Linked(x) => SameEmail(mapping[x].ory, e),
           UpsertMember(t, x, e, by),
           UNCHANGED <<kratos, mapping, saml, nextOry, nextPublic>>
    PROVE  /\ StoreTypeOK' /\ StoreInv' /\ Evolves
           /\ member'[<<t, x>>] # NoMember
<1>1. x \in PublicIds /\ nextOry \in Nat /\ nextPublic \in Nat
  BY Zenon, Records
<1>2. /\ <<t, x>> \in Tenants \X PublicIds
      /\ member'[<<t, x>>] = [email |-> e, by |-> by]
      /\ \A m \in Tenants \X PublicIds : m # <<t, x>> => member'[m] = member[m]
  BY Zenon, <1>1 DEF StoreTypeOK, UpsertMember
<1>3. StoreTypeOK'
  BY Zenon, <1>1, <1>2 DEF StoreTypeOK, UpsertMember
<1>4. member'[<<t, x>>] # NoMember
  BY <1>2, IdentityAssumption DEF NoMember
<1>5. \A m \in Tenants \X PublicIds : member[m] # NoMember => member'[m] # NoMember
  BY Zenon, <1>2, <1>4
<1>6. Created' = Created /\ Minted' = Minted
  BY Zenon DEF Created, Minted
<1>7. Evolves
  BY <1>1, <1>5 DEF Evolves, Linked
<1>8. ASSUME NEW u \in Tenants, NEW y \in PublicIds, member'[<<u, y>>] # NoMember
      PROVE  /\ y \in Minted /\ (mapping[y] # Unmapped => mapping[y].tenant = u)
             /\ NoScimUpdate /\ Linked(y) => SameEmail(mapping[y].ory, member'[<<u, y>>].email)
  <2>1. CASE u = t /\ y = x
    BY <2>1, <1>2 DEF Linked
  <2>2. CASE ~(u = t /\ y = x)
    <3>1. <<u, y>> # <<t, x>> /\ <<u, y>> \in Tenants \X PublicIds
      BY Zenon, <2>2
    <3>2. member'[<<u, y>>] = member[<<u, y>>]
      BY Zenon, <3>1, <1>2
    <3> QED BY Zenon, <1>8, <3>2 DEF StoreInv, MembershipInHomeTenant, Linked
  <2> QED BY Zenon, <2>1, <2>2
<1>9. StoreInv'
  <2>1. MembershipInHomeTenant'
    BY Zenon, <1>6, <1>8 DEF MembershipInHomeTenant, Linked
  <2>2. OnePublicIdPerIdentity'
    BY Zenon, <1>6 DEF StoreInv, OnePublicIdPerIdentity, Linked
  <2>3. ASSUME NEW u \in Tenants, NEW m \in NameIds, saml[<<u, m>>] # NoSaml
        PROVE  /\ Backed(u, saml[<<u, m>>].public, saml[<<u, m>>].ory)'
               /\ member'[<<u, saml[<<u, m>>].public>>] # NoMember
               /\ NoUndo => Chained(saml[<<u, m>>].public, saml[<<u, m>>].ory)'
    <3>1. /\ Backed(u, saml[<<u, m>>].public, saml[<<u, m>>].ory)
          /\ member[<<u, saml[<<u, m>>].public>>] # NoMember
          /\ NoUndo => Chained(saml[<<u, m>>].public, saml[<<u, m>>].ory)
      BY Zenon, <2>3 DEF StoreInv
    <3>2. saml[<<u, m>>].public \in PublicIds
      BY Zenon, <3>1, Records DEF Backed
    <3> QED BY Zenon, <3>1, <3>2, <1>5, <1>6 DEF Backed, Chained, Linked
  <2> QED BY Zenon, <1>6, <1>8, <2>1, <2>2, <2>3 DEF StoreInv, SameEmail, Linked
<1> QED BY Zenon, <1>3, <1>4, <1>7, <1>9

\* A SAML subject is recorded for an identity that is a member.
LEMMA WriteSaml ==
    ASSUME StoreTypeOK, StoreInv, NEW t \in Tenants, NEW n \in NameIds,
           NEW x \in PublicIds, NEW k \in OryIds, Backed(t, x, k),
           member[<<t, x>>] # NoMember, NoUndo => Chained(x, k),
           saml' \in {saml, [saml EXCEPT ![<<t, n>>] = [public |-> x, ory |-> k]]},
           UNCHANGED <<kratos, mapping, member, nextOry, nextPublic>>
    PROVE  StoreTypeOK' /\ StoreInv' /\ Evolves
<1>1. nextOry \in Nat /\ nextPublic \in Nat
  BY Zenon, Records
<1>2. StoreTypeOK'
  BY DEF StoreTypeOK
<1>3. Evolves
  BY <1>1 DEF Evolves, Linked
<1>4. ASSUME NEW u \in Tenants, NEW m \in NameIds, saml'[<<u, m>>] # NoSaml
      PROVE  /\ Backed(u, saml'[<<u, m>>].public, saml'[<<u, m>>].ory)
             /\ member[<<u, saml'[<<u, m>>].public>>] # NoMember
             /\ NoUndo => Chained(saml'[<<u, m>>].public, saml'[<<u, m>>].ory)
  <2>1. CASE saml' # saml /\ u = t /\ m = n
    BY <2>1 DEF StoreTypeOK
  <2>2. CASE ~(saml' # saml /\ u = t /\ m = n)
    <3>1. saml'[<<u, m>>] = saml[<<u, m>>]
      BY Zenon, <2>2 DEF StoreTypeOK
    <3> QED BY Zenon, <1>4, <3>1 DEF StoreInv
  <2> QED BY Zenon, <2>1, <2>2
<1>5. Created' = Created /\ Minted' = Minted
  BY Zenon DEF Created, Minted
<1>6. OnePublicIdPerIdentity' /\ MembershipInHomeTenant'
  BY Zenon, <1>5 DEF StoreInv, OnePublicIdPerIdentity, MembershipInHomeTenant, Linked
<1>7. StoreInv'
  BY <1>4, <1>5, <1>6 DEF StoreInv, SameEmail, Linked, Backed, Chained
<1> QED BY Zenon, <1>2, <1>3, <1>7

-----------------------------------------------------------------------------
(* The steps, one lemma each.                                              *)

\* A request that has its answer: nothing is known of it but its operation,
\* unless it is a login that succeeded.
LEMMA Answered ==
    ASSUME NEW op \in Ops \cup {"none"}, NEW pc \in {"idle", "err"}
    PROVE  LET n == Request(op, pc, None, None, None, 0, 0) IN
           n \in RequestType /\ RequestInv(n) /\ RequestInv(n)'
<1> DEFINE n == Request(op, pc, None, None, None, 0, 0)
<1>1. n \in RequestType
  BY Zenon, OpsAssumption DEF Request, RequestType
<1>2. n.op = op /\ n.pc = pc
  BY Zenon DEF Request
<1>3. n.pc \notin CallPcs /\ n.pc # "ok"
  BY Zenon, <1>2 DEF CallPcs
<1> HIDE DEF n
<1>4. RequestInv(n)
  BY Zenon, <1>2, <1>3
     DEF RequestInv, CallTable, By, WithOry, WithBoth, HasRead, Vouched
<1>5. RequestInv(n)'
  BY Zenon, <1>2, <1>3
     DEF RequestInv, CallTable, By, WithOry, WithBoth, HasRead, Vouched
<1> QED BY Zenon, <1>1, <1>4, <1>5 DEF n

\* The request n is q after its answer led it to pc.
Follows(n, q, pc, read, k, x) ==
    /\ n.op = q.op /\ n.pc = pc /\ n.tenant = q.tenant /\ n.email = q.email
    /\ n.name = q.name /\ n.read = read /\ n.ory = k /\ n.public = x

\* A request that moves on keeps its operation and its input.
LEMMA MovedRequest ==
    ASSUME NEW q \in RequestType, NEW pc \in CallPcs \cup {"ok"}, NEW read \in Emails \cup {None},
           NEW k \in OryIds \cup {0}, NEW x \in PublicIds \cup {0},
           NEW n, n = Moved(q, pc, read, k, x)
    PROVE  n \in RequestType /\ Follows(n, q, pc, read, k, x)
BY Zenon DEF Moved, RequestType, Follows

\* An error without effect ends the request.
LEMMA QuietFail ==
    ASSUME IdentityIInv, NEW p \in Procs, Fail(p), UNCHANGED storeVars
    PROVE  IdentityIInv'
<1>1. PICK n : n = Request(proc[p].op, "err", None, None, None, 0, 0)
  BY Zenon
<1>2. n \in RequestType /\ RequestInv(n)
  BY Zenon, <1>1, Mine, Answered
<1>3. proc' = [proc EXCEPT ![p] = n]
  BY Zenon, <1>1 DEF Fail
<1>4. Keeps(p, n)
  BY Zenon, <1>1 DEF Keeps, Holds, Request, WithBoth
<1> QED BY Zenon, <1>2, <1>3, <1>4, Quiet

\* The replica stops, or the caller has its answer.
LEMMA QuietIdle ==
    ASSUME IdentityIInv, NEW p \in Procs, proc' = [proc EXCEPT ![p] = Idle], UNCHANGED storeVars
    PROVE  IdentityIInv'
<1>1. PICK n : n = Idle
  BY Zenon
<1>2. n \in RequestType /\ RequestInv(n)
  BY Zenon, <1>1, Answered DEF Idle
<1>3. Keeps(p, n)
  BY Zenon, <1>1 DEF Keeps, Holds, Idle, Request, WithBoth
<1> QED BY Zenon, <1>1, <1>2, <1>3, Quiet

\* A request moves on without effect ...
LEMMA QuietMove ==
    ASSUME IdentityIInv, NEW p \in Procs, NEW pc \in CallPcs \cup {"ok"},
           NEW read \in Emails \cup {None}, NEW k \in OryIds \cup {0}, NEW x \in PublicIds \cup {0},
           Goto(p, pc, read, k, x), UNCHANGED storeVars,
           pc \in WithBoth =>
              Linked(x) \/ (Holds(proc[p]) /\ x = proc[p].public /\ k = proc[p].ory),
           \A n \in RequestType : Follows(n, proc[p], pc, read, k, x) => RequestInv(n)
    PROVE  IdentityIInv'
<1>1. PICK q : q = proc[p]
  BY Zenon
<1>2. PICK n : n = Moved(q, pc, read, k, x)
  BY Zenon
<1>3. q \in RequestType
  BY Zenon, <1>1, Mine
<1>4. n \in RequestType /\ Follows(n, q, pc, read, k, x)
  BY Zenon, <1>2, <1>3, MovedRequest
<1>5. RequestInv(n)
  BY Zenon, <1>1, <1>4
<1>6. proc' = [proc EXCEPT ![p] = n]
  BY Zenon, <1>1, <1>2 DEF Goto
<1>7. Keeps(p, n)
  BY Zenon, <1>1, <1>4 DEF Keeps, Holds, Follows, Linked, storeVars
<1> QED BY Zenon, <1>4, <1>5, <1>6, <1>7, Quiet

\* ... or with one.
LEMMA WriteMove ==
    ASSUME IdentityIInv, NEW p \in Procs, NEW pc \in CallPcs \cup {"ok"},
           NEW read \in Emails \cup {None}, NEW k \in OryIds \cup {0}, NEW x \in PublicIds \cup {0},
           Goto(p, pc, read, k, x), StoreTypeOK', StoreInv', Evolves, OwnMember(p),
           pc \in WithBoth => \/ mapping'[x] # Unmapped
                              \/ Holds(proc[p]) /\ x = proc[p].public /\ k = proc[p].ory,
           \A n \in RequestType : Follows(n, proc[p], pc, read, k, x) => RequestInv(n)'
    PROVE  IdentityIInv'
<1>1. PICK q : q = proc[p]
  BY Zenon
<1>2. PICK n : n = Moved(q, pc, read, k, x)
  BY Zenon
<1>3. q \in RequestType
  BY Zenon, <1>1, Mine
<1>4. n \in RequestType /\ Follows(n, q, pc, read, k, x)
  BY Zenon, <1>2, <1>3, MovedRequest
<1>5. RequestInv(n)'
  BY Zenon, <1>1, <1>4
<1>6. proc' = [proc EXCEPT ![p] = n]
  BY Zenon, <1>1, <1>2 DEF Goto
<1>7. Keeps(p, n)
  BY Zenon, <1>1, <1>4 DEF Keeps, Holds, Follows
<1> QED BY Zenon, <1>4, <1>5, <1>6, <1>7, Advance

\* An error ends the request, after an effect.
LEMMA WriteFail ==
    ASSUME IdentityIInv, NEW p \in Procs, Fail(p), StoreTypeOK', StoreInv', Evolves, OwnMember(p)
    PROVE  IdentityIInv'
<1>1. PICK n : n = Request(proc[p].op, "err", None, None, None, 0, 0)
  BY Zenon
<1>2. n \in RequestType /\ RequestInv(n)'
  BY Zenon, <1>1, Mine, Answered
<1>3. proc' = [proc EXCEPT ![p] = n]
  BY Zenon, <1>1 DEF Fail
<1>4. Keeps(p, n)
  BY Zenon, <1>1 DEF Keeps, Holds, Request, WithBoth
<1> QED BY Zenon, <1>2, <1>3, <1>4, Advance

\* The tenant's schema is read.
LEMMA ProvisionSchemaStep ==
    ASSUME IdentityIInv, NEW p \in Procs, ProvisionSchema(p) PROVE IdentityIInv'
<1>1. PICK q : q = proc[p]
  BY Zenon
<1>2. PICK pc \in CallPcs : pc = IF q.op = "saml" THEN "saml_get" ELSE "list"
  BY Zenon DEF CallPcs
<1>3. RequestInv(q) /\ q.pc = "schema"
  BY Zenon, <1>1, Mine DEF ProvisionSchema
<1>4. ASSUME NEW n \in RequestType, Follows(n, q, pc, q.read, q.ory, q.public)
      PROVE  RequestInv(n)
  BY Zenon, <1>2, <1>3, <1>4
     DEF Follows, RequestInv, CallTable, By, WithOry, WithBoth, HasRead, Vouched,
         FederatedOps, CallPcs
<1>5. Goto(p, pc, q.read, q.ory, q.public) /\ UNCHANGED storeVars
  BY Zenon, <1>1, <1>2 DEF ProvisionSchema, Step
<1>6. pc \notin WithBoth
  BY Zenon, <1>2 DEF WithBoth
<1> QED BY Zenon, <1>1, <1>4, <1>5, <1>6, Mine, QuietMove

\* The SAML mapping of the name id is looked up.
LEMMA SamlLookupStep ==
    ASSUME IdentityIInv, NEW p \in Procs, SamlLookup(p) PROVE IdentityIInv'
<1>1. PICK q : q = proc[p]
  BY Zenon
<1>2. PICK hit : hit = saml[<<q.tenant, q.name>>]
  BY Zenon
<1>3. PICK pc \in CallPcs \cup {"ok"} : pc = IF hit = NoSaml THEN "list" ELSE "ok"
  BY Zenon DEF CallPcs
<1>4. /\ RequestInv(q) /\ q.pc = "saml_get" /\ q.op = "saml" /\ q.tenant \in Tenants
      /\ q.name \in NameIds /\ q.email \in Emails
  BY Zenon, <1>1, Mine DEF SamlLookup, RequestInv, CallTable, By, CallPcs
<1>5. hit.ory \in OryIds \cup {0} /\ hit.public \in PublicIds \cup {0}
  BY <1>2, <1>4, Mine DEF StoreTypeOK, NoSaml
<1>6. hit # NoSaml => /\ Backed(q.tenant, hit.public, hit.ory)
                      /\ member[<<q.tenant, hit.public>>] # NoMember
                      /\ NoUndo => Chained(hit.public, hit.ory)
  BY Zenon, <1>2, <1>4, Mine DEF StoreInv
<1>7. ASSUME NEW n \in RequestType, Follows(n, q, pc, q.read, hit.ory, hit.public)
      PROVE  RequestInv(n)
  BY Zenon, <1>3, <1>4, <1>6, <1>7
     DEF Follows, RequestInv, CallTable, By, WithOry, WithBoth, HasRead, Vouched,
         FederatedOps, CallPcs
<1>8. Goto(p, pc, q.read, hit.ory, hit.public) /\ UNCHANGED storeVars
  BY Zenon, <1>1, <1>2, <1>3 DEF SamlLookup
<1>9. pc \notin WithBoth
  BY Zenon, <1>3 DEF WithBoth
<1> QED BY Zenon, <1>1, <1>5, <1>7, <1>8, <1>9, Mine, QuietMove

\* Kratos is asked for the address.
LEMMA FindByEmailStep ==
    ASSUME IdentityIInv, NEW p \in Procs, FindByEmail(p) PROVE IdentityIInv'
<1>1. PICK q : q = proc[p]
  BY Zenon
<1>2. /\ RequestInv(q) /\ q.pc = "list" /\ q.op \in FederatedOps /\ q.tenant \in Tenants
      /\ q.email \in Emails
  BY Zenon, <1>1, Mine DEF FindByEmail, RequestInv, CallTable, By, CallPcs, FederatedOps
<1>3. CASE Step(p, "create")
  <2>1. ASSUME NEW n \in RequestType, Follows(n, q, "create", q.read, q.ory, q.public)
        PROVE  RequestInv(n)
    BY Zenon, <1>2, <2>1
       DEF Follows, RequestInv, CallTable, By, WithOry, WithBoth, HasRead, Vouched,
           FederatedOps, CallPcs
  <2>2. Goto(p, "create", q.read, q.ory, q.public) /\ UNCHANGED storeVars
    BY Zenon, <1>1, <1>3 DEF FindByEmail, Step
  <2>3. "create" \in CallPcs /\ "create" \notin WithBoth
    BY Zenon DEF CallPcs, WithBoth
  <2> QED BY Zenon, <1>1, <2>1, <2>2, <2>3, Mine, QuietMove
<1>4. ASSUME NEW k \in ListByIdentifier(q.email), StepOry(p, "find", k)
      PROVE  IdentityIInv'
  <2>1. k \in OryIds /\ kratos[k].email = q.email
    BY Zenon, <1>4 DEF ListByIdentifier
  <2>2. k \in Created /\ SameEmail(k, q.email)
    <3>1. kratos[k] # Gone
      BY <1>2, <2>1, IdentityAssumption DEF Gone
    <3> QED BY <2>1, <3>1, Mine, Records DEF StoreInv, Created, SameEmail, OryIds
  <2>3. ASSUME NEW n \in RequestType, Follows(n, q, "find", q.read, k, q.public)
        PROVE  RequestInv(n)
    BY Zenon, <1>2, <2>2, <2>3
       DEF Follows, RequestInv, CallTable, By, WithOry, WithBoth, HasRead, Vouched,
           FederatedOps, CallPcs
  <2>4. Goto(p, "find", q.read, k, q.public) /\ UNCHANGED storeVars
    BY Zenon, <1>1, <1>4 DEF FindByEmail, StepOry
  <2>5. "find" \in CallPcs /\ "find" \notin WithBoth
    BY Zenon DEF CallPcs, WithBoth
  <2> QED BY Zenon, <1>1, <2>1, <2>3, <2>4, <2>5, Mine, QuietMove
<1> QED BY Zenon, <1>1, <1>3, <1>4 DEF FindByEmail

\* The public id of the identity is looked up.
LEMMA FindPublicIdStep ==
    ASSUME IdentityIInv, NEW p \in Procs, FindPublicId(p) PROVE IdentityIInv'
<1>1. PICK q : q = proc[p]
  BY Zenon
<1>2. /\ RequestInv(q) /\ q.pc = "find" /\ q.tenant \in Tenants /\ q.ory \in Created
      /\ q.op \in FederatedOps \cup {"subject", "register", "settings"}
  BY Zenon, <1>1, Mine DEF FindPublicId, RequestInv, CallTable, By, CallPcs, WithOry
<1>3. CASE q.op # "settings" /\ Step(p, "map")
  <2>1. ASSUME NEW n \in RequestType, Follows(n, q, "map", q.read, q.ory, q.public)
        PROVE  RequestInv(n)
    BY Zenon, <1>2, <1>3, <2>1
       DEF Follows, RequestInv, CallTable, By, WithOry, WithBoth, HasRead, Vouched,
           FederatedOps, CallPcs
  <2>2. Goto(p, "map", q.read, q.ory, q.public) /\ UNCHANGED storeVars
    BY Zenon, <1>1, <1>3 DEF FindPublicId, Step
  <2>3. "map" \in CallPcs /\ "map" \notin WithBoth
    BY Zenon DEF CallPcs, WithBoth
  <2> QED BY Zenon, <1>1, <2>1, <2>2, <2>3, Mine, QuietMove
<1>4. PICK pc \in CallPcs \cup {"ok"} :
         pc = IF q.op \in {"subject", "register"} THEN "ok" ELSE "member"
  BY Zenon DEF CallPcs
<1>5. ASSUME NEW x \in PublicIdsOf(q.tenant, q.ory), StepPublic(p, pc, x)
      PROVE  IdentityIInv'
  <2>1. x \in PublicIds /\ mapping[x] = [tenant |-> q.tenant, ory |-> q.ory]
    BY Zenon DEF PublicIdsOf
  <2>2. Linked(x)
    BY <1>2, <2>1, IdentityAssumption DEF Linked, Unmapped
  <2>3. x \in Minted
    <3>1. StoreInv /\ nextPublic \in Nat
      BY Zenon, Mine, Records
    <3> QED BY <2>1, <2>2, <3>1 DEF StoreInv, Linked, Minted, PublicIds
  <2>4. Backed(q.tenant, x, q.ory) /\ Chained(x, q.ory)
    BY Zenon, <1>2, <2>1, <2>2, <2>3 DEF Backed, Chained
  <2>5. ASSUME NEW n \in RequestType, Follows(n, q, pc, q.read, q.ory, x)
        PROVE  RequestInv(n)
    BY <1>2, <1>4, <2>4, <2>5
       DEF Follows, RequestInv, CallTable, By, WithOry, WithBoth, HasRead, Vouched,
           FederatedOps, CallPcs
  <2>6. Goto(p, pc, q.read, q.ory, x) /\ UNCHANGED storeVars
    BY Zenon, <1>1, <1>5 DEF FindPublicId, StepPublic
  <2> QED BY Zenon, <1>1, <2>1, <2>2, <2>5, <2>6, Mine, QuietMove
<1>6. UNCHANGED storeVars
  BY Zenon DEF FindPublicId
<1> QED BY Zenon, <1>1, <1>3, <1>4, <1>5, <1>6, QuietFail DEF FindPublicId

\* Kratos creates an identity, or the address is taken.
LEMMA CreateIdentityStep ==
    ASSUME IdentityIInv, NEW p \in Procs, CreateIdentity(p) PROVE IdentityIInv'
<1>1. PICK q : q = proc[p]
  BY Zenon
<1>2. PICK k : k = nextOry
  BY Zenon
<1>3. PICK by \in {"base", "scim"} : by = IF q.op = "scim_create" THEN "scim" ELSE "base"
  BY Zenon
<1>4. /\ RequestInv(q) /\ q.pc = "create" /\ q.tenant \in Tenants /\ q.email \in Emails
      /\ q.op \in FederatedOps \cup {"create", "scim_create"}
      /\ q.op = "saml" => q.name \in NameIds
  BY Zenon, <1>1, Mine DEF CreateIdentity, RequestInv, CallTable, By, CallPcs, FederatedOps
<1>5. CASE Fail(p) /\ UNCHANGED <<kratos, nextOry>>
  <2>1. UNCHANGED storeVars
    BY Zenon, <1>5 DEF CreateIdentity, storeVars
  <2> QED BY Zenon, <1>5, <2>1, QuietFail
<1>6. CASE KratosInsert(q.email, by)
  <2>1. /\ StoreTypeOK' /\ StoreInv' /\ Evolves
        /\ k \in Created' /\ kratos'[k].email = q.email
    BY Zenon, <1>2, <1>4, <1>6, Mine, InsertIdentity DEF CreateIdentity
  <2>2. OwnMember(p)
    BY Zenon DEF CreateIdentity, OwnMember
  <2>3. CASE StepOry(p, "map", nextOry)
    <3>1. SameEmail(k, q.email)'
      BY Zenon, <2>1 DEF SameEmail
    <3>2. ASSUME NEW n \in RequestType, Follows(n, q, "map", q.read, k, q.public)
          PROVE  RequestInv(n)'
      BY Zenon, <1>4, <2>1, <3>1, <3>2
         DEF Follows, RequestInv, CallTable, By, WithOry, WithBoth, HasRead, Vouched,
             FederatedOps, CallPcs
    <3>3. Goto(p, "map", q.read, k, q.public)
      BY Zenon, <1>1, <1>2, <2>3 DEF StepOry
    <3>4. "map" \in CallPcs /\ "map" \notin WithBoth
      BY Zenon DEF CallPcs, WithBoth
    <3>5. k \in OryIds
      BY <1>2, <1>6, Mine, Records DEF KratosInsert, StoreTypeOK, OryIds
    <3> QED BY Zenon, <1>1, <2>1, <2>2, <3>2, <3>3, <3>4, <3>5, Mine, WriteMove
  <2>4. CASE Fail(p)
    BY Zenon, <2>1, <2>4, <2>2, WriteFail
  <2> QED BY Zenon, <1>1, <1>5, <2>3, <2>4 DEF CreateIdentity
<1> QED BY Zenon, <1>1, <1>3, <1>5, <1>6 DEF CreateIdentity

\* The mapping is inserted, or the winner of the race is read.
LEMMA CreateMappingStep ==
    ASSUME IdentityIInv, NEW p \in Procs, CreateMapping(p) PROVE IdentityIInv'
<1>1. PICK q : q = proc[p]
  BY Zenon
<1>2. PICK x : x = nextPublic
  BY Zenon
<1>3. PICK pc \in CallPcs \cup {"ok"} : pc = AfterMap(q.op)
  BY Zenon DEF AfterMap, CallPcs
<1>4. /\ RequestInv(q) /\ q.pc = "map" /\ q.tenant \in Tenants /\ q.ory \in Created
      /\ q.op \in FederatedOps \cup {"create", "scim_create", "subject", "register"}
      /\ q.op # "subject" => q.email \in Emails
      /\ q.op = "saml" => q.name \in NameIds
      /\ NoScimUpdate /\ q.op \in FederatedOps \cup {"create", "register"}
            => SameEmail(q.ory, q.email)
  BY Zenon, <1>1, Mine DEF CreateMapping, RequestInv, CallTable, By, CallPcs, FederatedOps, WithOry,
                    Vouched
<1>5. CASE /\ CanMap(q.tenant, q.ory) /\ InsertMapping(q.tenant, q.ory)
           /\ StepPublic(p, pc, nextPublic)
  <2>1. /\ StoreTypeOK' /\ StoreInv' /\ Evolves /\ x \in Minted' /\ q.ory \in Created'
        /\ mapping'[x] = [tenant |-> q.tenant, ory |-> q.ory]
    BY Zenon, <1>2, <1>4, <1>5, Mine, InsertLink DEF CreateMapping
  <2>2. UNCHANGED kratos
    BY Zenon DEF CreateMapping
  <2>3. Backed(q.tenant, x, q.ory)' /\ Chained(x, q.ory)'
    <3>1. mapping'[x] # Unmapped
      BY <1>4, <2>1, IdentityAssumption DEF Unmapped
    <3> QED BY Zenon, <2>1, <3>1 DEF Backed, Chained, Linked
  <2>4. NoScimUpdate /\ q.op \in FederatedOps \cup {"create", "register"}
            => SameEmail(q.ory, q.email)'
    BY Zenon, <1>4, <2>2 DEF SameEmail
  <2>5. ASSUME NEW n \in RequestType, Follows(n, q, pc, q.read, q.ory, x)
        PROVE  RequestInv(n)'
    BY SMTT(30), <1>3, <1>4, <2>1, <2>3, <2>4, <2>5 DEF AfterMap,
           Follows, RequestInv, CallTable, By, WithOry, WithBoth, HasRead, Vouched,
           FederatedOps, CallPcs
  <2>6. Goto(p, pc, q.read, q.ory, x) /\ x \in PublicIds
    BY SMTT(30), <1>1, <1>2, <1>5, Mine, Records
       DEF StepPublic, InsertMapping, StoreTypeOK, PublicIds
  <2>7. mapping'[x] # Unmapped
    BY <1>4, <2>1, IdentityAssumption DEF Unmapped
  <2>8. OwnMember(p)
    BY Zenon DEF CreateMapping, OwnMember
  <2> QED BY Zenon, <1>1, <2>1, <2>5, <2>6, <2>7, <2>8, Mine, WriteMove
<1>6. CASE Fail(p) /\ UNCHANGED <<mapping, nextPublic>>
  <2>1. UNCHANGED storeVars
    BY Zenon, <1>6 DEF CreateMapping, storeVars
  <2> QED BY Zenon, <1>6, <2>1, QuietFail
<1> QED BY Zenon, <1>1, <1>3, <1>5, <1>6 DEF CreateMapping

\* The membership is looked up.
LEMMA EnsureMembershipStep ==
    ASSUME IdentityIInv, NEW p \in Procs, EnsureMembership(p) PROVE IdentityIInv'
<1>1. PICK q : q = proc[p]
  BY Zenon
<1>2. PICK pc \in CallPcs \cup {"ok"} :
         pc = IF member[<<q.tenant, q.public>>] = NoMember THEN "upsert"
              ELSE IF q.op = "saml" THEN "saml_put" ELSE "ok"
  BY Zenon DEF CallPcs
<1>3. /\ RequestInv(q) /\ q.pc = "member" /\ q.op \in FederatedOps /\ q.tenant \in Tenants
      /\ q.email \in Emails /\ Backed(q.tenant, q.public, q.ory) /\ q.ory \in Created
      /\ q.op = "saml" => q.name \in NameIds
      /\ NoScimUpdate => SameEmail(q.ory, q.email)
      /\ NoUndo => Chained(q.public, q.ory)
  BY Zenon, <1>1, Mine DEF EnsureMembership, RequestInv, CallPcs, FederatedOps, WithBoth, WithOry,
                    Vouched
<1>4. ASSUME NEW n \in RequestType, Follows(n, q, pc, q.read, q.ory, q.public)
      PROVE  RequestInv(n)
  BY <1>2, <1>3, <1>4
     DEF Follows, RequestInv, CallTable, By, WithOry, WithBoth, HasRead, Vouched,
         FederatedOps, CallPcs
<1>5. Goto(p, pc, q.read, q.ory, q.public) /\ UNCHANGED storeVars
  BY Zenon, <1>1, <1>2 DEF EnsureMembership, Step
<1>6. Holds(q)
  BY Zenon, <1>3 DEF Holds, WithBoth
<1> QED BY Zenon, <1>1, <1>4, <1>5, <1>6, Mine, QuietMove

\* The membership is inserted with the address of the login.
LEMMA SeedMembershipStep ==
    ASSUME IdentityIInv, NEW p \in Procs, SeedMembership(p) PROVE IdentityIInv'
<1>1. PICK q : q = proc[p]
  BY Zenon
<1>2. PICK pc \in CallPcs \cup {"ok"} : pc = IF q.op = "saml" THEN "saml_put" ELSE "ok"
  BY Zenon DEF CallPcs
<1>3. /\ RequestInv(q) /\ q.pc = "upsert" /\ q.op \in FederatedOps /\ q.tenant \in Tenants
      /\ q.email \in Emails /\ Backed(q.tenant, q.public, q.ory) /\ q.ory \in Created
      /\ q.op = "saml" => q.name \in NameIds
      /\ NoScimUpdate => SameEmail(q.ory, q.email)
      /\ NoUndo => Chained(q.public, q.ory)
  BY Zenon, <1>1, Mine DEF SeedMembership, RequestInv, CallPcs, FederatedOps, WithBoth, WithOry,
                    Vouched
<1>4. /\ UpsertMember(q.tenant, q.public, q.email, "jit")
      /\ UNCHANGED <<kratos, mapping, saml, nextOry, nextPublic>>
      /\ Goto(p, pc, q.read, q.ory, q.public)
  BY Zenon, <1>1, <1>2 DEF SeedMembership, Step
<1>5. /\ q.public \in Minted
      /\ Linked(q.public) => mapping[q.public].tenant = q.tenant
      /\ Linked(q.public) => mapping[q.public].ory = q.ory
  BY <1>3 DEF Backed
<1>6. StoreTypeOK' /\ StoreInv' /\ Evolves /\ member'[<<q.tenant, q.public>>] # NoMember
  <2>1. StoreTypeOK /\ StoreInv
    BY Zenon, Mine
  <2>2. NoScimUpdate /\ Linked(q.public) => SameEmail(mapping[q.public].ory, q.email)
    BY Zenon, <1>3, <1>5
  <2> QED BY Zenon, <1>3, <1>4, <1>5, <2>1, <2>2, WriteMember
<1>7. /\ Backed(q.tenant, q.public, q.ory)' /\ q.ory \in Created'
      /\ NoUndo => Chained(q.public, q.ory)'
      /\ NoScimUpdate => SameEmail(q.ory, q.email)'
  BY Zenon, <1>3, <1>4 DEF Backed, Chained, SameEmail, Linked, Minted, Created
<1>8. ASSUME NEW n \in RequestType, Follows(n, q, pc, q.read, q.ory, q.public)
      PROVE  RequestInv(n)'
  BY <1>2, <1>3, <1>6, <1>7, <1>8
     DEF Follows, RequestInv, CallTable, By, WithOry, WithBoth, HasRead, Vouched,
         FederatedOps, CallPcs
<1>9. OwnMember(p) /\ Holds(q)
  <2>1. Holds(q)
    BY Zenon, <1>3 DEF Holds, WithBoth
  <2>2. ASSUME NEW t \in Tenants, NEW x \in PublicIds, member'[<<t, x>>] # member[<<t, x>>]
        PROVE  x = q.public /\ member'[<<t, x>>].email = q.email
    BY Zenon, <1>4, <2>2, Mine DEF UpsertMember, StoreTypeOK
  <2> QED BY Zenon, <1>1, <1>3, <2>1, <2>2 DEF OwnMember
<1> QED BY Zenon, <1>1, <1>4, <1>6, <1>8, <1>9, Mine, WriteMove

\* The SAML mapping is recorded.
LEMMA RecordSamlMappingStep ==
    ASSUME IdentityIInv, NEW p \in Procs, RecordSamlMapping(p) PROVE IdentityIInv'
<1>1. PICK q : q = proc[p]
  BY Zenon
<1>2. /\ RequestInv(q) /\ q.pc = "saml_put" /\ q.op = "saml" /\ q.tenant \in Tenants
      /\ q.name \in NameIds /\ Backed(q.tenant, q.public, q.ory)
      /\ member[<<q.tenant, q.public>>] # NoMember
      /\ NoUndo => Chained(q.public, q.ory)
  BY Zenon, <1>1, Mine DEF RecordSamlMapping, RequestInv, CallTable, By, CallPcs, FederatedOps
<1>3. q.public \in PublicIds /\ q.ory \in OryIds
  BY Zenon, <1>2, Mine, Records DEF Backed
<1>4. /\ saml' \in {saml, [saml EXCEPT ![<<q.tenant, q.name>>] =
                              [public |-> q.public, ory |-> q.ory]]}
      /\ UNCHANGED <<kratos, mapping, member, nextOry, nextPublic>>
      /\ Goto(p, "ok", q.read, q.ory, q.public)
  BY Zenon, <1>1 DEF RecordSamlMapping, Step
<1>5. StoreTypeOK' /\ StoreInv' /\ Evolves
  BY Zenon, <1>2, <1>3, <1>4, Mine, WriteSaml
<1>6. /\ Backed(q.tenant, q.public, q.ory)' /\ (NoUndo => Chained(q.public, q.ory)')
      /\ member'[<<q.tenant, q.public>>] # NoMember
  BY Zenon, <1>2, <1>4 DEF Backed, Chained, Linked, Minted, Created
<1>7. ASSUME NEW n \in RequestType, Follows(n, q, "ok", q.read, q.ory, q.public)
      PROVE  RequestInv(n)'
  BY Zenon, <1>2, <1>6, <1>7
     DEF Follows, RequestInv, CallTable, By, WithOry, WithBoth, HasRead, Vouched,
         FederatedOps, CallPcs
<1>8. OwnMember(p) /\ "ok" \notin WithBoth
  BY Zenon, <1>4 DEF OwnMember, WithBoth
<1> QED BY Zenon, <1>1, <1>4, <1>5, <1>7, <1>8, Mine, WriteMove

\* An awaited call fails, and the request takes its error path.
LEMMA CallFailsStep ==
    ASSUME IdentityIInv, NEW p \in Procs, CallFails(p) PROVE IdentityIInv'
<1>1. PICK q : q = proc[p]
  BY Zenon
<1>2. PICK pc : pc = AfterError(q.op, q.pc)
  BY Zenon
<1>3. RequestInv(q) /\ q.pc \in CallPcs /\ UNCHANGED storeVars
  BY Zenon, <1>1, Mine DEF CallFails
<1>4. CASE pc # "err"
  <2>1. /\ pc \in CallPcs \cup {"ok"}
        /\ \/ pc = "rollback" /\ q.op = "create" /\ q.pc = "upsert"
           \/ pc = "undo" /\ q.op = "register" /\ q.pc = "upsert"
           \/ pc = "map" /\ q.op = "register" /\ q.pc = "find"
           \/ pc = "ok" /\ q.pc = "saml_put"
    BY Zenon, <1>2, <1>4 DEF AfterError, CallPcs
  <2>2. ASSUME NEW n \in RequestType, Follows(n, q, pc, q.read, q.ory, q.public)
        PROVE  RequestInv(n)
    BY Zenon, <1>3, <2>1, <2>2
       DEF Follows, RequestInv, CallTable, By, WithOry, WithBoth, HasRead, Vouched,
           FederatedOps, CallPcs
  <2>3. Goto(p, pc, q.read, q.ory, q.public)
    BY Zenon, <1>1, <1>2, <1>4 DEF CallFails, Step
  <2>4. pc \in WithBoth => Holds(q)
    BY Zenon, <2>1 DEF Holds, WithBoth
  <2> QED BY Zenon, <1>1, <1>3, <2>1, <2>2, <2>3, <2>4, Mine, QuietMove
<1>5. CASE pc = "err"
  BY Zenon, <1>1, <1>2, <1>3, <1>5, QuietFail DEF CallFails
<1> QED BY Zenon, <1>4, <1>5

\* A request that begins knows its input and nothing else.
LEMMA QuietBegin ==
    ASSUME IdentityIInv, NEW p \in Procs, UNCHANGED storeVars,
           NEW op \in Ops, NEW pc \in CallPcs, NEW t \in Tenants, NEW e \in Emails \cup {None},
           NEW m \in NameIds \cup {None}, NEW k \in Created \cup {0}, NEW x \in Minted \cup {0},
           Begin(p, Request(op, pc, t, e, m, k, x)),
           \/ pc = "schema" /\ op = "provision" /\ e \in Emails
           \/ pc = "schema" /\ op = "saml" /\ e \in Emails /\ m \in NameIds
           \/ pc = "create" /\ op \in {"create", "scim_create"} /\ e \in Emails
           \/ /\ pc = "resolve" /\ op \in {"get", "update", "delete", "scim_update"}
              /\ op \notin {"get", "delete"} => e \in Emails
              /\ x \in Minted
           \/ pc = "find" /\ op = "subject" /\ k \in Created
           \/ pc = "submit" /\ op = "register" /\ e \in Emails
           \/ pc = "session" /\ op = "settings" /\ e \in Emails /\ k \in Created
    PROVE  IdentityIInv'
<1>1. PICK n : n = Request(op, pc, t, e, m, k, x)
  BY Zenon
<1>2. Created \subseteq OryIds /\ Minted \subseteq PublicIds
  BY Zenon, Mine, Records
<1>3. n \in RequestType
  BY Zenon, <1>1, <1>2, OpsAssumption DEF Request, RequestType
<1>4. /\ n.op = op /\ n.pc = pc /\ n.tenant = t /\ n.email = e /\ n.name = m
      /\ n.ory = k /\ n.public = x
  BY Zenon, <1>1 DEF Request
<1>5. RequestInv(n)
  BY Zenon, <1>4 DEF RequestInv, CallTable, By, WithOry, WithBoth, HasRead, Vouched,
              FederatedOps, CallPcs
<1>6. proc' = [proc EXCEPT ![p] = n]
  BY Zenon, <1>1 DEF Begin
<1>7. Keeps(p, n)
  BY Zenon, <1>4 DEF Keeps, Holds, WithBoth
<1> QED BY Zenon, <1>3, <1>5, <1>6, <1>7, Quiet

\* A request arrives.
LEMMA BeginsStep ==
    ASSUME IdentityIInv, NEW p \in Procs, BeginStep(p) PROVE IdentityIInv'
<1> USE DEF CallPcs
<1>1. CASE BeginFederated(p)
  <2>1. UNCHANGED storeVars
    BY Zenon, <1>1 DEF BeginFederated, BeginProvision, BeginProvisionSaml
  <2>2. ASSUME "provision" \in Ops, NEW t \in Tenants, NEW e \in Emails,
               BeginProvision(p, t, e)
        PROVE  IdentityIInv'
    BY Zenon, <2>1, <2>2, QuietBegin DEF BeginProvision
  <2>3. ASSUME "saml" \in Ops, NEW t \in Tenants, NEW m \in NameIds, NEW e \in Emails,
               BeginProvisionSaml(p, t, m, e)
        PROVE  IdentityIInv'
    BY Zenon, <2>1, <2>3, QuietBegin DEF BeginProvisionSaml
  <2> QED BY Zenon, <1>1, <2>2, <2>3 DEF BeginFederated
<1>2. CASE BeginCreate(p)
  <2>1. PICK op \in {"create", "scim_create"} \cap Ops, t \in Tenants, e \in Emails :
           Begin(p, Request(op, "create", t, e, None, 0, 0)) /\ UNCHANGED storeVars
    BY Zenon, <1>2 DEF BeginCreate
  <2> QED BY Zenon, <2>1, QuietBegin
<1>3. CASE BeginOnExisting(p)
  <2>1. PICK op \in {"get", "update", "delete", "scim_update"} \cap Ops,
             t \in Tenants, x \in Minted, e \in Emails :
           /\ Begin(p, Request(op, "resolve", t, IF op \in {"get", "delete"} THEN None ELSE e,
                               None, 0, x))
           /\ UNCHANGED storeVars
    BY Zenon, <1>3 DEF BeginOnExisting, Minted
  <2>2. PICK f \in Emails \cup {None} : f = IF op \in {"get", "delete"} THEN None ELSE e
    BY Zenon
  <2>3. Begin(p, Request(op, "resolve", t, f, None, 0, x))
    BY Zenon, <2>1, <2>2
  <2> QED BY Zenon, <2>1, <2>2, <2>3, QuietBegin
<1>4. CASE BeginSubject(p)
  <2>1. PICK t \in Tenants, k \in Created :
           Begin(p, Request("subject", "find", t, None, None, k, 0))
    BY Zenon, <1>4 DEF BeginSubject, Created
  <2>2. "subject" \in Ops /\ UNCHANGED storeVars
    BY Zenon, <1>4 DEF BeginSubject
  <2> QED BY Zenon, <2>1, <2>2, QuietBegin
<1>5. CASE BeginSelfService(p)
  <2>1. UNCHANGED storeVars
    BY Zenon, <1>5 DEF BeginSelfService
  <2>2. ASSUME "register" \in Ops, NEW t \in Tenants, NEW e \in Emails,
               Begin(p, Request("register", "submit", t, e, None, 0, 0))
        PROVE  IdentityIInv'
    BY Zenon, <2>1, <2>2, QuietBegin
  <2>3. ASSUME "settings" \in Ops, NEW t \in Tenants, NEW k \in Created, NEW e \in Emails,
               Begin(p, Request("settings", "session", t, e, None, k, 0))
        PROVE  IdentityIInv'
    BY Zenon, <2>1, <2>3, QuietBegin
  <2> QED BY Zenon, <1>5, <2>2, <2>3 DEF BeginSelfService, Created
<1> QED BY Zenon, <1>1, <1>2, <1>3, <1>4, <1>5 DEF BeginStep

\* The membership of a create, update, registration or settings request.
LEMMA StoreMembershipStep ==
    ASSUME IdentityIInv, NEW p \in Procs, StoreMembership(p) PROVE IdentityIInv'
<1>1. PICK q : q = proc[p]
  BY Zenon
<1>2. PICK pc \in CallPcs \cup {"ok"} : pc = IF q.op = "settings" THEN "put" ELSE "ok"
  BY Zenon DEF CallPcs
<1>3. PICK by \in {"jit", "admin", "backfill", "self"} :
         by = IF q.op \in {"create", "update"} THEN "admin" ELSE "self"
  BY Zenon
<1>4. /\ RequestInv(q) /\ q.pc = "upsert" /\ q.op \in {"create", "update", "register", "settings"}
      /\ q.tenant \in Tenants /\ q.email \in Emails /\ Backed(q.tenant, q.public, q.ory)
      /\ q.ory \in Created
      /\ NoScimUpdate => SameEmail(q.ory, q.email)
  BY Zenon, <1>1, Mine DEF StoreMembership, RequestInv, CallPcs, WithBoth, WithOry, Vouched
<1>5. /\ UpsertMember(q.tenant, q.public, q.email, by)
      /\ UNCHANGED <<kratos, mapping, saml, nextOry, nextPublic>>
      /\ Goto(p, pc, q.read, q.ory, q.public)
  BY Zenon, <1>1, <1>2, <1>3 DEF StoreMembership, Step
<1>6. /\ q.public \in Minted
      /\ Linked(q.public) => mapping[q.public].tenant = q.tenant
      /\ Linked(q.public) => mapping[q.public].ory = q.ory
  BY <1>4 DEF Backed
<1>7. StoreTypeOK' /\ StoreInv' /\ Evolves
  <2>1. StoreTypeOK /\ StoreInv
    BY Zenon, Mine
  <2>2. NoScimUpdate /\ Linked(q.public) => SameEmail(mapping[q.public].ory, q.email)
    BY Zenon, <1>4, <1>6
  <2> QED BY Zenon, <1>4, <1>5, <1>6, <2>1, <2>2, WriteMember
<1>8. /\ Backed(q.tenant, q.public, q.ory)' /\ q.ory \in Created'
      /\ NoScimUpdate => SameEmail(q.ory, q.email)'
  BY Zenon, <1>4, <1>5 DEF Backed, SameEmail, Linked, Minted, Created
<1>9. ASSUME NEW n \in RequestType, Follows(n, q, pc, q.read, q.ory, q.public)
      PROVE  RequestInv(n)'
  BY Zenon, <1>2, <1>4, <1>8, <1>9
     DEF Follows, RequestInv, CallTable, By, WithOry, WithBoth, HasRead, Vouched,
         FederatedOps, CallPcs
<1>10. OwnMember(p) /\ Holds(q)
  <2>1. Holds(q)
    BY Zenon, <1>4 DEF Holds, WithBoth
  <2>2. ASSUME NEW t \in Tenants, NEW x \in PublicIds, member'[<<t, x>>] # member[<<t, x>>]
        PROVE  x = q.public /\ member'[<<t, x>>].email = q.email
    BY Zenon, <1>5, <2>2, Mine DEF UpsertMember, StoreTypeOK
  <2> QED BY Zenon, <1>1, <1>4, <2>1, <2>2 DEF OwnMember
<1> QED BY Zenon, <1>1, <1>5, <1>7, <1>9, <1>10, Mine, WriteMove

\* A create whose membership failed deletes its identity again.
LEMMA RollbackStep ==
    ASSUME IdentityIInv, NEW p \in Procs, Rollback(p) PROVE IdentityIInv'
<1>1. proc[p].ory \in Created
  BY Zenon, Mine DEF Rollback, RequestInv, WithOry, WithBoth
<1>2. StoreTypeOK' /\ StoreInv' /\ Evolves
  BY Zenon, <1>1, Mine, WriteIdentity DEF Rollback
<1>3. OwnMember(p)
  BY Zenon DEF Rollback, OwnMember
<1> QED BY Zenon, <1>2, <1>3, WriteFail DEF Rollback

\* A request resolves the mapping of its public id.
LEMMA ResolveMappingStep ==
    ASSUME IdentityIInv, NEW p \in Procs, ResolveMapping(p) PROVE IdentityIInv'
<1>1. PICK q : q = proc[p]
  BY Zenon
<1>2. PICK k : k = mapping[q.public].ory
  BY Zenon
<1>3. PICK pc \in CallPcs \cup {"ok"} : pc = AfterResolve(q.op)
  BY Zenon DEF AfterResolve, CallPcs
<1>4. /\ RequestInv(q) /\ q.pc = "resolve" /\ q.tenant \in Tenants /\ q.public \in Minted
      /\ q.op \in {"get", "update", "delete", "scim_update"} /\ q.op \in Ops
      /\ UNCHANGED storeVars
  BY Zenon, <1>1, Mine DEF ResolveMapping, RequestInv, CallTable, By, CallPcs
<1>5. CASE MappedIn(q.tenant, q.public)
  <2>1. Linked(q.public) /\ mapping[q.public].tenant = q.tenant
    BY Zenon, <1>5 DEF MappedIn, Linked
  <2>2. q.public \in PublicIds /\ StoreInv /\ Created \subseteq OryIds
    BY Zenon, <1>4, Mine, Records
  <2>3. /\ mapping[q.public] = [tenant |-> q.tenant, ory |-> k]
        /\ k \in Created
    BY Zenon, <1>2, <2>1, <2>2, Mine, Records DEF StoreInv
  <2>4. Backed(q.tenant, q.public, k)
    BY Zenon, <1>4, <2>3 DEF Backed
  <2>5. ASSUME NEW n \in RequestType, Follows(n, q, pc, q.read, k, q.public)
        PROVE  RequestInv(n)
    BY <1>3, <1>4, <2>3, <2>4, <2>5
       DEF AfterResolve, NoScimUpdate, Follows, RequestInv, CallTable, By, WithOry, WithBoth,
           HasRead, Vouched, FederatedOps, CallPcs
  <2>6. Goto(p, pc, q.read, k, q.public)
    BY Zenon, <1>1, <1>2, <1>3, <1>5 DEF ResolveMapping, StepOry
  <2> QED BY Zenon, <1>1, <1>4, <2>1, <2>2, <2>3, <2>5, <2>6, Mine, QuietMove
<1>6. CASE ~MappedIn(q.tenant, q.public)
  BY Zenon, <1>1, <1>4, <1>6, QuietFail DEF ResolveMapping
<1> QED BY Zenon, <1>5, <1>6

\* With the membership's address in hand: get is done, an update or a settings
\* submission goes on if it keeps the address.
LEMMA ResolvedRequest ==
    ASSUME NEW q \in RequestType, NEW e, EmailUnchanged(q, e),
           q.op \in {"get", "update", "settings"}, q.op \in Ops, q.tenant \in Tenants,
           q.op # "get" => q.email \in Emails,
           q.ory \in Created, Backed(q.tenant, q.public, q.ory), NoScimUpdate => SameEmail(q.ory, e),
           NEW n \in RequestType,
           Follows(n, q, AfterResolved(q.op), q.read, q.ory, q.public)
    PROVE  RequestInv(n)
BY Zenon DEF AfterResolved, EmailUnchanged, Follows, RequestInv, CallTable, By, WithOry, WithBoth,
       HasRead, Vouched, FederatedOps, CallPcs

\* A request reads the membership of its public id.
LEMMA ResolveMembershipStep ==
    ASSUME IdentityIInv, NEW p \in Procs, ResolveMembership(p) PROVE IdentityIInv'
<1>1. PICK q : q = proc[p]
  BY Zenon
<1>2. PICK current : current = member[<<q.tenant, q.public>>]
  BY Zenon
<1>3. /\ RequestInv(q) /\ q \in RequestType /\ q.pc = "member" /\ q.tenant \in Tenants
      /\ q.op \in {"get", "update", "settings"} /\ q.op \in Ops
      /\ q.op # "get" => q.email \in Emails
      /\ q.ory \in Created /\ Backed(q.tenant, q.public, q.ory) /\ Holds(q)
      /\ UNCHANGED storeVars
  BY Zenon, <1>1, Mine DEF ResolveMembership, RequestInv, CallPcs, WithBoth, WithOry, Holds
<1>4. CASE current = NoMember
  <2>1. PICK pc \in CallPcs : pc = IF q.op = "settings" THEN "default" ELSE "fetch"
    BY Zenon DEF CallPcs
  <2>2. ASSUME NEW n \in RequestType, Follows(n, q, pc, q.read, q.ory, q.public)
        PROVE  RequestInv(n)
    BY <1>3, <2>1, <2>2
       DEF Follows, RequestInv, CallTable, By, WithOry, WithBoth, HasRead, Vouched,
           FederatedOps, CallPcs
  <2>3. Goto(p, pc, q.read, q.ory, q.public)
    BY Zenon, <1>1, <1>2, <1>4, <2>1 DEF ResolveMembership, Step
  <2> QED BY Zenon, <1>1, <1>3, <2>2, <2>3, Mine, QuietMove
<1>5. CASE current # NoMember /\ EmailUnchanged(q, current.email)
  <2>1. NoScimUpdate => SameEmail(q.ory, current.email)
    BY Zenon, <1>1, <1>2, <1>3, <1>5, Mine DEF HolderInv
  <2>2. PICK pc \in CallPcs \cup {"ok"} : pc = AfterResolved(q.op)
    BY Zenon DEF CallPcs, AfterResolved
  <2>3. ASSUME NEW n \in RequestType, Follows(n, q, pc, q.read, q.ory, q.public)
        PROVE  RequestInv(n)
    BY Zenon, <1>3, <1>5, <2>1, <2>2, <2>3, ResolvedRequest
  <2>4. Goto(p, pc, q.read, q.ory, q.public)
    BY Zenon, <1>1, <1>2, <1>5, <2>2 DEF ResolveMembership, Resolved, Step
  <2> QED BY Zenon, <1>1, <1>3, <2>3, <2>4, Mine, QuietMove
<1>6. CASE current # NoMember /\ ~EmailUnchanged(q, current.email)
  BY Zenon, <1>1, <1>2, <1>3, <1>6, QuietFail DEF ResolveMembership, Resolved
<1> QED BY Zenon, <1>4, <1>5, <1>6

\* A membership that is missing is rebuilt from Kratos.
LEMMA FetchForBackfillStep ==
    ASSUME IdentityIInv, NEW p \in Procs, FetchForBackfill(p) PROVE IdentityIInv'
<1>1. PICK q : q = proc[p]
  BY Zenon
<1>2. PICK found : found = kratos[q.ory]
  BY Zenon
<1>3. /\ RequestInv(q) /\ q.pc = "fetch" /\ q.ory \in Created /\ Holds(q) /\ UNCHANGED storeVars
  BY Zenon, <1>1, Mine DEF FetchForBackfill, RequestInv, WithBoth, WithOry, Holds
<1>4. CASE found # Gone
  <2>1. found.email \in Emails /\ SameEmail(q.ory, found.email)
    BY Zenon, <1>2, <1>3, <1>4, Mine, Records DEF SameEmail
  <2>2. ASSUME NEW n \in RequestType, Follows(n, q, "backfill", found.email, q.ory, q.public)
        PROVE  RequestInv(n)
    BY Zenon, <1>3, <2>1, <2>2
       DEF Follows, RequestInv, CallTable, By, WithOry, WithBoth, HasRead, Vouched,
           FederatedOps, CallPcs
  <2>3. Goto(p, "backfill", found.email, q.ory, q.public) /\ "backfill" \in CallPcs
    BY Zenon, <1>1, <1>2, <1>4 DEF FetchForBackfill, StepRead, CallPcs
  <2> QED BY Zenon, <1>1, <1>3, <2>1, <2>2, <2>3, Mine, QuietMove
<1>5. CASE found = Gone
  BY Zenon, <1>1, <1>2, <1>3, <1>5, QuietFail DEF FetchForBackfill
<1> QED BY Zenon, <1>4, <1>5

\* The self-service flow reads its session.
LEMMA ReadSessionStep ==
    ASSUME IdentityIInv, NEW p \in Procs, ReadSession(p) PROVE IdentityIInv'
<1>1. PICK q : q = proc[p]
  BY Zenon
<1>2. PICK found : found = kratos[q.ory]
  BY Zenon
<1>3. /\ RequestInv(q) /\ q.pc = "session" /\ q.ory \in Created /\ UNCHANGED storeVars
  BY Zenon, <1>1, Mine DEF ReadSession, RequestInv, WithBoth, WithOry
<1>4. CASE found # Gone
  <2>1. found.email \in Emails /\ SameEmail(q.ory, found.email)
    BY Zenon, <1>2, <1>3, <1>4, Mine, Records DEF SameEmail
  <2>2. ASSUME NEW n \in RequestType, Follows(n, q, "find", found.email, q.ory, q.public)
        PROVE  RequestInv(n)
    BY Zenon, <1>3, <2>1, <2>2
       DEF Follows, RequestInv, CallTable, By, WithOry, WithBoth, HasRead, Vouched,
           FederatedOps, CallPcs
  <2>3. /\ Goto(p, "find", found.email, q.ory, q.public)
        /\ "find" \in CallPcs /\ "find" \notin WithBoth
    BY Zenon, <1>1, <1>2, <1>4 DEF ReadSession, StepRead, CallPcs, WithBoth
  <2> QED BY Zenon, <1>1, <1>3, <2>1, <2>2, <2>3, Mine, QuietMove
<1>5. CASE found = Gone
  BY Zenon, <1>1, <1>2, <1>3, <1>5, QuietFail DEF ReadSession
<1> QED BY Zenon, <1>4, <1>5

\* get_default for a registration or a settings submission.
LEMMA DefaultSchemaStep ==
    ASSUME IdentityIInv, NEW p \in Procs, DefaultSchema(p) PROVE IdentityIInv'
<1>1. PICK q : q = proc[p]
  BY Zenon
<1>2. /\ RequestInv(q) /\ q.pc = "default" /\ q.op \in {"register", "settings"} /\ Holds(q)
      /\ UNCHANGED storeVars
  BY Zenon, <1>1, Mine DEF DefaultSchema, RequestInv, CallTable, By, WithBoth, Holds
<1>3. PICK pc \in {"upsert", "backfill", "undo"} :
         /\ pc = "backfill" <=> q.op = "settings"
         /\ Step(p, pc)
  BY Zenon, <1>1, <1>2 DEF DefaultSchema
<1>4. ASSUME NEW n \in RequestType, Follows(n, q, pc, q.read, q.ory, q.public)
      PROVE  RequestInv(n)
  BY Zenon, <1>2, <1>3, <1>4
     DEF Follows, RequestInv, CallTable, By, WithOry, WithBoth, HasRead, Vouched,
         FederatedOps, CallPcs
<1>5. Goto(p, pc, q.read, q.ory, q.public) /\ pc \in CallPcs
  BY Zenon, <1>1, <1>3 DEF Step, CallPcs
<1> QED BY Zenon, <1>1, <1>2, <1>4, <1>5, Mine, QuietMove

\* The rebuilt membership is stored.
LEMMA BackfillStep ==
    ASSUME IdentityIInv, NEW p \in Procs, Backfill(p) PROVE IdentityIInv'
<1>1. PICK q : q = proc[p]
  BY Zenon
<1>2. /\ RequestInv(q) /\ q \in RequestType /\ q.pc = "backfill" /\ q.tenant \in Tenants
      /\ q.op \in {"get", "update", "settings"} /\ q.op \in Ops
      /\ q.op # "get" => q.email \in Emails
      /\ q.ory \in Created /\ Backed(q.tenant, q.public, q.ory) /\ Holds(q)
      /\ q.read \in Emails /\ (NoScimUpdate => SameEmail(q.ory, q.read))
  BY Zenon, <1>1, Mine DEF Backfill, RequestInv, CallTable, By, CallPcs, WithBoth, WithOry, Holds,
                    HasRead
<1>3. /\ UpsertMember(q.tenant, q.public, q.read, "backfill")
      /\ UNCHANGED <<kratos, mapping, saml, nextOry, nextPublic>>
  BY Zenon, <1>1 DEF Backfill
<1>4. /\ q.public \in Minted
      /\ Linked(q.public) => mapping[q.public].tenant = q.tenant
      /\ Linked(q.public) => mapping[q.public].ory = q.ory
  BY <1>2 DEF Backed
<1>5. StoreTypeOK' /\ StoreInv' /\ Evolves
  <2>1. StoreTypeOK /\ StoreInv
    BY Zenon, Mine
  <2>2. NoScimUpdate /\ Linked(q.public) => SameEmail(mapping[q.public].ory, q.read)
    BY Zenon, <1>2, <1>4
  <2> QED BY Zenon, <1>2, <1>3, <1>4, <2>1, <2>2, WriteMember
<1>6. OwnMember(p)
  <2>1. ASSUME NEW t \in Tenants, NEW x \in PublicIds, member'[<<t, x>>] # member[<<t, x>>]
        PROVE  x = q.public /\ member'[<<t, x>>].email = q.read
    BY Zenon, <1>3, <2>1, Mine DEF UpsertMember, StoreTypeOK
  <2> QED BY Zenon, <1>1, <1>2, <2>1 DEF OwnMember
<1>7. CASE EmailUnchanged(q, q.read)
  <2>1. PICK pc \in CallPcs \cup {"ok"} : pc = AfterResolved(q.op)
    BY Zenon DEF CallPcs, AfterResolved
  <2>2. /\ Backed(q.tenant, q.public, q.ory)' /\ q.ory \in Created'
        /\ NoScimUpdate => SameEmail(q.ory, q.read)'
    BY Zenon, <1>2, <1>3 DEF Backed, SameEmail, Linked, Minted, Created
  <2>3. ASSUME NEW n \in RequestType, Follows(n, q, pc, q.read, q.ory, q.public)
        PROVE  RequestInv(n)'
    BY <1>2, <1>7, <2>1, <2>2, <2>3
       DEF AfterResolved, EmailUnchanged, Follows, RequestInv, CallTable, By, WithOry, WithBoth,
           HasRead, Vouched, FederatedOps, CallPcs
  <2>4. Goto(p, pc, q.read, q.ory, q.public)
    BY Zenon, <1>1, <1>7, <2>1 DEF Backfill, Resolved, Step
  <2> QED BY Zenon, <1>1, <1>2, <1>5, <1>6, <2>3, <2>4, Mine, WriteMove
<1>8. CASE ~EmailUnchanged(q, q.read)
  <2>1. Fail(p)
    BY Zenon, <1>1, <1>8 DEF Backfill, Resolved
  <2> QED BY Zenon, <1>5, <1>6, <2>1, WriteFail
<1> QED BY Zenon, <1>7, <1>8

\* An identity's address is changed in Kratos.
LEMMA UpdateKratosStep ==
    ASSUME IdentityIInv, NEW p \in Procs, UpdateKratos(p) PROVE IdentityIInv'
<1>1. PICK q : q = proc[p]
  BY Zenon
<1>2. /\ RequestInv(q) /\ q.pc = "put" /\ q.tenant \in Tenants /\ q.email \in Emails
      /\ q.op \in {"update", "settings", "scim_update"}
      /\ q.ory \in Created /\ Backed(q.tenant, q.public, q.ory) /\ Holds(q)
      /\ NoScimUpdate => SameEmail(q.ory, q.email)
  BY Zenon, <1>1, Mine
     DEF UpdateKratos, RequestInv, CallTable, By, CallPcs, WithBoth, WithOry, Holds,
                    Vouched
<1>3. CASE Fail(p) /\ UNCHANGED kratos
  <2>1. UNCHANGED storeVars
    BY Zenon, <1>3 DEF UpdateKratos, storeVars
  <2> QED BY Zenon, <1>3, <2>1, QuietFail
<1>4. CASE /\ kratos[q.ory] # Gone
           /\ kratos' = [kratos EXCEPT ![q.ory] =
                            [email |-> q.email,
                             by |-> IF q.op = "scim_update" THEN "scim" ELSE "base"]]
           /\ Step(p, IF q.op = "update" THEN "upsert" ELSE "ok")
  <2>0. PICK by \in {"base", "scim"} : by = IF q.op = "scim_update" THEN "scim" ELSE "base"
    BY Zenon
  <2>1. PICK v \in [email: Emails, by: {"base", "scim"}] : v = [email |-> q.email, by |-> by]
    BY Zenon, <1>2
  <2>2. PICK pc \in CallPcs \cup {"ok"} : pc = IF q.op = "update" THEN "upsert" ELSE "ok"
    BY Zenon DEF CallPcs
  <2>3. /\ kratos[q.ory] # Gone
        /\ kratos' = [kratos EXCEPT ![q.ory] = v]
        /\ Goto(p, pc, q.read, q.ory, q.public)
        /\ UNCHANGED <<mapping, member, saml, nextOry, nextPublic>>
    BY Zenon, <1>1, <1>4, <2>0, <2>1, <2>2 DEF UpdateKratos, Step
  <2>4. StoreTypeOK' /\ StoreInv' /\ Evolves
    <3>1. StoreTypeOK /\ StoreInv /\ v.email = q.email
      BY Zenon, <2>1, Mine
    <3> QED BY Zenon, <1>2, <2>1, <2>3, <3>1, WriteIdentity
  <2>5. Backed(q.tenant, q.public, q.ory)' /\ q.ory \in Created' /\ SameEmail(q.ory, q.email)'
    <3>1. kratos'[q.ory].email = q.email
      BY Zenon, <1>2, <2>1, <2>3, Mine, Records DEF StoreTypeOK
    <3> QED BY Zenon, <1>2, <2>3, <3>1 DEF Backed, SameEmail, Linked, Minted, Created
  <2>6. ASSUME NEW n \in RequestType, Follows(n, q, pc, q.read, q.ory, q.public)
        PROVE  RequestInv(n)'
    BY Zenon, <1>2, <2>2, <2>5, <2>6
       DEF Follows, RequestInv, CallTable, By, WithOry, WithBoth, HasRead, Vouched,
           FederatedOps, CallPcs
  <2>7. OwnMember(p)
    BY Zenon, <2>3 DEF OwnMember
  <2> QED BY Zenon, <1>1, <1>2, <2>3, <2>4, <2>6, <2>7, Mine, WriteMove
<1> QED BY Zenon, <1>1, <1>3, <1>4 DEF UpdateKratos

\* An identity is deleted in Kratos.
LEMMA DeleteKratosStep ==
    ASSUME IdentityIInv, NEW p \in Procs, DeleteKratos(p) PROVE IdentityIInv'
<1>1. PICK q : q = proc[p]
  BY Zenon
<1>2. /\ RequestInv(q) /\ q.pc = "drop" /\ q.tenant \in Tenants /\ q.op = "delete"
      /\ q.ory \in Created /\ Backed(q.tenant, q.public, q.ory) /\ Holds(q)
  BY Zenon, <1>1, Mine
     DEF DeleteKratos, RequestInv, CallTable, By, CallPcs, WithBoth, WithOry, Holds
<1>3. CASE Fail(p) /\ UNCHANGED kratos
  <2>1. UNCHANGED storeVars
    BY Zenon, <1>3 DEF DeleteKratos, storeVars
  <2> QED BY Zenon, <1>3, <2>1, QuietFail
<1>4. CASE kratos' = [kratos EXCEPT ![q.ory] = Gone]
  <2>1. UNCHANGED <<mapping, member, saml, nextOry, nextPublic>> /\ OwnMember(p)
    BY Zenon DEF DeleteKratos, OwnMember
  <2>2. StoreTypeOK' /\ StoreInv' /\ Evolves
    BY Zenon, <1>2, <1>4, <2>1, Mine, WriteIdentity
  <2>3. CASE Step(p, "unmap")
    <3>1. Backed(q.tenant, q.public, q.ory)' /\ q.ory \in Created' /\ kratos'[q.ory] = Gone
      <4>1. kratos'[q.ory] = Gone
        BY Zenon, <1>2, <1>4, Mine, Records DEF StoreTypeOK
      <4> QED BY Zenon, <1>2, <2>1, <4>1 DEF Backed, Linked, Minted, Created
    <3>2. ASSUME NEW n \in RequestType, Follows(n, q, "unmap", q.read, q.ory, q.public)
          PROVE  RequestInv(n)'
      BY Zenon, <1>2, <3>1, <3>2
         DEF Follows, RequestInv, CallTable, By, WithOry, WithBoth, HasRead, Vouched,
             FederatedOps, CallPcs
    <3>3. Goto(p, "unmap", q.read, q.ory, q.public) /\ "unmap" \in CallPcs
      BY Zenon, <1>1, <2>3 DEF Step, CallPcs
    <3> QED BY Zenon, <1>1, <1>2, <2>1, <2>2, <3>2, <3>3, Mine, WriteMove
  <2>4. CASE Fail(p)
    BY Zenon, <2>1, <2>2, <2>4, WriteFail
  <2> QED BY Zenon, <1>1, <1>3, <2>3, <2>4 DEF DeleteKratos
<1> QED BY Zenon, <1>1, <1>3, <1>4 DEF DeleteKratos

\* The mapping of a deleted identity goes; its membership stays.
LEMMA DeleteMappingStep ==
    ASSUME IdentityIInv, NEW p \in Procs, DeleteMapping(p) PROVE IdentityIInv'
<1>1. PICK q : q = proc[p]
  BY Zenon
<1>2. /\ RequestInv(q) /\ q.pc = "unmap" /\ q.tenant \in Tenants /\ q.op = "delete"
      /\ Backed(q.tenant, q.public, q.ory) /\ kratos[q.ory] = Gone
  BY Zenon, <1>1, Mine DEF DeleteMapping, RequestInv, CallTable, By, CallPcs, WithBoth, WithOry
<1>3. CASE MappedIn(q.tenant, q.public)
  <2>1. /\ mapping' = [mapping EXCEPT ![q.public] = Unmapped]
        /\ Goto(p, "ok", q.read, q.ory, q.public)
        /\ UNCHANGED <<kratos, member, saml, nextOry, nextPublic>>
    BY Zenon, <1>1, <1>3 DEF DeleteMapping, Step
  <2>2. q.public \in Minted /\ (Linked(q.public) => kratos[mapping[q.public].ory] = Gone)
    BY <1>2 DEF Backed
  <2>3. StoreTypeOK' /\ StoreInv' /\ Evolves
    BY Zenon, <2>1, <2>2, Mine, RemoveLink
  <2>4. ASSUME NEW n \in RequestType, Follows(n, q, "ok", q.read, q.ory, q.public)
        PROVE  RequestInv(n)'
    BY Zenon, <1>2, <2>4
       DEF Follows, RequestInv, CallTable, By, WithOry, WithBoth, HasRead, Vouched,
           FederatedOps, CallPcs
  <2>5. OwnMember(p) /\ "ok" \notin WithBoth
    BY Zenon, <2>1 DEF OwnMember, WithBoth
  <2> QED BY Zenon, <1>1, <2>1, <2>3, <2>4, <2>5, Mine, WriteMove
<1>4. CASE ~MappedIn(q.tenant, q.public)
  <2>1. Fail(p) /\ UNCHANGED storeVars
    BY Zenon, <1>1, <1>4 DEF DeleteMapping, storeVars
  <2> QED BY Zenon, <2>1, QuietFail
<1> QED BY Zenon, <1>3, <1>4

\* The mapping of a failed registration is taken back.
LEMMA UndoMappingStep ==
    ASSUME IdentityIInv, NEW p \in Procs, UndoMapping(p) PROVE IdentityIInv'
<1>1. PICK q : q = proc[p]
  BY Zenon
<1>2. q.op = "register" /\ q.op \in Ops /\ q.public \in Minted
  BY Zenon, <1>1, Mine DEF UndoMapping, RequestInv, CallTable, By, WithBoth, Backed
<1>3. CASE MappedIn(q.tenant, q.public)
  <2>1. /\ mapping' = [mapping EXCEPT ![q.public] = Unmapped]
        /\ UNCHANGED <<kratos, member, saml, nextOry, nextPublic>>
    BY Zenon, <1>1, <1>3 DEF UndoMapping
  <2>2. StoreTypeOK' /\ StoreInv' /\ Evolves
    BY Zenon, <1>2, <2>1, Mine, RemoveLink DEF NoUndo
  <2>3. OwnMember(p)
    BY Zenon, <2>1 DEF OwnMember
  <2> QED BY Zenon, <2>2, <2>3, WriteFail DEF UndoMapping
<1>4. CASE ~MappedIn(q.tenant, q.public)
  <2>1. Fail(p) /\ UNCHANGED storeVars
    BY Zenon, <1>1, <1>4 DEF UndoMapping, storeVars
  <2> QED BY Zenon, <2>1, QuietFail
<1> QED BY Zenon, <1>3, <1>4

\* A registration is submitted to Kratos.
LEMMA SubmitRegistrationStep ==
    ASSUME IdentityIInv, NEW p \in Procs, SubmitRegistration(p) PROVE IdentityIInv'
<1>1. PICK q : q = proc[p]
  BY Zenon
<1>2. /\ RequestInv(q) /\ q.pc = "submit" /\ q.op = "register" /\ q.tenant \in Tenants
      /\ q.email \in Emails
  BY Zenon, <1>1, Mine DEF SubmitRegistration, RequestInv, CallTable, By, CallPcs
<1>3. "find" \in CallPcs /\ "find" \notin WithBoth /\ "ok" \notin WithBoth /\ OwnMember(p)
  BY Zenon DEF CallPcs, WithBoth, SubmitRegistration, OwnMember
<1>4. CASE KratosInsert(q.email, "base")
  <2>1. PICK k : k = nextOry
    BY Zenon
  <2>2. /\ StoreTypeOK' /\ StoreInv' /\ Evolves
        /\ k \in Created' /\ kratos'[k].email = q.email
    BY Zenon, <1>2, <1>4, <2>1, Mine, InsertIdentity DEF SubmitRegistration
  <2>3. CASE StepOry(p, "find", nextOry)
    <3>1. SameEmail(k, q.email)'
      BY Zenon, <2>2 DEF SameEmail
    <3>2. ASSUME NEW n \in RequestType, Follows(n, q, "find", q.read, k, q.public)
          PROVE  RequestInv(n)'
      BY Zenon, <1>2, <2>2, <3>1, <3>2
         DEF Follows, RequestInv, CallTable, By, WithOry, WithBoth, HasRead, Vouched,
             FederatedOps, CallPcs
    <3>3. Goto(p, "find", q.read, k, q.public)
      BY Zenon, <1>1, <2>1, <2>3 DEF StepOry
    <3>4. k \in OryIds
      BY <1>4, <2>1, Mine, Records DEF KratosInsert, StoreTypeOK, OryIds
    <3> QED BY Zenon, <1>1, <1>3, <2>2, <3>2, <3>3, <3>4, Mine, WriteMove
  <2>4. CASE Step(p, "ok")
    <3>1. ASSUME NEW n \in RequestType, Follows(n, q, "ok", q.read, q.ory, q.public)
          PROVE  RequestInv(n)'
      BY Zenon, <1>2, <3>1
         DEF Follows, RequestInv, CallTable, By, WithOry, WithBoth, HasRead, Vouched,
             FederatedOps, CallPcs
    <3>2. Goto(p, "ok", q.read, q.ory, q.public)
      BY Zenon, <1>1, <2>4 DEF Step
    <3> QED BY Zenon, <1>1, <1>3, <2>2, <3>1, <3>2, Mine, WriteMove
  <2>5. CASE UNCHANGED <<kratos, nextOry>>
    <3>1. nextOry' = nextOry + 1 /\ nextOry \in Nat
      BY Zenon, <1>4, Mine, Records DEF KratosInsert
    <3> QED BY <2>5, <3>1
  <2> QED BY Zenon, <1>1, <2>3, <2>4, <2>5 DEF SubmitRegistration
<1>5. CASE UNCHANGED <<kratos, nextOry>>
  <2>1. UNCHANGED storeVars
    BY Zenon, <1>5 DEF SubmitRegistration, storeVars
  <2>2. ASSUME NEW k \in OryIds, kratos[k].email = q.email, StepOry(p, "find", k)
        PROVE  IdentityIInv'
    <3>1. kratos[k] # Gone
      BY <1>2, <2>2, IdentityAssumption DEF Gone
    <3>2. StoreInv /\ nextOry \in Nat
      BY Zenon, Mine, Records
    <3>3. k \in Created /\ SameEmail(k, q.email)
      BY <2>2, <3>1, <3>2 DEF StoreInv, Created, SameEmail, OryIds
    <3>4. ASSUME NEW n \in RequestType, Follows(n, q, "find", q.read, k, q.public)
          PROVE  RequestInv(n)
      BY Zenon, <1>2, <3>3, <3>4
         DEF Follows, RequestInv, CallTable, By, WithOry, WithBoth, HasRead, Vouched,
             FederatedOps, CallPcs
    <3>5. Goto(p, "find", q.read, k, q.public)
      BY Zenon, <1>1, <2>2 DEF StepOry
    <3> QED BY Zenon, <1>1, <1>3, <2>1, <2>2, <3>4, <3>5, Mine, QuietMove
  <2>3. CASE Fail(p)
    BY Zenon, <2>1, <2>3, QuietFail
  <2>4. CASE KratosInsert(q.email, "base")
    BY Zenon, <1>4, <2>4
  <2> QED BY Zenon, <1>1, <2>2, <2>3, <2>4 DEF SubmitRegistration
<1> QED BY Zenon, <1>1, <1>4, <1>5 DEF SubmitRegistration

-----------------------------------------------------------------------------
(* The invariant.                                                          *)

\* Empty stores meet the invariant.
LEMMA IdentityInitInv == IdentityInit => IdentityIInv
<1> SUFFICES ASSUME IdentityInit PROVE IdentityIInv
  BY Zenon
<1>1. PICK n : n = Idle
  BY Zenon
<1>2. n \in RequestType /\ RequestInv(n) /\ ~Holds(n)
  BY Zenon, <1>1, Answered DEF Idle, Holds, Request, WithBoth
<1>3. \A p \in Procs : proc[p] = n
  BY Zenon, <1>1 DEF IdentityInit
<1>4. IdentityTypeOK
  BY <1>1, <1>2, IdentityAssumption
     DEF IdentityInit, IdentityTypeOK, StoreTypeOK, OryIds, PublicIds
<1>5. Minted = {} /\ Created = {}
  BY DEF IdentityInit, Minted, Created
<1>6. StoreInv
  BY Zenon, <1>5 DEF IdentityInit, StoreInv, OnePublicIdPerIdentity, MembershipInHomeTenant, Linked
<1>7. HolderInv
  BY Zenon, <1>2, <1>3 DEF HolderInv
<1> QED BY Zenon, <1>2, <1>3, <1>4, <1>6, <1>7 DEF IdentityIInv

\* The invariant is inductive.
LEMMA IdentityNextInv == IdentityIInv /\ [IdentityNext]_identityVars => IdentityIInv'
<1> SUFFICES ASSUME IdentityIInv, [IdentityNext]_identityVars PROVE IdentityIInv'
  BY Zenon
<1>1. ASSUME NEW p \in Procs, ProvisionerStep(p) PROVE IdentityIInv'
  BY Zenon, <1>1, ProvisionSchemaStep, SamlLookupStep, FindByEmailStep, FindPublicIdStep,
     CreateIdentityStep, CreateMappingStep, EnsureMembershipStep, SeedMembershipStep,
     RecordSamlMappingStep DEF ProvisionerStep
<1>2. ASSUME NEW p \in Procs, ServiceStep(p) PROVE IdentityIInv'
  <2>1. CASE Return(p)
    BY Zenon, <2>1, QuietIdle DEF Return
  <2> QED
    BY Zenon, <1>2, <2>1, StoreMembershipStep, RollbackStep, ResolveMappingStep,
       ResolveMembershipStep,
       FetchForBackfillStep, BackfillStep, UpdateKratosStep, DeleteKratosStep, DeleteMappingStep,
       SubmitRegistrationStep, DefaultSchemaStep, UndoMappingStep, ReadSessionStep
       DEF ServiceStep
<1>3. ASSUME NEW p \in Procs, Crash(p) PROVE IdentityIInv'
  BY Zenon, <1>3, QuietIdle DEF Crash
<1>4. CASE UNCHANGED identityVars
  <2>1. UNCHANGED storeVars /\ proc' = proc
    BY Zenon, <1>4 DEF identityVars
  <2>2. StoreTypeOK' /\ StoreInv' /\ Evolves /\ nextOry' \in Nat /\ nextPublic' \in Nat
    BY Zenon, <2>1, QuietStores, RecordsNext
  <2>3. ASSUME NEW r \in Procs PROVE RequestInv(proc[r])'
    <3>1. PICK q : q = proc[r]
      BY Zenon
    <3>2. RequestInv(q)'
      BY Zenon, <2>2, <3>1, Mine, RequestStable
    <3>3. \A z : z = proc'[r] => RequestInv(z)'
      BY Zenon, <2>1, <3>1, <3>2
    <3> QED BY Zenon, <3>3
  <2>4. HolderInv'
    BY Zenon, <2>1 DEF IdentityIInv, HolderInv, SameEmail, storeVars
  <2> QED BY Zenon, <2>1, <2>2, <2>3, <2>4 DEF IdentityIInv, IdentityTypeOK
<1> QED BY Zenon, <1>1, <1>2, <1>3, <1>4, BeginsStep, CallFailsStep DEF IdentityNext

\* Every reachable state of the identity stores and of the requests on them
\* satisfies the invariant, whatever the number of requests in flight, tenants,
\* addresses and ids, and whichever operations take part.
THEOREM IdentityInvariance == IdentitySpec => []IdentityIInv
<1>1. IdentityInit => IdentityIInv
  BY Zenon, IdentityInitInv
<1>2. IdentityIInv /\ [IdentityNext]_identityVars => IdentityIInv'
  BY Zenon, IdentityNextInv
<1> QED BY <1>1, <1>2, PTL DEF IdentitySpec

\* The stores and the requests on them are well formed (Identities' types).
THEOREM IdentityTypeCorrect == IdentitySpec => []IdentityTypeOK
<1>1. IdentityIInv => IdentityTypeOK
  BY Zenon DEF IdentityIInv
<1> QED BY <1>1, IdentityInvariance, PTL

\* Racing logins, consents and creations never give one identity two public
\* ids in a tenant (mappings.create under its unique constraint).
THEOREM PublicIdIsUnique == IdentitySpec => []OnePublicIdPerIdentity
<1>1. IdentityIInv => OnePublicIdPerIdentity
  BY Zenon DEF IdentityIInv, StoreInv
<1> QED BY <1>1, IdentityInvariance, PTL

\* A membership lies in the tenant its public id was mapped to, although no
\* foreign key says so.
THEOREM MembershipsAtHome == IdentitySpec => []MembershipInHomeTenant
<1>1. IdentityIInv => MembershipInHomeTenant
  BY Zenon DEF IdentityIInv, StoreInv
<1> QED BY <1>1, IdentityInvariance, PTL

\* Kratos and the gateway agree on a member's address, in every mixture of
\* operations without SCIM's update_user.
THEOREM EmailsAgree ==
    ASSUME "scim_update" \notin Ops
    PROVE  IdentitySpec => []EmailAgreement
<1>1. IdentityIInv => EmailAgreement
  <2> SUFFICES ASSUME IdentityIInv, NEW t \in Tenants, NEW x \in PublicIds,
                      Linked(x), member[<<t, x>>] # NoMember,
                      kratos[mapping[x].ory].by = "base"
               PROVE  member[<<t, x>>].email = kratos[mapping[x].ory].email
    BY Zenon DEF EmailAgreement
  <2>1. SameEmail(mapping[x].ory, member[<<t, x>>].email)
    BY Zenon DEF IdentityIInv, StoreInv, NoScimUpdate
  <2>2. kratos[mapping[x].ory] # Gone
    BY DEF Gone
  <2> QED BY Zenon, <2>1, <2>2 DEF SameEmail
<1> QED BY <1>1, IdentityInvariance, PTL

\* A federated login that was answered with success left its membership, its
\* mapping and its identity behind, in every mixture of operations without
\* self-service registrations.
THEOREM LoginsComplete ==
    ASSUME "register" \notin Ops
    PROVE  IdentitySpec => []OkMeansComplete
<1>1. IdentityIInv => OkMeansComplete
  <2> SUFFICES ASSUME IdentityIInv, NEW p \in Procs, NEW q, q = proc[p],
                      q.pc = "ok", q.op \in {"provision", "saml"}
               PROVE  /\ member[<<q.tenant, q.public>>] # NoMember
                      /\ \/ mapping[q.public] = [tenant |-> q.tenant, ory |-> q.ory]
                         \/ mapping[q.public] = Unmapped /\ kratos[q.ory] = Gone
    BY Zenon DEF OkMeansComplete
  <2>1. /\ Backed(q.tenant, q.public, q.ory) /\ Chained(q.public, q.ory)
        /\ member[<<q.tenant, q.public>>] # NoMember
    BY Zenon, Mine DEF RequestInv, NoUndo, FederatedOps
  <2> QED BY Zenon, <2>1 DEF Backed, Chained, Linked
<1> QED BY <1>1, IdentityInvariance, PTL

\* A public id stands for one person for ever: whatever requests are in
\* flight, no step re-points its mapping.
THEOREM MappingsNeverMove == IdentitySpec => MappingNeverMoves
<1> DEFINE Stays == \A x \in PublicIds : Linked(x) => mapping'[x] \in {mapping[x], Unmapped}
<1>1. ASSUME IdentityIInv, UNCHANGED mapping PROVE Stays
  BY Zenon, <1>1
<1>2. ASSUME IdentityIInv, NEW p \in Procs, CreateMapping(p) PROVE Stays
  <2>1. CASE InsertMapping(proc[p].tenant, proc[p].ory)
    <3>1. mapping[nextPublic] = Unmapped /\ nextPublic \in PublicIds
      BY <1>2, <2>1, Mine, Records DEF InsertMapping, StoreInv, StoreTypeOK, PublicIds
    <3>2. \A x \in PublicIds : x # nextPublic => mapping'[x] = mapping[x]
      BY Zenon, <1>2, <2>1, Mine DEF InsertMapping, StoreTypeOK
    <3> QED BY Zenon, <3>1, <3>2 DEF Linked
  <2> QED BY Zenon, <1>1, <1>2, <2>1 DEF CreateMapping
<1>3. ASSUME IdentityIInv, NEW p \in Procs, DeleteMapping(p) \/ UndoMapping(p) PROVE Stays
  BY Zenon, <1>3, Mine DEF DeleteMapping, UndoMapping, StoreTypeOK
<1>4. ASSUME IdentityIInv, NEW p \in Procs,
             BeginStep(p) \/ ProvisionerStep(p) \/ ServiceStep(p) \/ CallFails(p) \/ Crash(p)
      PROVE  Stays
  <2>1. CASE BeginStep(p) \/ CallFails(p) \/ Crash(p)
    <3>1. UNCHANGED mapping
      BY Zenon, <2>1 DEF BeginStep, BeginFederated, BeginProvision, BeginProvisionSaml, BeginCreate,
                  BeginOnExisting, BeginSubject, BeginSelfService, CallFails, Crash, storeVars
    <3> QED BY Zenon, <1>1, <1>4, <3>1
  <2>2. CASE ProvisionerStep(p)
    <3>1. CreateMapping(p) \/ UNCHANGED mapping
      BY Zenon, <2>2 DEF ProvisionerStep, ProvisionSchema, SamlLookup, FindByEmail, FindPublicId,
                  CreateIdentity, EnsureMembership, SeedMembership, RecordSamlMapping, storeVars
    <3> QED BY Zenon, <1>1, <1>2, <1>4, <3>1
  <2>3. CASE ServiceStep(p)
    <3>1. DeleteMapping(p) \/ UndoMapping(p) \/ UNCHANGED mapping
      BY Zenon, <2>3 DEF ServiceStep, StoreMembership, Rollback, ResolveMapping, ResolveMembership,
                  FetchForBackfill, Backfill, UpdateKratos, DeleteKratos, SubmitRegistration,
                  DefaultSchema, ReadSession, Return, storeVars
    <3> QED BY Zenon, <1>1, <1>3, <1>4, <3>1
  <2> QED BY Zenon, <1>4, <2>1, <2>2, <2>3
<1>5. IdentityIInv /\ [IdentityNext]_identityVars => [Stays]_identityVars
  BY Zenon, <1>4 DEF IdentityNext
<1> QED BY <1>5, IdentityInvariance, PTL DEF IdentitySpec, MappingNeverMoves
=============================================================================
