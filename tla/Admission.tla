------------------------------ MODULE Admission ------------------------------
(***************************************************************************)
(* What the API server admits of a ControlPlane: the types of              *)
(* controlplane_types.go, the defaulting, validating and freezing rules of *)
(* controlplane_webhook.go, and what the reconciler derives from an        *)
(* admitted spec for the Keystone and Horizon children.                    *)
(*                                                                         *)
(* The conventions are those of Workload: an optional field is the empty   *)
(* set or the set of its value, so that "\A ks \in s.ks" is the nil check. *)
(* A name is a member of the small sets below, a URL its scheme, its host  *)
(* and whether it is a bare origin.  A rule returns whether its error list *)
(* is empty.                                                               *)
(***************************************************************************)
EXTENDS Workload, Sequences, SequencesExt

CONSTANTS Labels,          \* names that are lowercase RFC 1123 labels
          Hosts,           \* bare DNS names: no wildcard, no port, not too long
          LongNames,       \* labels whose derived child names pass 253 bytes
          CommaNames       \* OpenStack names that contain a comma

R == INSTANCE Release WITH Patches <- {""}

-----------------------------------------------------------------------------
(* The blocks of a spec as a user leaves them who sets nothing.            *)

DatabaseSpec == [clusterRef |-> {}, host |-> {}, mode |-> "", database |-> "",
                 secretRef |-> "", replicas |-> 3, size |-> ""]
CacheSpec == [clusterRef |-> {}, servers |-> {}]
InfrastructureSpec == [database |-> DatabaseSpec, cache |-> CacheSpec]

ServiceKeystoneSpec ==
  [mode |-> "", external |-> {}, replicas |-> {}, image |-> {}, policy |-> {},
   rotation |-> {}, gateway |-> {}, publicEndpoint |-> {}, proxyImage |-> {},
   dedicated |-> {}, ns |-> {}]
ServiceHorizonSpec ==
  [image |-> {}, gateway |-> {}, publicEndpoint |-> {}, secretKey |-> {},
   dedicated |-> {}, ns |-> {}]
KeystoneDedicatedBackingServicesSpec == [database |-> {}, cache |-> {}]
ServiceNamespaceSpec(name) == [name |-> name, lifecycle |-> ""]

ExternalKeystoneSpec == [authURL |-> {}, endpointType |-> "", ca |-> {}, catalog |-> {}]
ExternalCatalogSpec == [service |-> "", entries |-> <<>>]
ExternalCatalogEntrySpec(type) == [type |-> type, name |-> "", endpoints |-> <<>>]

ServiceAccountProjectSpec(name) == [name |-> name, create |-> FALSE]
ServiceAccountSpec(name) ==
  [name |-> name, user |-> "", domain |-> "", roles |-> {}, target |-> "",
   project |-> ServiceAccountProjectSpec("service")]
AdminCredentialSpec == [cloudSecret |-> "", password |-> "", user |-> "", domain |-> ""]
ControlPlaneSpec(rel) ==
  [rel |-> rel, region |-> "", store |-> {}, infra |-> {}, ks |-> {}, hz |-> {},
   admin |-> AdminCredentialSpec, accounts |-> <<>>, policy |-> {}]

-----------------------------------------------------------------------------
(* Reading a spec.                                                         *)

keystoneNamespaceBlock(s) == UNION {ks.ns : ks \in s.ks}
horizonNamespaceBlock(s)  == UNION {hz.ns : hz \in s.hz}
keystoneDedicatedBlock(s) == UNION {ks.dedicated : ks \in s.ks}
horizonDedicatedBlock(s)  == UNION {hz.dedicated : hz \in s.hz}

IsExternalKeystone(s) == \E ks \in s.ks : ks.mode = "External"

KeystoneNamespace(home, s) ==
  Or({b.name : b \in keystoneNamespaceBlock(s)} \ {""}, home)
HorizonNamespace(home, s) ==
  Or({b.name : b \in horizonNamespaceBlock(s)} \ {""}, home)

\* Two services in one namespace are one entry; the keystone block names it.
DedicatedServiceNamespaces(home, s) ==
  LET named(b) == b.name \notin {"", home}
      first == {b \in keystoneNamespaceBlock(s) : named(b)}
  IN  first \union {b \in horizonNamespaceBlock(s) :
                      named(b) /\ \A f \in first : f.name # b.name}
controlPlaneNamespaces(home, s) ==
  {home} \union {b.name : b \in DedicatedServiceNamespaces(home, s)}

\* A dedicated instance where the service declares one, else the shared one.
Effective(own, shared) == IF Has(own) THEN own ELSE shared
effectiveKeystoneDatabase(s) ==
  Effective(UNION {b.database : b \in keystoneDedicatedBlock(s)},
            {i.database : i \in s.infra})
effectiveKeystoneCache(s) ==
  Effective(UNION {b.cache : b \in keystoneDedicatedBlock(s)},
            {i.cache : i \in s.infra})
effectiveHorizonCache(s) ==
  Effective(UNION {b.cache : b \in horizonDedicatedBlock(s)},
            {i.cache : i \in s.infra})

-----------------------------------------------------------------------------
(* Default.                                                                *)

\* A managed instance is named when nothing says it is somebody else's.
NamedRef(ref, brownfield, name) ==
  IF brownfield THEN ref ELSE IF ref \in {{}, {""}} THEN {name} ELSE ref

defaultDatabaseLeaves(db, name) ==
  [db EXCEPT !.database = When(@, "", "keystone"),
             !.secretRef = When(@, "", "keystone-db"),
             !.clusterRef = NamedRef(@, Has(db.host), name)]
defaultCacheLeaves(cache, name) ==
  [cache EXCEPT !.clusterRef = NamedRef(@, cache.servers # {}, name)]

\* A dedicated database that is managed has static credentials.
DefaultDedicatedDatabase(db, name) ==
  LET d == defaultDatabaseLeaves(db, name)
  IN  [d EXCEPT !.mode = IF Has(d.clusterRef) THEN When(@, "", "Static") ELSE @]

DefaultInfrastructure(s) ==
  [s EXCEPT !.infra =
     {[database |-> defaultDatabaseLeaves(i.database, "openstack-db"),
       cache |-> defaultCacheLeaves(i.cache, "openstack-memcached")] :
      i \in IF Has(@) THEN @ ELSE {InfrastructureSpec}}]

DefaultDedicated(s) ==
  [s EXCEPT
     !.ks = {[k EXCEPT !.dedicated =
               {[database |-> {DefaultDedicatedDatabase(db, "cp-keystone-db") :
                               db \in b.database},
                 cache |-> {defaultCacheLeaves(c, "cp-keystone-cache") : c \in b.cache}] :
                b \in @}] : k \in @},
     !.hz = {[h EXCEPT !.dedicated =
               {[cache |-> {defaultCacheLeaves(c, "cp-horizon-cache") : c \in b.cache}] :
                b \in @}] : h \in @}]

DefaultExternal(s) ==
  [s EXCEPT !.ks = {[k EXCEPT !.external =
     {[e EXCEPT !.endpointType = When(@, "", "public"),
                !.ca = {[c EXCEPT !.key = When(@, "", "ca.crt")] : c \in @}] :
      e \in @}] : k \in @}]

DefaultPlacement(s) ==
  LET managed(b) == [b EXCEPT !.lifecycle = When(@, "", "Managed")]
  IN  [s EXCEPT !.region = When(@, "", "RegionOne"),
                !.ks = {[k EXCEPT !.mode = When(@, "", "Managed"),
                                  !.ns = {managed(b) : b \in @}] : k \in @},
                !.hz = {[h EXCEPT !.ns = {managed(b) : b \in @}] : h \in @}]

DefaultAdminCredential(s) ==
  [s EXCEPT !.admin = [cloudSecret |-> When(@.cloudSecret, "", "k-orc-clouds-yaml"),
                       password |-> When(@.password, "", "keystone-admin"),
                       user |-> When(@.user, "", "admin"),
                       domain |-> When(@.domain, "", "Default")],
            !.accounts = [i \in DOMAIN @ |-> [@[i] EXCEPT !.user = When(@, "", s.accounts[i].name)]]]

Default(s) ==
  LET placed == DefaultAdminCredential(DefaultPlacement(s))
  IN  IF IsExternalKeystone(placed) THEN DefaultExternal(placed)
      ELSE DefaultDedicated(DefaultInfrastructure(placed))

-----------------------------------------------------------------------------
(* validate: the shared blocks and the services.                           *)

validateHTTPURL(u) == u.scheme \in {"http", "https"} /\ u.host # ""
validateGatewayHostname(g) == g.hostname \in Hosts

\* Galera needs a quorum: two replicas cannot hold a majority.
validateDatabaseReplicas(db) == db.replicas # 2

validateInfrastructure(s) ==
  \A i \in s.infra :
    /\ DatabaseXOR(i.database) /\ DynamicCredentialsRequireClusterRef(i.database)
    /\ validateDatabaseReplicas(i.database) /\ CacheXOR(i.cache)

\* A rotation is a whole number of days.
validateKeystone(s) ==
  \A ks \in s.ks :
    /\ \A hours \in ks.rotation : hours > 0 /\ hours % 24 = 0
    /\ \A g \in ks.gateway : validateGatewayHostname(g)
    /\ \A i \in ks.image : ImageSchema(i)
    /\ \A p \in ks.policy : PolicySchema(p)

\* The dashboard is published at a bare origin, on its gateway if it has one.
validateHorizonPublicEndpoint(hz) ==
  \A u \in hz.publicEndpoint :
    /\ validateHTTPURL(u) /\ u.bare
    /\ \A g \in hz.gateway :
         g.hostname # "" => u.scheme = "https" /\ u.host = g.hostname

validateHorizon(s) ==
  \A hz \in s.hz :
    /\ \A g \in hz.gateway : validateGatewayHostname(g)
    /\ validateHorizonPublicEndpoint(hz)
    /\ \A i \in hz.image : ImageSchema(i)
    /\ "" \notin hz.secretKey

-----------------------------------------------------------------------------
(* validate: the keystone mode.                                            *)

Interfaces == {"public", "internal", "admin"}
Distinct(seq, Key(_)) ==
  \A i, j \in DOMAIN seq : i # j => Key(seq[i]) # Key(seq[j])

validateCatalogEntry(e) ==
  /\ e.type \in Labels \ (LongNames \union {"identity"})
  /\ e.name \notin CommaNames
  /\ \A ep \in Range(e.endpoints) :
       ep.interface \in Interfaces /\ validateHTTPURL(ep.url)
  /\ Distinct(e.endpoints, LAMBDA ep : ep.interface)
validateExternalCatalog(c) ==
  /\ c.service \notin CommaNames
  /\ Len(c.entries) <= 32
  /\ \A e \in Range(c.entries) : validateCatalogEntry(e)
  /\ Distinct(c.entries, LAMBDA e : e.type)

validateExternal(ks) ==
  \A e \in ks.external :
    /\ Has(e.authURL) /\ \A u \in e.authURL : validateHTTPURL(u)
    /\ \A ca \in e.ca : ca.name # "" /\ \A u \in e.authURL : u.scheme # "http"
    /\ \A c \in e.catalog : validateExternalCatalog(c)

\* Nothing that would deploy a workload goes with an External keystone.
ForbiddenExternal(ks) ==
  /\ ks.replicas = {} /\ ks.image = {} /\ ks.policy = {} /\ ks.rotation = {}
  /\ ks.gateway = {} /\ ks.publicEndpoint = {} /\ ks.proxyImage = {}
  /\ ks.dedicated = {} /\ ks.ns = {}

validateKeystoneMode(name, s) ==
  IF IsExternalKeystone(s)
  THEN /\ name \notin LongNames /\ s.infra = {} /\ s.hz = {}
       /\ \A ks \in s.ks : Has(ks.external) /\ validateExternal(ks) /\ ForbiddenExternal(ks)
  ELSE /\ Has(s.infra)
       /\ \A ks \in s.ks : ks.external = {} /\ \A i \in ks.proxyImage : ImageSchema(i)

-----------------------------------------------------------------------------
(* validate: service accounts, backing services, namespaces.               *)

effectiveServiceAccountUserName(a) == When(a.user, "", a.name)
effectiveAdminUserName(s) == When(s.admin.user, "", "admin")
effectiveAdminDomain(s) == When(s.admin.domain, "", "Default")
effectiveServiceAccountDomain(s, a) == When(a.domain, "", effectiveAdminDomain(s))
Identity(s, a) ==
  <<effectiveServiceAccountUserName(a), effectiveServiceAccountDomain(s, a)>>

validateServiceAccount(home, s, a) ==
  /\ a.name \in Labels \ LongNames
  /\ a.project.name # ""
  /\ ({a.user, a.domain, a.project.name} \union a.roles) \intersect CommaNames = {}
  /\ a.target \in {"", home} \union (controlPlaneNamespaces(home, s) \intersect Labels)
  /\ Identity(s, a) # <<effectiveAdminUserName(s), effectiveAdminDomain(s)>>
validateServiceAccounts(home, s) ==
  /\ Len(s.accounts) <= 32
  /\ \A a \in Range(s.accounts) : validateServiceAccount(home, s, a)
  /\ Distinct(s.accounts, LAMBDA a : a.name)
  /\ Distinct(s.accounts, LAMBDA a : Identity(s, a))
  /\ Distinct(SelectSeq(s.accounts, LAMBDA a : a.project.create),
              LAMBDA a : <<a.project.name, effectiveServiceAccountDomain(s, a)>>)

validateDedicatedDatabase(db) ==
  DatabaseXOR(db) /\ validateDatabaseReplicas(db) /\ db.mode # "Dynamic"

\* Every managed instance a spec declares, shared or dedicated, as a sequence
\* of names: a name that occurs twice would be one instance of two owners.
Refs(blocks) == SetToSeq(UNION {b.clusterRef : b \in blocks})
validateDedicatedBackingServices(s) ==
  LET ks == keystoneDedicatedBlock(s)
      hz == horizonDedicatedBlock(s)
      ksDB == UNION {b.database : b \in ks}
      ksCache == UNION {b.cache : b \in ks}
      hzCache == UNION {b.cache : b \in hz}
  IN  /\ \A b \in ks : Has(b.database) \/ Has(b.cache)
      /\ \A b \in hz : Has(b.cache)
      /\ \A db \in ksDB : validateDedicatedDatabase(db)
      /\ \A c \in ksCache \union hzCache : CacheXOR(c)
      /\ IsInjective(Refs({i.database : i \in s.infra}) \o Refs(ksDB))
      /\ IsInjective(Refs({i.cache : i \in s.infra}) \o Refs(ksCache) \o Refs(hzCache))

declaredServiceNamespaces(s) == keystoneNamespaceBlock(s) \union horizonNamespaceBlock(s)
validateServiceNamespaces(home, s) ==
  /\ \A b \in declaredServiceNamespaces(s) :
       /\ b.name \in Labels \ {home}
       /\ b.lifecycle \in {"Managed", "External", ""}
  /\ \A a, b \in declaredServiceNamespaces(s) : a.name = b.name => a = b

validate(home, name, s) ==
  /\ s.rel \in R!Releases
  /\ \A ref \in s.store : SecretStoreRefSchema(ref)
  /\ s.admin.password # ""
  /\ \A p \in s.policy : PolicySchema(p)
  /\ validateInfrastructure(s) /\ validateKeystone(s) /\ validateHorizon(s)
  /\ validateKeystoneMode(name, s)
  /\ validateServiceAccounts(home, s)
  /\ validateDedicatedBackingServices(s)
  /\ validateServiceNamespaces(home, s)

-----------------------------------------------------------------------------
(* Creation: one ControlPlane to a namespace, and one claim on each.  An   *)
(* existing ControlPlane is the record of its home and its spec.           *)

validateUniqueInNamespace(home, existing) == \A o \in existing : o.home # home

validateNamespaceClaims(home, s, existing) ==
  \A o \in existing :
    /\ \A b \in declaredServiceNamespaces(s) :
         b.name # "" => b.name \notin controlPlaneNamespaces(o.home, o.spec)
    /\ \A b \in DedicatedServiceNamespaces(o.home, o.spec) : b.name # home

ValidateCreate(home, name, s, existing) ==
  /\ validate(home, name, s)
  /\ validateUniqueInNamespace(home, existing)
  /\ validateNamespaceClaims(home, s, existing)

-----------------------------------------------------------------------------
(* Update: what is frozen.                                                 *)

effectiveStorageSize(size) == When(size, "", "100Gi")

validateDatabaseImmutable(old, new) ==
  /\ old.clusterRef = new.clusterRef
  /\ old.database = new.database /\ old.replicas = new.replicas
  /\ effectiveStorageSize(old.size) = effectiveStorageSize(new.size)
validateCacheImmutable(old, new) == old.clusterRef = new.clusterRef

\* An optional block neither appears nor goes, and what it holds keeps a rule.
BlockFrozen(old, new, Frozen(_, _)) ==
  /\ Has(old) = Has(new)
  /\ \A o \in old, n \in new : Frozen(o, n)

\* Mutant: what is frozen is a block that stays; a new one is free.
KeptBlocksFrozen(old, new) ==
  \A o \in keystoneDedicatedBlock(old), n \in keystoneDedicatedBlock(new) :
    BlockFrozen(o.database, n.database, validateDatabaseImmutable)

validateDedicatedBackingServicesImmutable(old, new) ==
  /\ BlockFrozen(keystoneDedicatedBlock(old), keystoneDedicatedBlock(new),
       LAMBDA o, n : /\ BlockFrozen(o.database, n.database, validateDatabaseImmutable)
                     /\ BlockFrozen(o.cache, n.cache, validateCacheImmutable))
  /\ BlockFrozen(horizonDedicatedBlock(old), horizonDedicatedBlock(new),
       LAMBDA o, n : BlockFrozen(o.cache, n.cache, validateCacheImmutable))

FrozenNamespace(o, n) == o.name = n.name /\ o.lifecycle = n.lifecycle
\* Mutant: the keystone block is forgotten.
HorizonNamespaceFrozen(old, new) ==
  BlockFrozen(horizonNamespaceBlock(old), horizonNamespaceBlock(new), FrozenNamespace)

validateServiceNamespacesImmutable(old, new) ==
  /\ BlockFrozen(keystoneNamespaceBlock(old), keystoneNamespaceBlock(new), FrozenNamespace)
  /\ BlockFrozen(horizonNamespaceBlock(old), horizonNamespaceBlock(new), FrozenNamespace)

\* An account is recognised by its name; one that is new under it is free.
validateServiceAccountsImmutable(old, new) ==
  \A o \in Range(old.accounts), n \in Range(new.accounts) :
    o.name = n.name => /\ o.user = n.user /\ o.domain = n.domain
                       /\ o.project = n.project /\ o.target = n.target

validateImmutable(old, new) ==
  /\ IsExternalKeystone(old) = IsExternalKeystone(new)
  /\ BlockFrozen(old.infra, new.infra,
       LAMBDA o, n : /\ validateDatabaseImmutable(o.database, n.database)
                     /\ validateCacheImmutable(o.cache, n.cache))
  /\ validateDedicatedBackingServicesImmutable(old, new)
  /\ validateServiceNamespacesImmutable(old, new)
  /\ old.admin.cloudSecret = new.admin.cloudSecret
  /\ old.region = new.region
  /\ validateServiceAccountsImmutable(old, new)

validateReleaseNotDowngraded(old, new) == ~ R!IsDowngrade(old.rel, new.rel)

ValidateUpdate(home, name, old, new) ==
  /\ validate(home, name, new)
  /\ validateImmutable(old, new)
  /\ validateReleaseNotDowngraded(old, new)

-----------------------------------------------------------------------------
(* What an admitted spec projects onto the children.                       *)

HTTPS(host, path) == [scheme |-> "https", host |-> host, bare |-> path = ""]
keystonePublicEndpoint(s) ==
  UNION {Effective(ks.publicEndpoint, {HTTPS(g.hostname, "v3") : g \in ks.gateway}) :
         ks \in s.ks}
horizonPublicEndpoint(s) ==
  UNION {Effective(hz.publicEndpoint, {HTTPS(g.hostname, "") : g \in hz.gateway}) :
         hz \in s.hz}
trustedDashboards(s) == horizonPublicEndpoint(s)
intervalToCron(hours) == IF hours = 168 THEN "weekly" ELSE "daily"

DefaultImage(rel) == [tag |-> {rel}, digest |-> {}]
keystoneChild(s) ==
  LET ks == CHOOSE k \in s.ks : TRUE
  IN  [image |-> Or(ks.image, DefaultImage(s.rel)),
       database |-> effectiveKeystoneDatabase(s),
       cache |-> effectiveKeystoneCache(s),
       region |-> s.region,
       gateway |-> ks.gateway,
       publicEndpoint |-> keystonePublicEndpoint(s),
       dashboards |-> trustedDashboards(s),
       replicas |-> ks.replicas,
       rotation |-> {intervalToCron(h) : h \in ks.rotation},
       policy |-> s.policy \union ks.policy,
       store |-> s.store]

\* What the API server admits of that Keystone: its own webhook's rule on the
\* public endpoint, and the fields frozen on a Keystone that exists.
validateKeystoneEndpoint(k) ==
  \A g \in k.gateway, u \in k.publicEndpoint :
    g.hostname # "" => u.scheme = "https" /\ u.host = g.hostname
DatabaseFrozen(o, n) ==
  o.database = n.database /\ Has(o.clusterRef) = Has(n.clusterRef)
KeystoneFrozen(old, new) ==
  /\ old.region = new.region
  /\ \A o \in old.database, n \in new.database : DatabaseFrozen(o, n)
KeystoneAccepts(old, new) ==
  validateKeystoneEndpoint(new) /\ \A o \in old : KeystoneFrozen(o, new)
=============================================================================
