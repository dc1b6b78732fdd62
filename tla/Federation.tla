------------------------------ MODULE Federation ------------------------------
(***************************************************************************)
(* Identity backends of one Keystone from their admission to the sidecar   *)
(* that serves them: the webhook (whose look at the siblings is a List     *)
(* before the write), the Keystone pass that renders LDAP, OIDC and SAML   *)
(* backends into immutable Secrets, a keystone.conf and the Deployment,    *)
(* and the backend controller that keeps the identity provider, mapping,   *)
(* groups and protocol in the identity service.                            *)
(*                                                                         *)
(* Abstracted: the documents' wording, URLs and certificates; which values *)
(* of a block hold a control character; informer lag and the write         *)
(* conflicts of a Keystone pass (module IdentityBackends has them); the    *)
(* roll-out, as calls of the identity service that may fail; polls, as     *)
(* keys that stay queued.  A Keystone pass is one step.                    *)
(***************************************************************************)
EXTENDS Integers, Sequences, FiniteSets

CONSTANTS
  Backends,    \* names of KeystoneIdentityBackends, each created at most once
  Drafts,      \* Drafts[b]: the specs users write for b
  Issuers,     \* OIDC issuers and SAML entity IDs
  Basename,    \* an issuer's name as a metadata file
  Folded,      \* a domain's name in lower case
  First,       \* First[S]: the first by name of a non-empty set of backends
  MaxTrouble   \* bound: edits of backends, failed calls of the identity service,
               \* deaths of the operator, changes of Secrets, endpoint, roles,
               \* Keystone spec

ASSUME FederationAssumption ==
  /\ MaxTrouble \in Nat
  /\ \A S \in SUBSET Backends \ {{}} : First[S] \in S

VARIABLES
  request,   \* what the webhook admitted and the API server has not stored yet
  backend,   \* the backend CRs
  world,     \* Secrets, metadata endpoint, roles and the Keystone's spec
  identity,  \* the identity service's domains, providers, mappings, protocols
  secrets,   \* the federation Secrets in the order of their creation
  stable,    \* the Secrets of a fixed name: passphrase, SP keypair, SP metadata
  dep,       \* the Deployment: domains, federation projection, keystone.conf
  status,    \* the Keystone's IdentityBackendsReady
  documents, \* the operator's memory: metadata by backend
  memo,      \* and the last rendered keystone.conf, with its key
  pc,        \* where each backend's pass stands, what it read and computed
  hand,
  work,
  woken,     \* the keys in the two work queues
  spent      \* what is used of the bounds

operator == <<documents, memo>>
pass == <<pc, hand, work>>
vars == <<request, backend, world, identity, secrets, stable, dep, status,
          operator, pass, woken, spent>>

-----------------------------------------------------------------------------
(* The spec of a backend.  An optional block is a set of at most one.       *)

Unset == ""
Modes == {"Manage", "Adopt"}
Policies == {"Retain", "Delete"}
BackendTypes == {"LDAP", "OIDC", "SAML"}
SessionTypes == {"client-cookie", "client-cookie-persistent"}
Texts == {"clean", "control"}
Keys == {Unset, "custom"}

DomainSpec == [name : DOMAIN Folded, mode : Modes \union {Unset},
               deletionPolicy : Policies \union {Unset}]
LDAPBackendSpec == [scheme : {"ldap", "http"}, text : Texts, key : Keys,
                    readOnly : {Unset, "true", "false"},
                    tls : BOOLEAN, pool : BOOLEAN]
OIDCEndpointsSpec == [introspection : {Unset, "http", "https"}]
OIDCBackendSpec == [issuer : Issuers, url : {Unset, "set", "derived"},
                    endpoints : SUBSET OIDCEndpointsSpec,
                    text : Texts, key : Keys, protocolID : STRING,
                    identityProviderName : STRING, remoteIDAttribute : STRING,
                    introspection : BOOLEAN,
                    sessionType : SessionTypes \union {Unset}]
SAMLIdPMetadataSpec == [source : {"inline", "secret", "url"}, entityID : Issuers]
SAMLBackendSpec == [idpEntityID : Issuers, metadata : SUBSET SAMLIdPMetadataSpec,
                    own : BOOLEAN, text : Texts, key : Keys, protocolID : STRING,
                    identityProviderName : STRING, remoteIDAttribute : STRING,
                    forwardAttributes : SUBSET STRING]
MappingRuleSpec == [local : Nat, remote : SUBSET STRING]
FederationRoleAssignmentSpec == [role : STRING, project : BOOLEAN, domain : BOOLEAN]
FederationGroupSpec == [name : STRING,
                        roleAssignments : SUBSET FederationRoleAssignmentSpec]
KeystoneIdentityBackendSpec ==
  [type : BackendTypes, domain : DomainSpec, ldap : SUBSET LDAPBackendSpec,
   oidc : SUBSET OIDCBackendSpec, saml : SUBSET SAMLBackendSpec,
   mappings : SUBSET MappingRuleSpec, groups : SUBSET FederationGroupSpec,
   extraOptions : SUBSET STRING]
ASSUME DraftsAssumption ==
  \A b \in Backends : \A s \in Drafts[b] : s \in KeystoneIdentityBackendSpec

The(block) == CHOOSE x \in block : TRUE
IsFederationType(s) == s.type \in {"OIDC", "SAML"}
Block(s) == IF s.type = "OIDC" THEN The(s.oidc) ELSE The(s.saml)
FederationRemoteID(s) == IF s.type = "OIDC" THEN Block(s).issuer
                         ELSE Block(s).idpEntityID
EffectiveIdentityProviderName(b, s) ==
  IF Block(s).identityProviderName # Unset THEN Block(s).identityProviderName ELSE b
EffectiveProtocolID(s) ==
  IF Block(s).protocolID # Unset THEN Block(s).protocolID
  ELSE IF s.type = "OIDC" THEN "openid" ELSE "mapped"
EffectiveRemoteIDAttribute(s) ==
  IF Block(s).remoteIDAttribute # Unset THEN Block(s).remoteIDAttribute
  ELSE IF s.type = "OIDC" THEN "HTTP_OIDC_ISS" ELSE "HTTP_MELLON_IDP"

-----------------------------------------------------------------------------
(* The webhook.                                                             *)

Or(value, default) == IF value = Unset THEN default ELSE value
DefaultDomain(d) == [d EXCEPT !.mode = Or(@, "Manage"),
                              !.deletionPolicy = Or(@, "Retain")]
DefaultOIDC(b, o) ==
  [o EXCEPT !.protocolID = Or(@, "openid"), !.identityProviderName = Or(@, b),
            !.remoteIDAttribute = Or(@, "HTTP_OIDC_ISS"),
            !.sessionType = Or(@, "client-cookie"),
            !.url = IF @ = Unset /\ o.endpoints = {} THEN "derived" ELSE @]
DefaultSAML(b, s) ==
  [s EXCEPT !.protocolID = Or(@, "mapped"), !.identityProviderName = Or(@, b),
            !.remoteIDAttribute = Or(@, "HTTP_MELLON_IDP")]
Default(b, s) ==
  [s EXCEPT !.domain = DefaultDomain(@),
            !.ldap = {[l EXCEPT !.readOnly = Or(@, "true")] : l \in @},
            !.oidc = {DefaultOIDC(b, o) : o \in @},
            !.saml = {DefaultSAML(b, m) : m \in @}]

Owned == {"url", "user", "password", "driver"}
ReadOnlyForcedOptions == {"user_allow_create", "group_allow_create"}

ValidUnion(s) ==
  /\ s.type = "LDAP" <=> s.ldap # {}
  /\ s.type = "OIDC" <=> s.oidc # {}
  /\ s.type = "SAML" <=> s.saml # {}
  /\ s.type = "LDAP" => s.mappings = {} /\ s.groups = {}
  /\ s.type # "LDAP" => s.extraOptions = {}
validateLDAP(l) == l.scheme = "ldap" /\ l.text = "clean" /\ l.key = Unset
validateExtraOptions(s) ==
  /\ s.extraOptions \intersect Owned = {}
  /\ (\A l \in s.ldap : l.readOnly # "false") =>
       s.extraOptions \intersect ReadOnlyForcedOptions = {}
validateOIDC(o) ==
  /\ o.text = "clean" /\ o.key = Unset
  /\ o.url = Unset \/ o.endpoints = {}
  /\ o.introspection => \A e \in o.endpoints : e.introspection = "https"
samlReservedSections == {"database", "identity", "token", "auth", "openid"}
Header == {"HTTP_OIDC_ISS", "HTTP_OIDC_SUB", "HTTP_OIDC_groups",
           "HTTP_MELLON_IDP", "HTTP_MELLON_NAME_ID", "HTTP_MELLON_MAIL"}
validateSAML(m) ==
  /\ m.text = "clean" /\ m.key = Unset
  /\ m.remoteIDAttribute \in Header \union {Unset}
  /\ m.protocolID \notin samlReservedSections
  /\ Cardinality(m.metadata) = 1
  /\ \A d \in m.metadata : d.source = "inline" => d.entityID = m.idpEntityID
validateMappings(rules) == \A r \in rules : r.local > 0 /\ r.remote # {}
validateGroups(groups) ==
  /\ \A g, h \in groups : g.name = h.name => g = h
  /\ \A g \in groups : \A ra \in g.roleAssignments : ra.project # ra.domain

\* The siblings the List returned: a terminating one does not count.
Siblings(b) == {c \in Backends \ {b} : backend[c].st = "live"}
Clash(b, s, c, t) ==
  \/ Folded[s.domain.name] = Folded[t.domain.name]
  \/ /\ IsFederationType(s) /\ IsFederationType(t)
     /\ EffectiveIdentityProviderName(b, s) = EffectiveIdentityProviderName(c, t)
  \/ s.saml # {} /\ t.saml # {}
  \/ /\ s.oidc # {} /\ t.oidc # {}
     /\ \/ EffectiveRemoteIDAttribute(s) # EffectiveRemoteIDAttribute(t)
        \/ Block(s).introspection /\ Block(t).introspection
validateSiblingBackends(b, s) ==
  \A c \in Siblings(b) : ~ Clash(b, s, c, backend[c].spec)

Valid(b, s) ==
  /\ ValidUnion(s)
  /\ Folded[s.domain.name] # "default"
  /\ \A l \in s.ldap : validateLDAP(l)
  /\ \A o \in s.oidc : validateOIDC(o)
  /\ \A m \in s.saml : validateSAML(m)
  /\ validateMappings(s.mappings) /\ validateGroups(s.groups)
  /\ validateExtraOptions(s)
  /\ validateSiblingBackends(b, s)

\* The transition rules of the CRD.
Immutable(old, new) ==
  /\ new.type = old.type
  /\ new.domain.name = old.domain.name /\ new.domain.mode = old.domain.mode

-----------------------------------------------------------------------------
(* What a Keystone pass renders.                                            *)

NoConfig == [drivers |-> FALSE, methods |-> FALSE, openid |-> Unset,
             saml |-> Unset, samlAttribute |-> Unset]
NoDeployment == [domains |-> {}, fed |-> {}, config |-> NoConfig]

Spec_(b) == backend[b].spec
Attached == {b \in Backends : backend[b].st \in {"live", "deleting"}}
Living == {b \in Backends : backend[b].st = "live"}
DuplicateDomain(b) ==
  \E c \in Attached \ {b} : Folded[Spec_(c).domain.name] = Folded[Spec_(b).domain.name]
SameIssuer(b) ==
  \E c \in Attached \ {b} :
    /\ Spec_(b).oidc # {} /\ Spec_(c).oidc # {}
    /\ Basename[Block(Spec_(c)).issuer] = Basename[Block(Spec_(b)).issuer]
SAMLBackends == {b \in Living : Spec_(b).type = "SAML"}

\* The metadata endpoint is asked unless the answer is remembered for this
\* generation; the newest federation Secret stands in for one that is down.
Source(s) == IF s.oidc # {} THEN IF Block(s).endpoints # {} THEN "spec" ELSE "url"
             ELSE The(Block(s).metadata).source
Fetched(s) == Source(s) = "url"
Document(s) ==
  [issuer |-> IF s.saml # {} /\ ~ Fetched(s) THEN The(Block(s).metadata).entityID
              ELSE FederationRemoteID(s),
   introspection |-> IF Source(s) = "spec" THEN The(Block(s).endpoints).introspection
                     ELSE "https"]
newestFederationSecret == secrets[Len(secrets)]
ProviderKey(b) == <<b, IF Spec_(b).oidc # {} THEN "provider" ELSE "idp-metadata.xml">>
LastKnownGood(b) ==
  IF secrets = <<>> THEN {}
  ELSE {newestFederationSecret[k].doc :
          k \in {ProviderKey(b)} \intersect DOMAIN newestFederationSecret}
Remembered(b) == {d.doc : d \in {e \in documents[b] : e.gen = backend[b].gen}}
StandIn(b) == {d \in LastKnownGood(b) : d.issuer = FederationRemoteID(Spec_(b))}
ProviderMetadata(b) ==
  LET s == Spec_(b)
  IN IF ~ Fetched(s) THEN {d \in {Document(s)} : d.issuer = FederationRemoteID(s)}
     ELSE IF Remembered(b) # {} THEN Remembered(b)
     ELSE IF world.up THEN {Document(s)} ELSE StandIn(b)

validateRenderInputs(s) == Block(s).text = "clean"
NeedsSecret(s) == \A m \in s.saml : m.own \/ Source(s) = "secret"
HasSecret(b) == NeedsSecret(Spec_(b)) => b \notin world.missing

\* The gates before a federation backend is rendered.
Reached(b) ==
  /\ b \in Living /\ ~ DuplicateDomain(b) /\ backend[b].ready = "true"
  /\ IsFederationType(Spec_(b)) =>
       /\ world.image
       /\ Spec_(b).saml # {} => SAMLBackends = {b}
       /\ ~ SameIssuer(b)
Asked(b) == Reached(b) /\ IsFederationType(Spec_(b)) /\ HasSecret(b)
            /\ validateRenderInputs(Spec_(b))

Introspects(s, d) == s.oidc # {} /\ Block(s).introspection
Renders(b) ==
  /\ Reached(b) /\ HasSecret(b) /\ b \notin world.large
  /\ IsFederationType(Spec_(b)) =>
       /\ validateRenderInputs(Spec_(b))
       /\ \E d \in ProviderMetadata(b) :
            Introspects(Spec_(b), d) => d.introspection = "https"

RemoteTypes(s) == UNION {r.remote : r \in s.mappings}
claimStripHeaders(s) == ({EffectiveRemoteIDAttribute(s)} \union RemoteTypes(s))
                        \intersect Header
samlStripHeaders(s) ==
  claimStripHeaders(s) \union {"HTTP_MELLON_IDP", "HTTP_MELLON_NAME_ID"}
  \union {a \in Block(s).forwardAttributes : a \in Header}

RenderBackend(b) ==
  LET s == Spec_(b)  d == The(ProviderMetadata(b))
  IN [name |-> b, idp |-> EffectiveIdentityProviderName(b, s),
      protocol |-> EffectiveProtocolID(s), doc |-> d,
      base |-> Basename[FederationRemoteID(s)],
      introspection |-> Introspects(s, d),
      attribute |-> EffectiveRemoteIDAttribute(s),
      strip |-> IF s.oidc # {} THEN claimStripHeaders(s) ELSE samlStripHeaders(s)]
OIDCRenders == {RenderBackend(b) : b \in {c \in Backends : Renders(c) /\ Spec_(c).type = "OIDC"}}
SAMLRenders == {RenderBackend(b) : b \in {c \in Backends : Renders(c) /\ Spec_(c).type = "SAML"}}

\* A protocol has its own entry path only while one backend uses it.
Pinned(renders) == {r.protocol : r \in {q \in renders : \A p \in renders \ {q} :
                                          p.protocol # q.protocol}}
renderProxyConf(oidc, saml) ==
  [strip |-> UNION {r.strip : r \in oidc \union saml},
   server |-> {r.idp : r \in {q \in oidc : q.introspection}},
   mellon |-> {<<r.idp, r.protocol>> : r \in saml},
   locations |-> {<<r.idp, r.protocol>> : r \in oidc \union saml},
   websso |-> Pinned(oidc \union saml)]

OIDCFiles == {"provider", "client", "conf"}
MellonKeys(r) == {<<"sp", "key">>, <<"sp", "cert">>, <<"sp", "metadata">>,
                  <<r.name, "idp-metadata.xml">>}
MetadataItems(oidc) == {<<<<r.name, f>>, <<r.base, f>>>> : r \in oidc, f \in OIDCFiles}
MellonItems(saml) == UNION {MellonKeys(r) : r \in saml}
DocumentAt(k, renders) ==
  IF \E r \in renders : r.name = k[1]
  THEN [of |-> k[1], doc |-> (CHOOSE r \in renders : r.name = k[1]).doc]
  ELSE [of |-> k[1], doc |-> Unset]

\* The documents are stored after the proxy's configuration, under the names
\* of the backends.
ProxyKey == <<"proxy", "conf">>
FederationData(oidc, saml) ==
  LET keys == {i[1] : i \in MetadataItems(oidc)} \union MellonItems(saml)
  IN [k \in keys \union {ProxyKey} |->
        IF k \in keys THEN DocumentAt(k, oidc \union saml)
        ELSE [of |-> "proxy", doc |-> renderProxyConf(oidc, saml)]]

buildFederationProjection(oidc, saml) ==
  [data |-> FederationData(oidc, saml),
   items |-> MetadataItems(oidc), mellon |-> MellonItems(saml),
   attribute |-> IF oidc = {} THEN Unset
                 ELSE (CHOOSE r \in oidc : r.name = First[{q.name : q \in oidc}]).attribute,
   protocol |-> IF saml = {} THEN Unset ELSE The(saml).protocol,
   samlAttribute |-> IF saml = {} THEN Unset ELSE The(saml).attribute]

\* renderDomainConf: the options that let Keystone write are forced off.
renderDomainConf(s) ==
  [domain |-> s.domain.name, tls |-> The(s.ldap).tls,
   extra |-> s.extraOptions,
   forced |-> IF The(s.ldap).readOnly # "false" THEN ReadOnlyForcedOptions ELSE {}]
DomainConfs == {renderDomainConf(Spec_(b)) :
                  b \in {c \in Backends : Renders(c) /\ Spec_(c).type = "LDAP"}}

Pending == {b \in Living : ~ Renders(b)}
AllOrNothing == IF Pending # {} \/ OIDCRenders \union SAMLRenders = {} THEN {}
                ELSE {buildFederationProjection(OIDCRenders, SAMLRenders)}
Projection ==
  LET oidc == OIDCRenders  saml == SAMLRenders
  IN IF oidc \union saml = {} THEN {} ELSE {buildFederationProjection(oidc, saml)}

\* keystone.conf, and what its rendering is remembered under.
KeyWithoutSAML(domains, fed) ==
  [image |-> world.image, drivers |-> domains # {}, methods |-> fed # {},
   openid |-> IF fed = {} THEN Unset ELSE The(fed).attribute,
   saml |-> Unset, samlAttribute |-> Unset]
ConfigKey(domains, fed) ==
  [image |-> world.image, drivers |-> domains # {}, methods |-> fed # {},
   openid |-> IF fed = {} THEN Unset ELSE The(fed).attribute,
   saml |-> IF fed = {} THEN Unset ELSE The(fed).protocol,
   samlAttribute |-> IF fed = {} THEN Unset ELSE The(fed).samlAttribute]
RenderConfig(key) ==
  [drivers |-> key.drivers, methods |-> key.methods, openid |-> key.openid,
   saml |-> key.saml, samlAttribute |-> key.samlAttribute]
Recalled(key) == {m.config : m \in {n \in memo : n.key = key}}
reconcileConfig(key) == IF Recalled(key) # {} THEN The(Recalled(key))
                        ELSE RenderConfig(key)

retain == 3
Older(d, list) == Cardinality({i \in DOMAIN list : \E j \in 1 .. (i - 1) : list[j] = d})
pruneStaleFederationSecrets(fed) ==
  IF fed = {} THEN <<>>
  ELSE LET others == SelectSeq(secrets, LAMBDA d : d # The(fed).data)
       IN SelectSeq(secrets, LAMBDA d : \/ d = The(fed).data
                                        \/ Older(d, others) < retain)

Stored(fed) ==
  IF fed = {} \/ \E i \in DOMAIN secrets : secrets[i] = The(fed).data THEN secrets
  ELSE Append(secrets, The(fed).data)

\* The SAML backends whose service-provider keypair a pass looks for, and where
\* it is there but no keypair: that is an error of the pass, not of the backend,
\* and so is a passphrase Secret without its key.
Keyed(b) == Reached(b) /\ validateRenderInputs(Spec_(b))
ensureSAMLSPKeypair ==
  IF \E b \in SAMLBackends : ~ Block(Spec_(b)).own /\ Keyed(b) THEN {"sp"} ELSE {}
KeypairFails ==
  {b \in SAMLBackends : /\ IF Block(Spec_(b)).own THEN b \in world.malformed \ world.missing
                           ELSE "sp" \in stable \intersect world.malformed
                        /\ Keyed(b)}
PassphraseFails == "passphrase" \in stable \intersect world.malformed /\ OIDCRenders # {}
PassFails == KeypairFails # {} \/ PassphraseFails

StableSecrets ==
  LET kept == IF SAMLBackends = {} THEN stable \ {"sp-metadata"} ELSE stable
  IN kept \union ensureSAMLSPKeypair
          \union (IF OIDCRenders # {} THEN {"passphrase"} ELSE {})
          \union (IF SAMLRenders # {} THEN {"sp-metadata"} ELSE {})

\* The documents a pass remembers: those it fetched or found standing in.
Learned == [b \in Backends |->
              IF Asked(b) /\ Fetched(Spec_(b)) /\ ProviderMetadata(b) # {}
              THEN {[gen |-> backend[b].gen, doc |-> The(ProviderMetadata(b))]}
              ELSE documents[b]]

\* One pass of the Keystone controller: a changed template ends it before the
\* old Secrets are pruned, and rolls the Deployment, whose events wake all.
ReconcileIdentityBackends ==
  /\ "keystone" \in woken /\ ~ PassFails
  /\ \E fed \in {Projection}, domains \in {DomainConfs}, waiting \in {Pending},
        known \in {Learned} :
     \E key \in {ConfigKey(domains, fed)} :
     \E template \in {[domains |-> domains, fed |-> fed,
                       config |-> reconcileConfig(key)]} :
       /\ dep' = template /\ status' = waiting /\ documents' = known
       /\ memo' = {[key |-> key, config |-> template.config]}
       /\ secrets' = IF template = dep THEN pruneStaleFederationSecrets(fed)
                     ELSE Stored(fed)
       /\ stable' = StableSecrets
       /\ woken' = (woken \ {"keystone"})
            \union (IF template # dep THEN Attached \union {"keystone"} ELSE {})
            \union (IF waiting # status THEN Attached ELSE {})
  /\ UNCHANGED <<request, backend, world, identity, pass, spent>>

\* A pass that fails projects and withdraws nothing, and is tried again: the
\* keypair ends it at its backend, the passphrase after all of them.
ReconcileFails ==
  /\ "keystone" \in woken /\ PassFails
  /\ documents' = [b \in Backends |->
                     IF \A c \in KeypairFails : c # b /\ First[{b, c}] = b
                     THEN Learned[b] ELSE documents[b]]
  /\ stable' = IF KeypairFails = {} THEN stable \union ensureSAMLSPKeypair ELSE stable
  /\ UNCHANGED <<request, backend, world, identity, secrets, dep, status, memo, pass,
                 woken, spent>>
KeystonePass == ReconcileIdentityBackends \/ ReconcileFails

-----------------------------------------------------------------------------
(* Users, administrators and the cluster.                                   *)

NoBackend(b) == [st |-> "none", spec |-> CHOOSE s \in Drafts[b] : TRUE, gen |-> 0,
                 fin |-> FALSE, id |-> Unset, ready |-> "unknown", fed |-> "unknown",
                 map |-> "unknown", projected |-> FALSE]

Gone(b) == [NoBackend(b) EXCEPT !.st = "gone", !.spec = backend[b].spec]

Init ==
  /\ request = {} /\ backend = [b \in Backends |-> NoBackend(b)]
  /\ world = [missing |-> {}, malformed |-> {}, large |-> {}, up |-> TRUE, image |-> TRUE, admin |-> TRUE,
              roles |-> TRUE]
  /\ identity = [domains |-> {}, providers |-> {}, mappings |-> {},
                 protocols |-> {}, groups |-> {}, grants |-> {}]
  /\ secrets = <<>> /\ stable = {} /\ dep = NoDeployment /\ status = {}
  /\ documents = [b \in Backends |-> {}] /\ memo = {}
  /\ pc = [b \in Backends |-> "idle"]
  /\ hand = backend /\ work = backend /\ woken = {}
  /\ spent = [trouble |-> 0, outages |-> 0]

Asks(b, s, gen) ==
  /\ \A q \in request : q.name # b
  /\ Valid(b, s)
  /\ request' = request \union {[name |-> b, spec |-> s, gen |-> gen]}
ValidateCreate(b) ==
  /\ backend[b].st = "none"
  /\ \E s \in Drafts[b] : Asks(b, Default(b, s), 0)
  /\ UNCHANGED <<backend, world, identity, secrets, stable, dep, status,
                 operator, pass, woken, spent>>
ValidateUpdate(b) ==
  /\ backend[b].st = "live" /\ spent.trouble < MaxTrouble
  /\ \E d \in Drafts[b] :
       LET s == Default(b, d)
       IN s # Spec_(b) /\ Immutable(Spec_(b), s) /\ Asks(b, s, backend[b].gen)
  /\ spent' = [spent EXCEPT !.trouble = @ + 1]
  /\ UNCHANGED <<backend, world, identity, secrets, stable, dep, status,
                 operator, pass, woken>>

\* The API server stores what was admitted, unless the object has moved on.
Persist ==
  /\ \E q \in request :
       LET b == q.name
           fresh == IF q.gen = 0 THEN backend[b].st = "none"
                    ELSE backend[b].st = "live" /\ backend[b].gen = q.gen
       IN /\ request' = request \ {q}
          /\ backend' = IF fresh
                        THEN [backend EXCEPT ![b].st = "live", ![b].spec = q.spec,
                                             ![b].gen = q.gen + 1]
                        ELSE backend
          /\ woken' = IF fresh THEN woken \union {b, "keystone"} ELSE woken
  /\ UNCHANGED <<world, identity, secrets, stable, dep, status, operator, pass, spent>>

DeleteBackend(b) ==
  /\ backend[b].st = "live"
  /\ backend' = [backend EXCEPT ![b] = IF @.fin THEN [@ EXCEPT !.st = "deleting"]
                                       ELSE Gone(b)]
  /\ woken' = woken \union {b, "keystone"}
  /\ UNCHANGED <<request, world, identity, secrets, stable, dep, status, operator,
                 pass, spent>>

\* Secrets and the Keystone's spec are watched; the endpoint and the roles
\* are not.
Toggle(x, S) == IF x \in S THEN S \ {x} ELSE S \union {x}
Corruptible == (stable \intersect {"sp", "passphrase"})
               \union {b \in Living : \E m \in Spec_(b).saml : m.own}
ChangeWorld ==
  /\ spent.trouble < MaxTrouble
  /\ \/ /\ \/ \E b \in {c \in Attached : NeedsSecret(Spec_(c))} :
                world' = [world EXCEPT !.missing = Toggle(b, @)]
           \/ \E x \in Corruptible : world' = [world EXCEPT !.malformed = Toggle(x, @)]
           \/ \E b \in Living : world' = [world EXCEPT !.large = Toggle(b, @)]
        /\ woken' = woken \union {"keystone"}
     \/ /\ world' = [world EXCEPT !.image = ~ @]
        /\ woken' = woken \union Attached \union {"keystone"}
     \/ /\ world' = [world EXCEPT !.admin = ~ @]
        /\ woken' = woken \union {"keystone"}
     \/ /\ \E field \in {"up", "roles"} : world' = [world EXCEPT ![field] = ~ @]
        /\ UNCHANGED woken
  /\ spent' = [spent EXCEPT !.trouble = @ + 1,
                            !.outages = IF world'.up THEN @ ELSE 1]
  /\ UNCHANGED <<request, backend, identity, secrets, stable, dep, status,
                 operator, pass>>

\* An administrator deletes a Secret that is no keypair or no passphrase, or
\* writes it anew, and shortens what was too large.
Mend ==
  /\ world.malformed \union world.large # {}
  /\ world' = [world EXCEPT !.malformed = {}, !.large = {}]
  /\ woken' = woken \union {"keystone"}
  /\ UNCHANGED <<request, backend, identity, secrets, stable, dep, status,
                 operator, pass, spent>>

Crash ==
  /\ spent.trouble < MaxTrouble
  /\ spent' = [spent EXCEPT !.trouble = @ + 1]
  /\ documents' = [b \in Backends |-> {}] /\ memo' = {}
  /\ pc' = [b \in Backends |-> "idle"]
  /\ hand' = [b \in Backends |-> NoBackend(b)] /\ work' = hand'
  /\ woken' = Attached \union {"keystone"}
  /\ UNCHANGED <<request, backend, world, identity, secrets, stable, dep, status>>

-----------------------------------------------------------------------------
(* A pass of the backend controller.  hand is the copy it read, work the    *)
(* status it computes; "again" is an error or a poll: the key stays queued. *)

IdP(s, b) == EffectiveIdentityProviderName(b, s)
federationMappingID(s, b) == <<IdP(s, b), "mapping">>
Goto(b, next) == pc' = [pc EXCEPT ![b] = next]
EndPass(b) == /\ Goto(b, "idle") /\ hand' = [hand EXCEPT ![b] = NoBackend(b)]
              /\ work' = [work EXCEPT ![b] = NoBackend(b)]
Outside == <<request, world, secrets, stable, dep, status, operator, spent>>

isConfigProjected(b) ==
  CASE Spec_(b).type = "LDAP" ->
         \E c \in dep.domains : c.domain = Spec_(b).domain.name
    [] Spec_(b).type = "OIDC" ->
         \E f \in dep.fed : f.items # {} /\ <<b, "client">> \in DOMAIN f.data
    [] Spec_(b).type = "SAML" ->
         \E f \in dep.fed : f.mellon # {} /\ <<b, "idp-metadata.xml">> \in DOMAIN f.data

\* The finalizer is an Update of the object: the webhook judges it too.
InstallFinalizer(b) ==
  /\ b \in woken /\ pc[b] = "idle" /\ backend[b].st = "live" /\ ~ backend[b].fin
  /\ Valid(b, Spec_(b))
  /\ backend' = [backend EXCEPT ![b].fin = TRUE]
  /\ UNCHANGED <<identity, pass, woken, Outside>>

\* A failed observation leaves a True condition alone.
Transient(condition) == IF condition = "true" THEN "true" ELSE "false"

\* The pass reads the backend and finds, creates or adopts its domain; without
\* the admin Secret, or when the call fails, it only notes that it could not.
Starts(b) == b \in woken /\ pc[b] = "idle" /\ backend[b].st = "live" /\ backend[b].fin
ensureDomain(b) ==
  LET s == Spec_(b)
      existing == {d \in identity.domains : d.name = Folded[s.domain.name]}
      create == existing = {} /\ s.domain.mode = "Manage"
      id == IF create THEN b
            ELSE IF s.domain.mode = "Adopt" /\ existing # {} THEN The(existing).by
            ELSE backend[b].id
      ready == create \/ \E d \in existing : d.by = id
      federates == IsFederationType(s) /\ ready
      ruleless == federates /\ s.mappings = {}
  IN /\ Starts(b) /\ world.admin
     /\ hand' = [hand EXCEPT ![b] = backend[b]] /\ woken' = woken \ {b}
     /\ identity' = IF create
                    THEN [identity EXCEPT !.domains =
                            @ \union {[name |-> Folded[s.domain.name], by |-> b]}]
                    ELSE identity
     /\ work' = [work EXCEPT ![b] =
                   [backend[b] EXCEPT !.id = id,
                                      !.ready = IF ready THEN "true" ELSE "false",
                                      !.fed = IF ruleless THEN "false" ELSE @,
                                      !.map = IF ruleless THEN "false" ELSE @]]
     /\ Goto(b, IF s.domain.mode = "Adopt" /\ existing = {} THEN "again"
                ELSE IF federates /\ ~ ruleless THEN "federation" ELSE "observe")
     /\ UNCHANGED <<backend, Outside>>
Unobserved(b) ==
  /\ Starts(b) /\ Goto(b, "again")
  /\ world.admin => spent.trouble < MaxTrouble
  /\ spent' = [spent EXCEPT !.trouble = IF world.admin THEN @ + 1 ELSE @]
  /\ hand' = [hand EXCEPT ![b] = backend[b]] /\ woken' = woken \ {b}
  /\ work' = [work EXCEPT ![b] = [backend[b] EXCEPT !.ready = Transient(@)]]
  /\ UNCHANGED <<request, backend, world, identity, secrets, stable, dep, status,
                 operator>>

\* The three objects in their order, as functions of what the service holds.
createIdentityProvider(i, b) ==
  IF \E p \in i.providers : p.id = IdP(work[b].spec, b) THEN i
  ELSE [i EXCEPT !.providers =
          @ \union {[id |-> IdP(work[b].spec, b), domain |-> work[b].id,
                    remote |-> FederationRemoteID(work[b].spec)]}]
ensureIdentityProvider(i, b) ==
  LET existing == {p \in i.providers : p.id = IdP(work[b].spec, b)}
      wanted == [id |-> IdP(work[b].spec, b), remote |-> FederationRemoteID(work[b].spec),
                 domain |-> IF existing = {} THEN work[b].id ELSE The(existing).domain]
  IN [i EXCEPT !.providers = (@ \ existing) \union {wanted}]

Grants(b) ==
  UNION {{[group |-> g.name, domain |-> work[b].id, role |-> ra.role] :
            ra \in g.roleAssignments} : g \in work[b].spec.groups}
Granted(b) == Grants(b) = {} \/ world.roles
ensureMappingAndGroups(i, b) ==
  LET s == work[b].spec
      id == federationMappingID(s, b)
  IN [i EXCEPT !.mappings = {m \in @ : m.id # id}
                            \union {[id |-> id, rules |-> s.mappings]},
               !.groups = @ \union {[name |-> g.name, domain |-> work[b].id] :
                                      g \in s.groups},
               !.grants = @ \union {g \in Grants(b) : world.roles}]

Possible(i, b) == \E p \in i.providers : p.id = IdP(work[b].spec, b)
ensureProtocol(i, b) ==
  LET s == work[b].spec
      wanted == [idp |-> IdP(s, b), id |-> EffectiveProtocolID(s),
                 mapping |-> federationMappingID(s, b)]
      others == {p \in i.protocols : p.idp # wanted.idp \/ p.id # wanted.id}
  IN IF Possible(i, b) THEN [i EXCEPT !.protocols = others \union {wanted}] ELSE i

\* Calls one to three succeed; a missing role ends the pass after the mapping.
ensureFederation(b) ==
  /\ pc[b] = "federation"
  /\ \E calls \in 0 .. 3 :
       LET one == IF calls > 0 THEN ensureIdentityProvider(identity, b) ELSE identity
           two == IF calls > 1 THEN ensureMappingAndGroups(one, b) ELSE one
           three == IF calls > 2 /\ Granted(b) THEN ensureProtocol(two, b) ELSE two
           complete == calls = 3 /\ Granted(b)
       IN /\ calls < 3 => spent.trouble < MaxTrouble
          /\ spent' = [spent EXCEPT !.trouble = IF calls < 3 THEN @ + 1 ELSE @]
          /\ identity' = three
          /\ work' = [work EXCEPT
               ![b].map = IF calls = 1 THEN Transient(@)
                          ELSE IF calls > 1
                          THEN IF Granted(b) THEN "true" ELSE "false" ELSE @,
               ![b].fed = IF complete THEN "true"
                          ELSE IF calls \in {0, 2} /\ Granted(b) THEN Transient(@) ELSE @]
          /\ Goto(b, IF complete THEN "observe" ELSE "again")
  /\ UNCHANGED <<request, backend, world, secrets, stable, dep, status, operator,
                 hand, woken>>

\* The status is written only when it changed and the object did not.
WriteStatus(b, result, again) ==
  LET conflict == result # hand[b] /\ backend[b] # hand[b]
      written == result # hand[b] /\ ~ conflict
  IN /\ backend' = IF written THEN [backend EXCEPT ![b] = result] ELSE backend
     /\ woken' = woken \union (IF again \/ conflict THEN {b} ELSE {})
                       \union (IF written THEN {"keystone"} ELSE {})
     /\ EndPass(b)
     /\ UNCHANGED <<identity, Outside>>
observeConfigProjected(b) ==
  /\ pc[b] = "observe"
  /\ WriteStatus(b, [work[b] EXCEPT !.projected = isConfigProjected(b)],
                 ~ isConfigProjected(b))
StopEarly(b) == pc[b] = "again" /\ WriteStatus(b, work[b], TRUE)

\* Teardown, once the projection is gone: the objects go by the names the spec
\* has now, in the reverse order, then the domain if the policy says so.
teardownFederationObjects(i, b, calls) ==
  LET s == hand[b].spec
      unbound == {p \in i.protocols : p.idp # IdP(s, b) \/ p.id # EffectiveProtocolID(s)}
  IN [i EXCEPT !.protocols = CASE calls = 0 -> @ [] calls \in {1, 2} -> unbound
                               [] calls = 3 -> {p \in unbound : p.idp # IdP(s, b)},
               !.mappings = IF calls < 2 THEN @
                            ELSE {m \in @ : m.id # federationMappingID(s, b)},
               !.providers = IF calls < 3 THEN @ ELSE {p \in @ : p.id # IdP(s, b)}]
applyDomainDeletionPolicy(i, b) ==
  LET d == hand[b].spec.domain
      gone == IF d.mode = "Manage" /\ d.deletionPolicy = "Delete"
                 /\ hand[b].id # Unset /\ world.admin
              THEN {hand[b].id} ELSE {}
  IN [i EXCEPT !.domains = {x \in @ : x.by \notin gone},
               !.groups = {x \in @ : x.domain \notin gone},
               !.grants = {x \in @ : x.domain \notin gone},
               !.providers = {x \in @ : x.domain \notin gone}]

\* The release is an Update: it fails on a conflict, and the webhook judges it.
removeFinalizer(b) == backend[b] = hand[b] /\ Valid(b, Spec_(b))

reconcileDelete(b) ==
  /\ b \in woken /\ pc[b] = "idle" /\ backend[b].st = "deleting"
  /\ ~ isConfigProjected(b)
  /\ hand' = [hand EXCEPT ![b] = backend[b]] /\ woken' = woken \ {b}
  /\ Goto(b, "teardown")
  /\ UNCHANGED <<backend, identity, work, Outside>>
Teardown(b) ==
  /\ pc[b] = "teardown" /\ EndPass(b)
  /\ \E calls \in 0 .. 3 :
       LET federation == IF world.admin /\ IsFederationType(hand[b].spec)
                         THEN teardownFederationObjects(identity, b, calls)
                         ELSE identity
           released == calls = 3 /\ removeFinalizer(b)
       IN /\ calls < 3 => spent.trouble < MaxTrouble
          /\ spent' = [spent EXCEPT !.trouble = IF calls < 3 THEN @ + 1 ELSE @]
          /\ identity' = IF calls = 3 THEN applyDomainDeletionPolicy(federation, b)
                         ELSE federation
          /\ backend' = IF released THEN [backend EXCEPT ![b] = Gone(b)] ELSE backend
          /\ woken' = woken \union {IF released THEN "keystone" ELSE b}
  /\ UNCHANGED <<request, world, secrets, stable, dep, status, operator>>

-----------------------------------------------------------------------------

BackendPass(b) ==
  \/ InstallFinalizer(b) \/ ensureDomain(b) \/ Unobserved(b) \/ ensureFederation(b)
  \/ observeConfigProjected(b) \/ StopEarly(b) \/ reconcileDelete(b) \/ Teardown(b)
Next ==
  \/ \E b \in Backends : \/ ValidateCreate(b) \/ ValidateUpdate(b) \/ DeleteBackend(b)
                         \/ BackendPass(b)
  \/ Persist \/ ChangeWorld \/ Mend \/ Crash \/ KeystonePass

\* Queues are served and an admitted write is stored or refused.
Fairness == /\ WF_vars(Persist) /\ WF_vars(KeystonePass)
            /\ \A b \in Backends : WF_vars(BackendPass(b))
Spec == Init /\ [][Next]_vars /\ Fairness

-----------------------------------------------------------------------------
(* Properties.                                                              *)

Verdicts == {"unknown", "true", "false"}
TypeOKBackend(r) ==
  /\ r.st \in {"none", "live", "deleting", "gone"} /\ r.gen \in Nat
  /\ r.fin \in BOOLEAN /\ r.id \in Backends \union {Unset, "admin"}
  /\ {r.ready, r.fed, r.map} \subseteq Verdicts /\ r.projected \in BOOLEAN
\* Every stored backend was admitted and has its type's block, and a pass holds
\* a backend of its own.
FedTypeOK ==
  /\ \A b \in Backends :
       /\ TypeOKBackend(backend[b]) /\ TypeOKBackend(work[b])
       /\ backend[b].st = "live" => ValidUnion(Spec_(b))
       /\ backend[b].projected => backend[b].fin
       /\ backend[b].st = "deleting" => backend[b].fin
       /\ Cardinality(documents[b]) <= 1
  /\ Cardinality(dep.fed) <= 1 /\ Cardinality(memo) <= 1
  /\ woken \subseteq Backends \union {"keystone"}
  /\ status \subseteq Backends

\* Whatever order racing admissions were stored in, what is mounted is never
\* ambiguous: no two metadata files of one name, one SAML provider, one file
\* per domain; and keystone.conf names the attributes and methods of exactly
\* the projection mounted beside it, though it may come from the render cache.
ProjectionSound ==
  /\ \A f \in dep.fed :
       /\ \A i, j \in f.items : i[2] = j[2] => i = j
       /\ \A i, j \in f.mellon : i[2] = "idp-metadata.xml" /\ j[2] = i[2] => i = j
       /\ {i[1] : i \in f.items} \union f.mellon \subseteq DOMAIN f.data
  /\ \A c, d \in dep.domains : Folded[c.domain] = Folded[d.domain] => c = d
  /\ dep.config = [drivers |-> dep.domains # {}, methods |-> dep.fed # {},
                   openid |-> IF dep.fed = {} THEN Unset ELSE The(dep.fed).attribute,
                   saml |-> IF dep.fed = {} THEN Unset ELSE The(dep.fed).protocol,
                   samlAttribute |-> IF dep.fed = {} THEN Unset
                                     ELSE The(dep.fed).samlAttribute]

\* One broken backend is dropped alone: a Keystone pass withdraws the config of
\* a backend only when that backend left, lost its domain, lacks its own Secret
\* or metadata or the proxy image, has metadata that names someone else or whose
\* introspection is no https, renders too large, or a sibling claims the same.
Contested(b) ==
  \E c \in Attached \ {b} :
    \/ Folded[Spec_(c).domain.name] = Folded[Spec_(b).domain.name]
    \/ Spec_(b).saml # {} /\ Spec_(c).saml # {}
    \/ /\ Spec_(b).oidc # {} /\ Spec_(c).oidc # {}
       /\ Basename[Block(Spec_(b)).issuer] = Basename[Block(Spec_(c)).issuer]
Misnamed(s) == ~ Fetched(s) /\ Document(s).issuer # FederationRemoteID(s)
Plaintext(b) == \E d \in Remembered(b) : Introspects(Spec_(b), d)
                                         /\ d.introspection # "https"
OwnReason(b) ==
  \/ backend[b].st # "live" \/ backend[b].ready # "true" \/ Contested(b)
  \/ b \in world.missing \union world.large
  \/ /\ IsFederationType(Spec_(b))
     /\ ~ world.image \/ ~ world.up \/ Misnamed(Spec_(b)) \/ Plaintext(b)
FaultIsolated ==
  [][\A b \in Attached :
       isConfigProjected(b) /\ backend' = backend /\ ~ isConfigProjected(b)'
       => OwnReason(b)]_vars

\* A backend whose inputs are there and whose names nobody else uses is
\* projected in the end, with an identity provider, mapping and protocol as its
\* spec has them; one that is deleted, and not replaced meanwhile, goes.  Both
\* wait while a keypair or passphrase Secret fails the whole pass, as the code
\* has it, and go on once it is mended.
Sound(b) ==
  /\ backend[b].st = "live" /\ backend[b].id = b /\ ~ Contested(b)
  /\ validateSiblingBackends(b, Spec_(b))
  /\ \A c \in Backends \ {b} :
       backend[c].st # "none" /\ IsFederationType(Spec_(b)) /\ IsFederationType(Spec_(c))
       => IdP(Spec_(c), c) # IdP(Spec_(b), b)
  /\ b \notin world.missing \union world.large
  /\ world.image /\ world.admin /\ world.roles /\ world.up
Settled(b) == Sound(b) /\ ~ PassFails
Provisioned(b) ==
  LET s == Spec_(b)
  IN IsFederationType(s) /\ s.mappings # {} =>
       /\ [id |-> IdP(s, b), domain |-> b, remote |-> FederationRemoteID(s)]
            \in identity.providers
       /\ [id |-> federationMappingID(s, b), rules |-> s.mappings] \in identity.mappings
       /\ [idp |-> IdP(s, b), id |-> EffectiveProtocolID(s),
           mapping |-> federationMappingID(s, b)] \in identity.protocols
Serves(b) == isConfigProjected(b) /\ backend[b].projected /\ Provisioned(b)
FederationSettles ==
  \A b \in Backends :
    /\ <>[](Settled(b) /\ spent.outages = 0) => <>[]Serves(b)
    /\ <>[](backend[b].st = "deleting") =>
         []<>(PassFails \/ ~ validateSiblingBackends(b, Spec_(b)))

\* reconcile_identitybackends.go:366 says the aggregate Secret's size is the one
\* place where a single backend is not fault-isolated: whose own inputs are in
\* order is served, whatever is wrong with a sibling's.
SiblingsServe ==
  \A b \in Backends :
    <>[](Sound(b) /\ spent.outages = 0 /\ world.malformed \subseteq Backends \ {b})
      => <>[]Serves(b)

\* reconcile_identitybackends.go says every wait is woken by a watch: a backend
\* that waited for its provider metadata is projected after the endpoint is back.
OutageEnds == \A b \in Backends : <>[]Settled(b) => <>[]Serves(b)

\* keystoneidentitybackend_webhook.go:783 skips a terminating sibling because
\* blocking a replacement on it would deadlock: the first backend goes in the
\* end, replaced or not.
ReplacedGoes == \A b \in Backends : backend[b].st = "deleting" ~> backend[b].st = "gone"
=============================================================================
