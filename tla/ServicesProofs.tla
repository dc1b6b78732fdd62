---------------------------- MODULE ServicesProofs ----------------------------
(***************************************************************************)
(* What admission promises of a service CR, for every spec that a user may *)
(* write: the objects built from an admitted spec are ones that the API    *)
(* server takes and the kubelet can run, and a stored spec is admitted     *)
(* again unchanged.                                                        *)
(***************************************************************************)
EXTENDS Services, TLAPS

Kinds == {"Keystone", "Horizon", "Glance"}

LEMMA KindsHaveFields == DOMAIN SpecFields = Kinds
BY DEF SpecFields, Kinds

-----------------------------------------------------------------------------
(***************************************************************************)
(* Defaulting, block by block: what it makes of a block is a block of the  *)
(* type, and defaulting that again changes nothing.                        *)
(***************************************************************************)
LEMMA OrSettles ==
  ASSUME NEW o, NEW v
  PROVE  {Or({Or(o, v)}, v)} = {Or(o, v)}
BY DEF Or, Has

LEMMA WhenSettles ==
  ASSUME NEW x, NEW zero, NEW v
  PROVE  When(When(x, zero, v), zero, v) = When(x, zero, v)
BY DEF When

LEMMA DeploymentDefaults ==
  ASSUME NEW d, DeploymentSpec(d)
  PROVE  /\ DeploymentSpec(DeploymentDefault(d))
         /\ DeploymentDefault(DeploymentDefault(d)) = DeploymentDefault(d)
<1>. DEFINE F == {"replicas", "resources", "grace", "preStop", "strategy",
                  "spread", "priority"}
            r == DeploymentDefault(d)
            s == DeploymentDefault(r)
<1>1. DOMAIN d = F /\ d = [f \in F |-> d[f]]
  BY DEF DeploymentSpec, RecordOf
<1>2. /\ RecordOf(r, F)
      /\ r.replicas = When(d.replicas, 0, DefaultReplicas)
      /\ r.resources = IF \A x \in d.resources : DOMAIN x.requests = {} /\ DOMAIN x.limits = {}
                       THEN {DefaultResources} ELSE d.resources
      /\ \A f \in F \ {"replicas", "resources"} : r[f] = d[f]
  BY <1>1 DEF DeploymentDefault, RecordOf
<1>3. /\ r.replicas \in Int
      /\ r.grace = d.grace /\ r.preStop = d.preStop
  BY <1>2 DEF DeploymentSpec, When, DefaultReplicas
<1>4. DeploymentSpec(r)
  BY <1>2, <1>3 DEF DeploymentSpec
<1>5. /\ RecordOf(s, F)
      /\ s.replicas = When(r.replicas, 0, DefaultReplicas)
      /\ s.resources = IF \A x \in r.resources : DOMAIN x.requests = {} /\ DOMAIN x.limits = {}
                       THEN {DefaultResources} ELSE r.resources
      /\ \A f \in F \ {"replicas", "resources"} : s[f] = r[f]
  BY <1>2 DEF DeploymentDefault, RecordOf
<1>6. s.replicas = r.replicas
  BY <1>2, <1>5, WhenSettles
<1>7. s.resources = r.resources
  <2>1. CASE \A x \in d.resources : DOMAIN x.requests = {} /\ DOMAIN x.limits = {}
    <3>1. r.resources = {DefaultResources}
      BY <1>2, <2>1
    <3>. QED
      BY <1>5, <3>1
  <2>2. CASE ~ \A x \in d.resources : DOMAIN x.requests = {} /\ DOMAIN x.limits = {}
    BY <1>2, <1>5, <2>2
  <2>. QED
    BY <2>1, <2>2
<1>8. \A f \in F : s[f] = r[f]
  BY <1>5, <1>6, <1>7
<1>9. s = r
  BY <1>2, <1>5, <1>8 DEF RecordOf
<1>. QED
  BY <1>4, <1>9
LEMMA LoggingDefaults ==
  ASSUME NEW l, LoggingSpec(l)
  PROVE  /\ LoggingSpec(LoggingDefault(l))
         /\ LoggingDefault(LoggingDefault(l)) = LoggingDefault(l)
<1>. DEFINE F == {"format", "level", "debug", "loggers"}
            r == LoggingDefault(l)
            s == LoggingDefault(r)
<1>1. DOMAIN l = F /\ l = [f \in F |-> l[f]]
  BY DEF LoggingSpec, RecordOf
<1>2. /\ RecordOf(r, F) /\ r.loggers = l.loggers
      /\ r.format = When(l.format, "", "text") /\ r.level = When(l.level, "", "INFO")
      /\ r.debug = {Or(l.debug, FALSE)}
  BY <1>1 DEF LoggingDefault, RecordOf
<1>3. /\ RecordOf(s, F) /\ s.loggers = r.loggers
      /\ s.format = When(r.format, "", "text") /\ s.level = When(r.level, "", "INFO")
      /\ s.debug = {Or(r.debug, FALSE)}
  BY <1>2 DEF LoggingDefault, RecordOf
<1>4. s.format = r.format /\ s.level = r.level
  BY <1>2, <1>3 DEF When
<1>5. s.debug = r.debug
  BY <1>2, <1>3, OrSettles
<1>6. \A f \in F : s[f] = r[f]
  BY <1>3, <1>4, <1>5
<1>7. s = r
  BY <1>2, <1>3, <1>6 DEF RecordOf
<1>. QED
  BY <1>2, <1>7 DEF LoggingSpec

LEMMA NoLoggingIsLogging == LoggingSpec(NoLogging)
BY DEF LoggingSpec, NoLogging, RecordOf

LEMMA UWSGIDefaults ==
  ASSUME NEW u, UWSGISpec(u)
  PROVE  /\ UWSGISpec(UWSGIDefault(u))
         /\ UWSGIDefault(UWSGIDefault(u)) = UWSGIDefault(u)
<1>. DEFINE F == {"processes", "threads", "harakiri", "timeout", "keepAlive"}
            r == UWSGIDefault(u)
            s == UWSGIDefault(r)
<1>1. DOMAIN u = F /\ u = [f \in F |-> u[f]]
  BY DEF UWSGISpec, RecordOf
<1>2. /\ RecordOf(r, F) /\ r.harakiri = u.harakiri /\ r.timeout = u.timeout
      /\ r.processes = When(u.processes, 0, 2) /\ r.threads = When(u.threads, 0, 1)
      /\ r.keepAlive = {Or(u.keepAlive, TRUE)}
  BY <1>1 DEF UWSGIDefault, RecordOf
<1>3. UWSGISpec(r)
  <2>1. r.processes \in Int /\ r.threads \in Int
    BY <1>2 DEF UWSGISpec, When
  <2>. QED
    BY <1>2, <2>1 DEF UWSGISpec
<1>4. /\ RecordOf(s, F) /\ s.harakiri = r.harakiri /\ s.timeout = r.timeout
      /\ s.processes = When(r.processes, 0, 2) /\ s.threads = When(r.threads, 0, 1)
      /\ s.keepAlive = {Or(r.keepAlive, TRUE)}
  BY <1>2 DEF UWSGIDefault, RecordOf
<1>5. s.processes = r.processes /\ s.threads = r.threads
  BY <1>2, <1>4, WhenSettles
<1>6. s.keepAlive = r.keepAlive
  BY <1>2, <1>4, OrSettles
<1>7. \A f \in F : s[f] = r[f]
  BY <1>4, <1>5, <1>6
<1>8. s = r
  BY <1>2, <1>4, <1>7 DEF RecordOf
<1>. QED
  BY <1>3, <1>8

\* A rotation that is switched off is left as it is.
RotationDefault(p) ==
  [p EXCEPT !.schedule = IF p.enabled THEN When(@, "", "cron") ELSE @,
            !.length = IF p.enabled THEN When(@, 0, 32) ELSE @]

LEMMA RotationDefaults ==
  ASSUME NEW p, PasswordRotationSpec(p)
  PROVE  /\ PasswordRotationSpec(RotationDefault(p))
         /\ RotationDefault(RotationDefault(p)) = RotationDefault(p)
<1>. DEFINE F == {"enabled", "schedule", "length"}
            r == RotationDefault(p)
            s == RotationDefault(r)
<1>1. DOMAIN p = F /\ p = [f \in F |-> p[f]]
  BY DEF PasswordRotationSpec, RecordOf
<1>2. /\ RecordOf(r, F) /\ r.enabled = p.enabled
      /\ r.schedule = IF p.enabled THEN When(p.schedule, "", "cron") ELSE p.schedule
      /\ r.length = IF p.enabled THEN When(p.length, 0, 32) ELSE p.length
  BY <1>1 DEF RotationDefault, RecordOf
<1>3. PasswordRotationSpec(r)
  <2>1. r.length \in Int
    <3>1. p.length \in Int
      BY DEF PasswordRotationSpec
    <3>2. CASE p.enabled
      <4>1. r.length = When(p.length, 0, 32)
        BY <1>2, <3>2
      <4>. HIDE DEF r
      <4>. QED
        BY <3>1, <4>1 DEF When
    <3>3. CASE ~ p.enabled
      BY <1>2, <3>1, <3>3
    <3>. QED
      BY <3>2, <3>3
  <2>. QED
    BY <1>2, <2>1 DEF PasswordRotationSpec
<1>4. /\ RecordOf(s, F) /\ s.enabled = r.enabled
      /\ s.schedule = IF r.enabled THEN When(r.schedule, "", "cron") ELSE r.schedule
      /\ s.length = IF r.enabled THEN When(r.length, 0, 32) ELSE r.length
  BY <1>2 DEF RotationDefault, RecordOf
<1>5. s.schedule = r.schedule /\ s.length = r.length
  BY <1>2, <1>4 DEF When
<1>6. \A f \in F : s[f] = r[f]
  BY <1>4, <1>5
<1>7. s = r
  BY <1>2, <1>4, <1>6 DEF RecordOf
<1>. QED
  BY <1>3, <1>7

TLSDefault(t) == [t EXCEPT !.mode = When(@, "", "require")]
LEMMA TLSDefaults ==
  ASSUME NEW t, DatabaseTLSSpec(t)
  PROVE  /\ DatabaseTLSSpec(TLSDefault(t))
         /\ TLSDefault(TLSDefault(t)) = TLSDefault(t)
<1>. DEFINE F == {"mode", "caBundle", "clientCert"}
            r == TLSDefault(t)
            s == TLSDefault(r)
<1>1. DOMAIN t = F /\ t = [f \in F |-> t[f]]
  BY DEF DatabaseTLSSpec, RecordOf
<1>2. /\ RecordOf(r, F) /\ r.mode = When(t.mode, "", "require")
      /\ r.caBundle = t.caBundle /\ r.clientCert = t.clientCert
  BY <1>1 DEF TLSDefault, RecordOf
<1>3. /\ RecordOf(s, F) /\ s.mode = When(r.mode, "", "require")
      /\ s.caBundle = r.caBundle /\ s.clientCert = r.clientCert
  BY <1>2 DEF TLSDefault, RecordOf
<1>4. s.mode = r.mode
  BY <1>2, <1>3 DEF When
<1>5. \A f \in F : s[f] = r[f]
  BY <1>3, <1>4
<1>6. s = r
  BY <1>2, <1>3, <1>5 DEF RecordOf
<1>. QED
  BY <1>2, <1>6 DEF DatabaseTLSSpec

KeysDefault(keys) == [keys EXCEPT !.max = When(@, 0, 3)]
LEMMA KeysDefaults ==
  ASSUME NEW keys, KeysSpec(keys)
  PROVE  /\ KeysSpec(KeysDefault(keys))
         /\ KeysDefault(KeysDefault(keys)) = KeysDefault(keys)
<1>. DEFINE F == {"max", "schedule"}
            r == KeysDefault(keys)
            s == KeysDefault(r)
<1>1. DOMAIN keys = F /\ keys = [f \in F |-> keys[f]] /\ keys.max \in Int
  BY DEF KeysSpec, RecordOf
<1>2. RecordOf(r, F) /\ r.max = When(keys.max, 0, 3)
  BY <1>1 DEF KeysDefault, RecordOf
<1>3. RecordOf(s, F) /\ s.max = When(r.max, 0, 3) /\ s.schedule = r.schedule
  BY <1>2 DEF KeysDefault, RecordOf
<1>4. s.max = r.max
  BY <1>2, <1>3, WhenSettles
<1>5. \A f \in F : s[f] = r[f]
  BY <1>3, <1>4
<1>6. s = r
  BY <1>2, <1>3, <1>5 DEF RecordOf
<1>7. r.max \in Int
  BY <1>1, <1>2 DEF When
<1>. QED
  BY <1>2, <1>6, <1>7 DEF KeysSpec

BootstrapDefault(b) ==
  [b EXCEPT !.adminUser = When(@, "", "admin"), !.region = When(@, "", "RegionOne")]
LEMMA BootstrapDefaults ==
  ASSUME NEW b, BootstrapSpec(b)
  PROVE  /\ BootstrapSpec(BootstrapDefault(b))
         /\ BootstrapDefault(BootstrapDefault(b)) = BootstrapDefault(b)
<1>. DEFINE F == {"adminUser", "region", "adminSecret", "publicEndpoint"}
            r == BootstrapDefault(b)
            s == BootstrapDefault(r)
<1>1. DOMAIN b = F /\ b = [f \in F |-> b[f]]
  BY DEF BootstrapSpec, RecordOf
<1>2. /\ RecordOf(r, F)
      /\ r.adminUser = When(b.adminUser, "", "admin")
      /\ r.region = When(b.region, "", "RegionOne")
  BY <1>1 DEF BootstrapDefault, RecordOf
<1>3. /\ RecordOf(s, F)
      /\ s.adminUser = When(r.adminUser, "", "admin")
      /\ s.region = When(r.region, "", "RegionOne")
      /\ s.adminSecret = r.adminSecret /\ s.publicEndpoint = r.publicEndpoint
  BY <1>2 DEF BootstrapDefault, RecordOf
<1>4. s.adminUser = r.adminUser /\ s.region = r.region
  BY <1>2, <1>3 DEF When
<1>5. \A f \in F : s[f] = r[f]
  BY <1>3, <1>4
<1>6. s = r
  BY <1>2, <1>3, <1>5 DEF RecordOf
<1>. QED
  BY <1>2, <1>6 DEF BootstrapSpec

DatabaseDefault(db) == [db EXCEPT !.mode = When(@, "", "Static")]
LEMMA DatabaseDefaults ==
  ASSUME NEW db, DatabaseSpec(db)
  PROVE  /\ DatabaseSpec(DatabaseDefault(db))
         /\ DatabaseDefault(DatabaseDefault(db)) = DatabaseDefault(db)
<1>. DEFINE F == {"clusterRef", "host", "mode", "database", "secretRef"}
            r == DatabaseDefault(db)
            s == DatabaseDefault(r)
<1>1. DOMAIN db = F /\ db = [f \in F |-> db[f]]
  BY DEF DatabaseSpec, RecordOf
<1>2. RecordOf(r, F) /\ r.mode = When(db.mode, "", "Static")
  BY <1>1 DEF DatabaseDefault, RecordOf
<1>3. /\ RecordOf(s, F) /\ s.mode = When(r.mode, "", "Static")
      /\ s.clusterRef = r.clusterRef /\ s.host = r.host /\ s.database = r.database
      /\ s.secretRef = r.secretRef
  BY <1>2 DEF DatabaseDefault, RecordOf
<1>4. s.mode = r.mode
  BY <1>2, <1>3 DEF When
<1>5. \A f \in F : s[f] = r[f]
  BY <1>3, <1>4
<1>6. s = r
  BY <1>2, <1>3, <1>5 DEF RecordOf
<1>. QED
  BY <1>2, <1>6 DEF DatabaseSpec

MultiDomainDefaults(m, r) ==
  /\ RecordOf(r, {"enabled", "dropdown", "choices", "default"})
  /\ r.enabled = m.enabled /\ r.dropdown = m.dropdown /\ r.choices = m.choices
  /\ r.default = IF m.enabled THEN {Or(m.default, "Default")} ELSE m.default

LEMMA MultiDomainSettles ==
  ASSUME NEW m, MultiDomainSpec(m)
  PROVE  /\ MultiDomainSpec(defaultMultiDomain(m))
         /\ defaultMultiDomain(defaultMultiDomain(m)) = defaultMultiDomain(m)
<1>. DEFINE r == defaultMultiDomain(m)
            s == defaultMultiDomain(r)
<1>1. \A x : MultiDomainSpec(x) => MultiDomainDefaults(x, defaultMultiDomain(x))
  BY DEF MultiDomainSpec, MultiDomainDefaults, defaultMultiDomain, RecordOf
<1>2. MultiDomainDefaults(m, r)
  BY <1>1
<1>3. MultiDomainSpec(r)
  BY <1>2 DEF MultiDomainDefaults, MultiDomainSpec
<1>4. MultiDomainDefaults(r, s)
  BY <1>1, <1>3
<1>5. s.default = r.default
  BY <1>2, <1>4, OrSettles DEF MultiDomainDefaults
<1>6. \A f \in {"enabled", "dropdown", "choices", "default"} : s[f] = r[f]
  BY <1>4, <1>5 DEF MultiDomainDefaults
<1>7. s = r
  BY <1>2, <1>4, <1>6 DEF MultiDomainDefaults, RecordOf
<1>. QED
  BY <1>3, <1>7
WebSSODefaulted(w, r) ==
  /\ RecordOf(r, {"enabled", "choices", "initial", "mapped", "keystoneURL"})
  /\ r.enabled = w.enabled /\ r.mapped = w.mapped /\ r.keystoneURL = w.keystoneURL
  /\ r.choices = IF HasLocal(w) THEN w.choices ELSE <<Local>> \o w.choices
  /\ r.initial = {Or(w.initial, Local)}

LEMMA SequenceOfItsOwn ==
  ASSUME NEW s, NEW T, s \in Seq(T)
  PROVE  IsSequence(s)
<1>. DEFINE R == {s[i] : i \in DOMAIN s}
<1>1. Len(s) \in Nat /\ DOMAIN s = 1 .. Len(s) /\ s = [i \in 1 .. Len(s) |-> s[i]]
  OBVIOUS
<1>2. \A i \in 1 .. Len(s) : s[i] \in R
  BY <1>1
<1>. HIDE DEF R
<1>3. s \in [1 .. Len(s) -> R]
  BY <1>1, <1>2
<1>4. s \in Seq(R)
  BY <1>1, <1>3
<1>. QED
  BY <1>4 DEF IsSequence, R

LEMMA Prepended ==
  ASSUME NEW s, IsSequence(s), NEW x
  PROVE  /\ IsSequence(<<x>> \o s) /\ <<x>> \o s # <<>>
         /\ \E n \in DOMAIN (<<x>> \o s) : (<<x>> \o s)[n] = x
<1>. DEFINE R == {s[i] : i \in DOMAIN s} \union {x}
            r == <<x>> \o s
<1>1. s \in Seq(R)
  BY DEF IsSequence
<1>2. x \in R
  OBVIOUS
<1>. HIDE DEF R
<1>3. <<x>> \in Seq(R)
  BY <1>2
<1>4. r \in Seq(R) /\ Len(r) = 1 + Len(s)
  BY <1>1, <1>3
<1>5. IsSequence(r)
  BY <1>4, SequenceOfItsOwn
<1>6. 1 \in DOMAIN r /\ r[1] = x
  BY <1>1, <1>3
<1>. QED
  BY <1>5, <1>6

\* The local choice is added once: a login page that has it is left as it is.
LEMMA WebSSOSettles ==
  ASSUME NEW w, WebSSOSpec(w)
  PROVE  /\ WebSSOSpec(defaultWebSSO(w))
         /\ defaultWebSSO(defaultWebSSO(w)) = defaultWebSSO(w)
<1>. DEFINE r == defaultWebSSO(w)
            s == defaultWebSSO(r)
<1>1. CASE ~ WebSSODefaults(w)
  BY <1>1 DEF defaultWebSSO
<1>2. CASE WebSSODefaults(w)
  <2>1. \A x : WebSSOSpec(x) /\ WebSSODefaults(x) => WebSSODefaulted(x, defaultWebSSO(x))
    BY DEF WebSSOSpec, WebSSODefaulted, defaultWebSSO, RecordOf
  <2>2. WebSSODefaulted(w, r)
    BY <1>2, <2>1
  <2>3. IsSequence(w.choices) /\ w.choices # <<>> /\ w.enabled
    BY <1>2 DEF WebSSOSpec, WebSSODefaults
  <2>. HIDE DEF r, s
  <2>4. /\ IsSequence(r.choices) /\ r.choices # <<>>
        /\ \E n \in DOMAIN r.choices : r.choices[n] = Local
    <3>1. CASE HasLocal(w)
      BY <2>2, <2>3, <3>1 DEF WebSSODefaulted, HasLocal
    <3>2. CASE ~ HasLocal(w)
      <4>1. r.choices = <<Local>> \o w.choices
        BY <2>2, <3>2 DEF WebSSODefaulted
      <4>2. /\ IsSequence(<<Local>> \o w.choices) /\ <<Local>> \o w.choices # <<>>
            /\ \E n \in DOMAIN (<<Local>> \o w.choices) : (<<Local>> \o w.choices)[n] = Local
        BY <2>3, Prepended
      <4>. QED
        BY <4>1, <4>2
    <3>. QED
      BY <3>1, <3>2
  <2>5. WebSSOSpec(r)
    BY <2>2, <2>4 DEF WebSSODefaulted, WebSSOSpec
  <2>6. WebSSODefaults(r) /\ HasLocal(r)
    BY <2>2, <2>3, <2>4 DEF WebSSODefaulted, WebSSODefaults, HasLocal
  <2>7. WebSSODefaulted(r, s)
    BY <2>1, <2>5, <2>6 DEF s
  <2>8. s.choices = r.choices
    BY <2>6, <2>7 DEF WebSSODefaulted
  <2>9. s.initial = r.initial
    BY <2>2, <2>7, OrSettles DEF WebSSODefaulted
  <2>10. \A f \in {"enabled", "choices", "initial", "mapped", "keystoneURL"} : s[f] = r[f]
    BY <2>7, <2>8, <2>9 DEF WebSSODefaulted
  <2>11. s = r
    BY <2>2, <2>7, <2>10 DEF WebSSODefaulted, RecordOf
  <2>. QED
    BY <2>5, <2>11 DEF r, s
<1>. QED
  BY <1>1, <1>2
-----------------------------------------------------------------------------
(***************************************************************************)
(* Defaulting, kind by kind: XDefaulted(c, r) says field by field how r    *)
(* comes from c.                                                           *)
(***************************************************************************)
KeystoneDefaulted(k, r) ==
  /\ RecordOf(r, SpecFields.Keystone)
  /\ r.deployment = DeploymentDefault(k.deployment)
  /\ r.fernet = KeysDefault(k.fernet)
  /\ r.credentialKeys = KeysDefault(k.credentialKeys)
  /\ r.bootstrap = BootstrapDefault(k.bootstrap)
  /\ r.trustFlush = {Or(k.trustFlush, "cron")}
  /\ r.rotation = {RotationDefault(p) : p \in k.rotation}
  /\ r.uwsgi = {UWSGIDefault(u) : u \in k.uwsgi}
  /\ r.logging = {LoggingDefault(Or(k.logging, NoLogging))}
  /\ r.tls = {TLSDefault(t) : t \in k.tls}
  /\ r.database = DatabaseDefault(k.database)
  /\ \A f \in SpecFields.Keystone \ {"deployment", "fernet", "credentialKeys", "bootstrap",
          "trustFlush", "rotation", "uwsgi", "logging", "tls", "database"} : r[f] = k[f]

HorizonDefaulted(h, r) ==
  /\ RecordOf(r, SpecFields.Horizon)
  /\ r.deployment = DeploymentDefault(h.deployment)
  /\ r.logging = {LoggingDefault(Or(h.logging, NoLogging))}
  /\ r.websso = {defaultWebSSO(w) : w \in h.websso}
  /\ r.multiDomain = {defaultMultiDomain(m) : m \in h.multiDomain}
  /\ \A f \in SpecFields.Horizon \ {"deployment", "logging", "websso", "multiDomain"} :
       r[f] = h[f]

GlanceDefaulted(g, r) ==
  /\ RecordOf(r, SpecFields.Glance)
  /\ r.deployment = DeploymentDefault(g.deployment)
  /\ r.logging = {LoggingDefault(Or(g.logging, NoLogging))}
  /\ r.serviceUser = When(g.serviceUser, "", "glance")
  /\ r.uwsgi = {UWSGIDefault(u) : u \in g.uwsgi}
  /\ \A f \in SpecFields.Glance \ {"deployment", "logging", "serviceUser", "uwsgi"} :
       r[f] = g[f]

LEMMA HorizonDefaults ==
  ASSUME NEW h, RecordOf(h, SpecFields.Horizon)
  PROVE  HorizonDefaulted(h, HorizonDefault(h))
<1>. DEFINE F == SpecFields.Horizon
<1>1. {"deployment", "logging", "websso", "multiDomain"} \subseteq F
  BY DEF SpecFields, CommonFields
<1>2. DOMAIN h = F /\ h = [f \in F |-> h[f]]
  BY DEF RecordOf
<1>. HIDE DEF F
<1>. QED
  BY <1>1, <1>2 DEF HorizonDefault, HorizonDefaulted, RecordOf, F

LEMMA GlanceDefaults ==
  ASSUME NEW g, RecordOf(g, SpecFields.Glance)
  PROVE  GlanceDefaulted(g, GlanceDefault(g))
<1>. DEFINE F == SpecFields.Glance
<1>1. {"deployment", "logging", "serviceUser", "uwsgi"} \subseteq F
  BY DEF SpecFields, CommonFields
<1>2. DOMAIN g = F /\ g = [f \in F |-> g[f]]
  BY DEF RecordOf
<1>. QED
  BY <1>1, <1>2 DEF GlanceDefault, GlanceDefaulted, RecordOf, GlanceUWSGIDefault

LEMMA KeystoneDefaults ==
  ASSUME NEW k, RecordOf(k, SpecFields.Keystone)
  PROVE  KeystoneDefaulted(k, KeystoneDefault(k))
<1>. DEFINE F == SpecFields.Keystone
            C == {"deployment", "fernet", "credentialKeys", "bootstrap", "trustFlush",
                  "rotation", "uwsgi", "logging", "tls", "database"}
            r == KeystoneDefault(k)
<1>1. C \subseteq F
  BY DEF SpecFields, CommonFields
<1>2. DOMAIN k = F /\ k = [f \in F |-> k[f]]
  BY DEF RecordOf
<1>. HIDE DEF F
<1>3. DOMAIN r = F /\ r = [f \in F |-> r[f]]
  <2>1. DOMAIN r = DOMAIN k
    BY DEF KeystoneDefault
  <2>2. r = [f \in DOMAIN k |-> r[f]]
    <3>. DEFINE rotation == {RotationDefault(p) : p \in k.rotation}
                uwsgi == {UWSGIDefault(u) : u \in k.uwsgi}
                tls == {TLSDefault(t) : t \in k.tls}
                logging == {LoggingDefault(Or(k.logging, NoLogging))}
                trustFlush == {Or(k.trustFlush, "cron")}
    <3>1. r = [k EXCEPT
                !.deployment = DeploymentDefault(@),
                !.fernet.max = When(@, 0, 3), !.credentialKeys.max = When(@, 0, 3),
                !.bootstrap.adminUser = When(@, "", "admin"),
                !.bootstrap.region = When(@, "", "RegionOne"),
                !.trustFlush = trustFlush, !.rotation = rotation, !.uwsgi = uwsgi,
                !.logging = logging, !.tls = tls, !.database.mode = When(@, "", "Static")]
      BY DEF KeystoneDefault, RotationDefault, TLSDefault
    <3>. HIDE DEF rotation, uwsgi, tls, logging, trustFlush, r
    <3>. QED
      BY <3>1
  <2>. QED
    BY <1>2, <2>1, <2>2
<1>4. /\ r.deployment = DeploymentDefault(k.deployment)
      /\ r.trustFlush = {Or(k.trustFlush, "cron")}
      /\ r.logging = {LoggingDefault(Or(k.logging, NoLogging))}
  BY <1>1, <1>2 DEF KeystoneDefault
<1>5. /\ r.rotation = {RotationDefault(p) : p \in k.rotation}
      /\ r.uwsgi = {UWSGIDefault(u) : u \in k.uwsgi}
      /\ r.tls = {TLSDefault(t) : t \in k.tls}
  BY <1>1, <1>2 DEF KeystoneDefault, RotationDefault, TLSDefault
<1>6. /\ r.fernet = KeysDefault(k.fernet)
      /\ r.credentialKeys = KeysDefault(k.credentialKeys)
      /\ r.database = DatabaseDefault(k.database)
  BY <1>1, <1>2 DEF KeystoneDefault, KeysDefault, DatabaseDefault
<1>7. r.bootstrap = BootstrapDefault(k.bootstrap)
  BY <1>1, <1>2 DEF KeystoneDefault, BootstrapDefault
<1>8. \A f \in F \ C : r[f] = k[f]
  BY <1>1, <1>2 DEF KeystoneDefault
<1>. HIDE DEF r
<1>9. KeystoneDefaulted(k, r)
  BY <1>3, <1>4, <1>5, <1>6, <1>7, <1>8 DEF KeystoneDefaulted, RecordOf, F
<1>. QED
  BY <1>9 DEF r
\* What every kind's logging block comes to.
LEMMA LoggingBlock ==
  ASSUME NEW o, \A l \in o : LoggingSpec(l)
  PROVE  LET r == {LoggingDefault(Or(o, NoLogging))}
         IN  /\ \A l \in r : LoggingSpec(l)
             /\ {LoggingDefault(Or(r, NoLogging))} = r
<1>. DEFINE l == Or(o, NoLogging)
<1>1. LoggingSpec(l)
  BY NoLoggingIsLogging DEF Or, Has
<1>2. Or({LoggingDefault(l)}, NoLogging) = LoggingDefault(l)
  BY DEF Or, Has
<1>. HIDE DEF l
<1>3. LoggingSpec(LoggingDefault(l)) /\ LoggingDefault(LoggingDefault(l)) = LoggingDefault(l)
  BY <1>1, LoggingDefaults
<1>4. LET r == {LoggingDefault(l)}
      IN  /\ \A x \in r : LoggingSpec(x)
          /\ {LoggingDefault(Or(r, NoLogging))} = r
  BY <1>2, <1>3
<1>. QED
  BY <1>4 DEF l

LEMMA UWSGIBlock ==
  ASSUME NEW o, \A u \in o : UWSGISpec(u)
  PROVE  LET r == {UWSGIDefault(u) : u \in o}
         IN  (\A u \in r : UWSGISpec(u)) /\ {UWSGIDefault(u) : u \in r} = r
BY UWSGIDefaults

LEMMA KeystoneSettles ==
  ASSUME NEW k, ServiceSpec(k), k.kind = "Keystone"
  PROVE  /\ ServiceSpec(KeystoneDefault(k)) /\ KeystoneDefault(k).kind = "Keystone"
         /\ KeystoneDefault(KeystoneDefault(k)) = KeystoneDefault(k)
<1>. DEFINE F == SpecFields.Keystone
            r == KeystoneDefault(k)
            s == KeystoneDefault(r)
<1>1. RecordOf(k, F) /\ \A f \in F : BlockSpec(f, k[f])
  BY DEF ServiceSpec, RecordOf
<1>2. KeystoneDefaulted(k, r)
  BY <1>1, KeystoneDefaults
<1>3. KeystoneDefaulted(r, s)
  BY <1>2, KeystoneDefaults DEF KeystoneDefaulted
<1>. HIDE DEF r, s
<1>4. /\ "deployment" \in F /\ "fernet" \in F /\ "credentialKeys" \in F
      /\ "bootstrap" \in F /\ "trustFlush" \in F /\ "rotation" \in F /\ "uwsgi" \in F
      /\ "logging" \in F /\ "tls" \in F /\ "database" \in F /\ "autoscaling" \in F
      /\ "kind" \in F /\ "websso" \notin F /\ "multiDomain" \notin F
  BY DEF SpecFields, CommonFields
<1>. HIDE DEF F
<1>5. /\ DeploymentSpec(k.deployment) /\ KeysSpec(k.fernet) /\ KeysSpec(k.credentialKeys)
      /\ BootstrapSpec(k.bootstrap) /\ DatabaseSpec(k.database)
      /\ \A p \in k.rotation : PasswordRotationSpec(p)
      /\ \A u \in k.uwsgi : UWSGISpec(u)
      /\ \A l \in k.logging : LoggingSpec(l)
      /\ \A t \in k.tls : DatabaseTLSSpec(t)
      /\ \A a \in k.autoscaling : AutoscalingSpec(a)
  BY <1>1, <1>4 DEF BlockSpec
<1>6. /\ DeploymentSpec(r.deployment) /\ s.deployment = r.deployment
      /\ KeysSpec(r.fernet) /\ s.fernet = r.fernet
      /\ KeysSpec(r.credentialKeys) /\ s.credentialKeys = r.credentialKeys
      /\ BootstrapSpec(r.bootstrap) /\ s.bootstrap = r.bootstrap
      /\ DatabaseSpec(r.database) /\ s.database = r.database
  BY <1>2, <1>3, <1>5, DeploymentDefaults, KeysDefaults, BootstrapDefaults,
     DatabaseDefaults DEF KeystoneDefaulted
<1>7. /\ \A p \in r.rotation : PasswordRotationSpec(p)
      /\ s.rotation = r.rotation
  BY <1>2, <1>3, <1>5, RotationDefaults DEF KeystoneDefaulted
<1>8. /\ \A u \in r.uwsgi : UWSGISpec(u)
      /\ s.uwsgi = r.uwsgi
  BY <1>2, <1>3, <1>5, UWSGIBlock DEF KeystoneDefaulted
<1>9. /\ \A l \in r.logging : LoggingSpec(l)
      /\ s.logging = r.logging
  BY <1>2, <1>3, <1>5, LoggingBlock DEF KeystoneDefaulted
<1>10. /\ \A t \in r.tls : DatabaseTLSSpec(t)
       /\ s.tls = r.tls
  BY <1>2, <1>3, <1>5, TLSDefaults DEF KeystoneDefaulted
<1>11. s.trustFlush = r.trustFlush
  BY <1>2, <1>3, OrSettles DEF KeystoneDefaulted
<1>. DEFINE C == {"deployment", "fernet", "credentialKeys", "bootstrap", "trustFlush",
                  "rotation", "uwsgi", "logging", "tls", "database"}
<1>12. /\ RecordOf(r, F) /\ RecordOf(s, F)
       /\ r.kind = k.kind /\ r.autoscaling = k.autoscaling
       /\ \A f \in F : s[f] = r[f]
  <2>1. /\ RecordOf(r, F) /\ RecordOf(s, F)
        /\ \A f \in F \ C : r[f] = k[f]
        /\ \A f \in F \ C : s[f] = r[f]
    BY <1>2, <1>3 DEF KeystoneDefaulted, F
  <2>2. \A f \in C : s[f] = r[f]
    BY <1>6, <1>7, <1>8, <1>9, <1>10, <1>11
  <2>3. "kind" \in F \ C /\ "autoscaling" \in F \ C
    BY <1>4
  <2>. HIDE DEF C
  <2>. QED
    BY <2>1, <2>2, <2>3
<1>13. s = r
  BY <1>12 DEF RecordOf
<1>14. \A f \in F : BlockSpec(f, r[f])
  BY <1>4, <1>5, <1>6, <1>7, <1>8, <1>9, <1>10, <1>12 DEF BlockSpec
<1>15. DOMAIN r = F /\ r.kind \in DOMAIN SpecFields
  BY <1>12, KindsHaveFields DEF RecordOf, Kinds
<1>16. ServiceSpec(r)
  BY <1>12, <1>14, <1>15 DEF ServiceSpec, F
<1>. QED
  BY <1>12, <1>13, <1>16 DEF r, s
LEMMA HorizonSettles ==
  ASSUME NEW h, ServiceSpec(h), h.kind = "Horizon"
  PROVE  /\ ServiceSpec(HorizonDefault(h)) /\ HorizonDefault(h).kind = "Horizon"
         /\ HorizonDefault(HorizonDefault(h)) = HorizonDefault(h)
<1>. DEFINE F == SpecFields.Horizon
            C == {"deployment", "logging", "websso", "multiDomain"}
            r == HorizonDefault(h)
            s == HorizonDefault(r)
<1>1. RecordOf(h, F) /\ \A f \in F : BlockSpec(f, h[f])
  BY DEF ServiceSpec, RecordOf
<1>2. HorizonDefaulted(h, r)
  BY <1>1, HorizonDefaults
<1>3. HorizonDefaulted(r, s)
  BY <1>2, HorizonDefaults DEF HorizonDefaulted
<1>. HIDE DEF r, s
<1>4. /\ C \subseteq F /\ "kind" \in F /\ "autoscaling" \in F
      /\ F \intersect {"fernet", "credentialKeys", "bootstrap", "rotation", "uwsgi", "tls",
                       "database"} = {}
  BY DEF SpecFields, CommonFields
<1>. HIDE DEF F
<1>5. /\ DeploymentSpec(h.deployment)
      /\ \A l \in h.logging : LoggingSpec(l)
      /\ \A w \in h.websso : WebSSOSpec(w)
      /\ \A m \in h.multiDomain : MultiDomainSpec(m)
      /\ \A a \in h.autoscaling : AutoscalingSpec(a)
  BY <1>1, <1>4 DEF BlockSpec
<1>6. DeploymentSpec(r.deployment) /\ s.deployment = r.deployment
  BY <1>2, <1>3, <1>5, DeploymentDefaults DEF HorizonDefaulted
<1>7. (\A l \in r.logging : LoggingSpec(l)) /\ s.logging = r.logging
  BY <1>2, <1>3, <1>5, LoggingBlock DEF HorizonDefaulted
<1>8. (\A w \in r.websso : WebSSOSpec(w)) /\ s.websso = r.websso
  BY <1>2, <1>3, <1>5, WebSSOSettles DEF HorizonDefaulted
<1>9. (\A m \in r.multiDomain : MultiDomainSpec(m)) /\ s.multiDomain = r.multiDomain
  BY <1>2, <1>3, <1>5, MultiDomainSettles DEF HorizonDefaulted
<1>10. /\ RecordOf(r, F) /\ RecordOf(s, F)
       /\ r.kind = h.kind /\ r.autoscaling = h.autoscaling
       /\ \A f \in F : s[f] = r[f]
  <2>1. /\ RecordOf(r, F) /\ RecordOf(s, F)
        /\ \A f \in F \ C : r[f] = h[f]
        /\ \A f \in F \ C : s[f] = r[f]
    BY <1>2, <1>3 DEF HorizonDefaulted, F
  <2>2. \A f \in C : s[f] = r[f]
    BY <1>6, <1>7, <1>8, <1>9
  <2>3. "kind" \in F \ C /\ "autoscaling" \in F \ C
    BY <1>4
  <2>. HIDE DEF C
  <2>. QED
    BY <2>1, <2>2, <2>3
<1>11. s = r
  BY <1>10 DEF RecordOf
<1>12. \A f \in F : BlockSpec(f, r[f])
  BY <1>4, <1>5, <1>6, <1>7, <1>8, <1>9, <1>10 DEF BlockSpec
<1>13. DOMAIN r = F /\ r.kind \in DOMAIN SpecFields
  BY <1>10, KindsHaveFields DEF RecordOf, Kinds
<1>14. ServiceSpec(r)
  BY <1>10, <1>12, <1>13 DEF ServiceSpec, F
<1>. QED
  BY <1>10, <1>11, <1>14 DEF r, s

LEMMA GlanceSettles ==
  ASSUME NEW g, ServiceSpec(g), g.kind = "Glance"
  PROVE  /\ ServiceSpec(GlanceDefault(g)) /\ GlanceDefault(g).kind = "Glance"
         /\ GlanceDefault(GlanceDefault(g)) = GlanceDefault(g)
<1>. DEFINE F == SpecFields.Glance
            C == {"deployment", "logging", "serviceUser", "uwsgi"}
            r == GlanceDefault(g)
            s == GlanceDefault(r)
<1>1. RecordOf(g, F) /\ \A f \in F : BlockSpec(f, g[f])
  BY DEF ServiceSpec, RecordOf
<1>2. GlanceDefaulted(g, r)
  BY <1>1, GlanceDefaults
<1>3. GlanceDefaulted(r, s)
  BY <1>2, GlanceDefaults DEF GlanceDefaulted
<1>. HIDE DEF r, s
<1>4. /\ C \subseteq F /\ "kind" \in F /\ "autoscaling" \in F /\ "database" \in F
      /\ F \intersect {"fernet", "credentialKeys", "bootstrap", "rotation", "tls",
                       "websso", "multiDomain"} = {}
  BY DEF SpecFields, CommonFields
<1>. HIDE DEF F
<1>5. /\ DeploymentSpec(g.deployment) /\ DatabaseSpec(g.database)
      /\ \A l \in g.logging : LoggingSpec(l)
      /\ \A u \in g.uwsgi : UWSGISpec(u)
      /\ \A a \in g.autoscaling : AutoscalingSpec(a)
  BY <1>1, <1>4 DEF BlockSpec
<1>6. DeploymentSpec(r.deployment) /\ s.deployment = r.deployment
  BY <1>2, <1>3, <1>5, DeploymentDefaults DEF GlanceDefaulted
<1>7. (\A l \in r.logging : LoggingSpec(l)) /\ s.logging = r.logging
  BY <1>2, <1>3, <1>5, LoggingBlock DEF GlanceDefaulted
<1>8. (\A u \in r.uwsgi : UWSGISpec(u)) /\ s.uwsgi = r.uwsgi
  BY <1>2, <1>3, <1>5, UWSGIBlock DEF GlanceDefaulted
<1>9. s.serviceUser = r.serviceUser
  BY <1>2, <1>3 DEF GlanceDefaulted, When
<1>10. /\ RecordOf(r, F) /\ RecordOf(s, F) /\ r.kind = g.kind
       /\ r.autoscaling = g.autoscaling /\ r.database = g.database
       /\ \A f \in F : s[f] = r[f]
  <2>1. /\ RecordOf(r, F) /\ RecordOf(s, F)
        /\ \A f \in F \ C : r[f] = g[f]
        /\ \A f \in F \ C : s[f] = r[f]
    BY <1>2, <1>3 DEF GlanceDefaulted, F
  <2>2. \A f \in C : s[f] = r[f]
    BY <1>6, <1>7, <1>8, <1>9
  <2>3. "kind" \in F \ C /\ "autoscaling" \in F \ C /\ "database" \in F \ C
    BY <1>4
  <2>. HIDE DEF C
  <2>. QED
    BY <2>1, <2>2, <2>3
<1>11. s = r
  BY <1>10 DEF RecordOf
<1>12. \A f \in F : BlockSpec(f, r[f])
  BY <1>4, <1>5, <1>6, <1>7, <1>8, <1>10 DEF BlockSpec
<1>13. DOMAIN r = F /\ r.kind \in DOMAIN SpecFields
  BY <1>10, KindsHaveFields DEF RecordOf, Kinds
<1>14. ServiceSpec(r)
  BY <1>10, <1>12, <1>13 DEF ServiceSpec, F
<1>. QED
  BY <1>10, <1>11, <1>14 DEF r, s

\* Defaulting is idempotent, and what it returns is a spec of the same kind.
LEMMA DefaultSettles ==
  ASSUME NEW c, ServiceSpec(c)
  PROVE  /\ ServiceSpec(Default(c)) /\ Default(c).kind = c.kind
         /\ Default(Default(c)) = Default(c)
<1>1. c.kind \in Kinds
  BY KindsHaveFields DEF ServiceSpec
<1>2. CASE c.kind = "Keystone"
  BY <1>2, KeystoneSettles DEF Default
<1>3. CASE c.kind = "Horizon"
  BY <1>3, HorizonSettles DEF Default
<1>4. CASE c.kind = "Glance"
  BY <1>4, GlanceSettles DEF Default
<1>. QED
  BY <1>1, <1>2, <1>3, <1>4 DEF Kinds
-----------------------------------------------------------------------------
(***************************************************************************)
(* What validation leaves of a spec once the PriorityClasses are set       *)
(* aside, as far as the objects depend on it.                              *)
(***************************************************************************)
Buildable(c) ==
  /\ DeploymentSchema(c.deployment) /\ StrategyConsistent(c.deployment)
  /\ RequestsWithinLimits(c.deployment) /\ ImageSchema(c.image)
  /\ c.kind # "Horizon" => \A u \in c.uwsgi : DrainFits(u, c.deployment)
  /\ \A a \in c.autoscaling : validateAutoscaling(a, c.deployment)

LEMMA ValidIsBuildable ==
  ASSUME NEW c, ServiceSpec(c), Valid(c)
  PROVE  Buildable(c)
<1>1. c.kind \in Kinds
  BY KindsHaveFields DEF ServiceSpec
<1>2. CASE c.kind = "Keystone"
  BY <1>2 DEF Valid, KeystoneValid, validateKeystoneImages, validateKeystoneServer,
              validateKeystonePods, validateDeployment, Buildable
<1>3. CASE c.kind = "Horizon"
  BY <1>3 DEF Valid, HorizonValid, validateHorizonSettings, validateHorizonPods,
              validateHorizonScaling, validateDeployment, Buildable
<1>4. CASE c.kind = "Glance"
  BY <1>4 DEF Valid, GlanceValid, validateGlanceBackends, validateGlancePods,
              validateGlanceScaling, validateDeployment, GlanceDrainFits, Buildable
<1>. QED
  BY <1>1, <1>2, <1>3, <1>4 DEF Kinds

\* A spec that was valid stays so for as long as its PriorityClass is there:
\* validation looks at nothing else that can change.
LEMMA ValidStays ==
  ASSUME NEW c, ServiceSpec(c), Valid(c), PriorityClassExists(c.deployment, classes')
  PROVE  Valid(c)'
<1>1. c.kind \in Kinds
  BY KindsHaveFields DEF ServiceSpec
<1>2. CASE c.kind = "Keystone"
  BY <1>2 DEF Valid, KeystoneValid, validateKeystonePods, validateDeployment
<1>3. CASE c.kind = "Horizon"
  BY <1>3 DEF Valid, HorizonValid, validateHorizonPods, validateDeployment
<1>4. CASE c.kind = "Glance"
  BY <1>4 DEF Valid, GlanceValid, validateGlanceScaling, validateDeployment
<1>. QED
  BY <1>1, <1>2, <1>3, <1>4 DEF Kinds

\* The Deployment, field by field.
LEMMA DeploymentFields ==
  ASSUME NEW c, c.kind \in Kinds, NEW proxied \in BOOLEAN, proxied => c.kind = "Keystone"
  PROVE  LET d == BuildDeployment(c, proxied) IN
         /\ d.strategy = Strategy(c.deployment) /\ d.image = Reference(c.image)
         /\ d.resources = ContainerResources(c.deployment)
         /\ d.grace = Grace(c.deployment) /\ d.preStop = PreStop(c.deployment)
         /\ \A h \in d.server.harakiri : c.kind # "Horizon" /\ \E u \in c.uwsgi : h \in u.harakiri
         /\ IF proxied THEN d.probes = {"exec"} /\ "federation-proxy" \in d.containers
                       ELSE d.server.bind = "all" /\ "api" \in d.containers
<1>1. CASE c.kind = "Keystone"
  <2>. DEFINE d == BuildDeployment(c, proxied)
  <2>1. d = buildKeystoneDeployment(c, proxied)
    BY <1>1 DEF BuildDeployment
  <2>2. /\ d.strategy = Strategy(c.deployment) /\ d.image = Reference(c.image)
        /\ d.resources = ContainerResources(c.deployment)
        /\ d.grace = Grace(c.deployment) /\ d.preStop = PreStop(c.deployment)
        /\ d.server = uwsgiCommand(c.uwsgi, proxied)
        /\ d.probes = {keystoneLivenessProbe(proxied), keystoneStartupProbe(proxied),
                       dbReadinessProbe}
        /\ d.containers = {"api"} \union IF proxied THEN buildFederationProxyContainer ELSE {}
    BY <2>1 DEF buildKeystoneDeployment, PodTemplate
  <2>. HIDE DEF d
  <2>3. \A h \in d.server.harakiri : \E u \in c.uwsgi : h \in u.harakiri
    BY <2>2 DEF uwsgiCommand
  <2>4. IF proxied THEN d.probes = {"exec"} /\ "federation-proxy" \in d.containers
                   ELSE d.server.bind = "all" /\ "api" \in d.containers
    BY <2>2 DEF uwsgiCommand, keystoneLivenessProbe, keystoneStartupProbe, dbReadinessProbe,
                buildFederationProxyContainer
  <2>. QED
    BY <1>1, <2>2, <2>3, <2>4 DEF d
<1>2. CASE c.kind = "Horizon"
  <2>1. BuildDeployment(c, proxied) = PodTemplate(c)
    BY <1>2 DEF BuildDeployment, buildHorizonDeployment
  <2>. QED
    BY <1>2, <2>1 DEF PodTemplate
<1>3. CASE c.kind = "Glance"
  <2>. DEFINE d == BuildDeployment(c, proxied)
  <2>1. d = [PodTemplate(c) EXCEPT !.server = glanceLaunchCommand(c)]
    BY <1>3 DEF BuildDeployment, buildGlanceDeployment
  <2>2. /\ d.strategy = Strategy(c.deployment) /\ d.image = Reference(c.image)
        /\ d.resources = ContainerResources(c.deployment)
        /\ d.grace = Grace(c.deployment) /\ d.preStop = PreStop(c.deployment)
        /\ d.server = glanceLaunchCommand(c) /\ d.containers = {"api"}
    BY <2>1 DEF PodTemplate
  <2>. HIDE DEF d
  <2>3. /\ \A h \in d.server.harakiri : \E u \in c.uwsgi : h \in u.harakiri
        /\ d.server.bind = "all"
    BY <2>2 DEF glanceLaunchCommand, uwsgiCommand
  <2>. QED
    BY <1>3, <2>2, <2>3 DEF d
<1>. QED
  BY <1>1, <1>2, <1>3 DEF Kinds
LEMMA BuildableBuilds ==
  ASSUME NEW c, ServiceSpec(c), Buildable(c),
         NEW proxied \in BOOLEAN, proxied => c.kind = "Keystone"
  PROVE  LET d == BuildDeployment(c, proxied) IN
         /\ DeploymentAccepted(d) /\ Drains(d)
         /\ Reachable(d, BuildService(proxied))
         /\ \A a \in c.autoscaling : HPAAccepted(BuildHPA(c.deployment, a))
<1>. DEFINE d == BuildDeployment(c, proxied)
            dep == c.deployment
<1>1. c.kind \in Kinds /\ DeploymentSpec(dep)
  <2>1. {"deployment"} \subseteq DOMAIN c
    BY KindsHaveFields DEF ServiceSpec, RecordOf, SpecFields, CommonFields, Kinds
  <2>. QED
    BY <2>1, KindsHaveFields DEF ServiceSpec, BlockSpec
<1>2. \A f \in {"uwsgi", "autoscaling"} : f \in DOMAIN c => BlockSpec(f, c[f])
  BY DEF ServiceSpec
<1>3. /\ d.strategy = Strategy(dep) /\ d.image = Reference(c.image)
      /\ d.resources = ContainerResources(dep)
      /\ d.grace = Grace(dep) /\ d.preStop = PreStop(dep)
      /\ \A h \in d.server.harakiri : c.kind # "Horizon" /\ \E u \in c.uwsgi : h \in u.harakiri
      /\ IF proxied THEN d.probes = {"exec"} /\ "federation-proxy" \in d.containers
                    ELSE d.server.bind = "all" /\ "api" \in d.containers
  BY <1>1, DeploymentFields
<1>. HIDE DEF d
<1>4. Grace(dep) \in Int /\ PreStop(dep) \in Int
  <2>1. dep.grace \subseteq Int /\ dep.preStop \subseteq Int
    BY <1>1 DEF DeploymentSpec
  <2>. QED
    BY <2>1 DEF Grace, PreStop, Or, Has, DefaultTerminationGracePeriodSeconds,
                DefaultPreStopSleepSeconds
<1>5. DeploymentAccepted(d)
  <2>1. d.strategy.type = "Recreate" => ~ d.strategy.rollingUpdate
    <3>1. CASE Has(dep.strategy)
      BY <1>3, <3>1 DEF Buildable, StrategyConsistent, Strategy, Or, Has
    <3>2. CASE ~ Has(dep.strategy)
      <4>1. d.strategy.type = "RollingUpdate"
        BY <1>3, <3>2 DEF Strategy, Or, DefaultStrategy
      <4>. QED
        BY <4>1
    <3>. QED
      BY <3>1, <3>2
  <2>2. \A n \in DOMAIN d.resources.requests \intersect DOMAIN d.resources.limits :
          d.resources.requests[n] <= d.resources.limits[n]
    <3>1. CASE Has(dep.resources)
      <4>1. d.resources \in dep.resources
        BY <1>3, <3>1 DEF ContainerResources, Or, Has
      <4>. QED
        BY <4>1 DEF Buildable, RequestsWithinLimits
    <3>2. CASE ~ Has(dep.resources)
      <4>1. DOMAIN d.resources.requests = {}
        BY <1>3, <3>2 DEF ContainerResources, Or
      <4>. QED
        BY <4>1
    <3>. QED
      BY <3>1, <3>2
  <2>3. Has(d.image)
    BY <1>3 DEF Buildable, ImageSchema, Reference, Has
  <2>. QED
    BY <2>1, <2>2, <2>3 DEF DeploymentAccepted
<1>6. Drains(d)
  <2>. SUFFICES ASSUME NEW h \in d.server.harakiri PROVE d.preStop + h < d.grace
    BY DEF Drains
  <2>1. PICK u \in c.uwsgi : h \in u.harakiri
    BY <1>3
  <2>2. c.kind # "Horizon"
    BY <1>3
  <2>3. "uwsgi" \in DOMAIN c
    BY <1>1, <2>2, KindsHaveFields DEF ServiceSpec, RecordOf, SpecFields, Kinds
  <2>4. h \in Int
    BY <1>2, <2>1, <2>3 DEF BlockSpec, UWSGISpec
  <2>5. h < Grace(dep) - PreStop(dep)
    BY <2>1, <2>2 DEF Buildable, DrainFits
  <2>. QED
    BY <1>3, <1>4, <2>4, <2>5
<1>7. Reachable(d, BuildService(proxied))
  BY <1>3 DEF Reachable, BuildService
<1>8. \A a \in c.autoscaling : HPAAccepted(BuildHPA(dep, a))
  <2>. SUFFICES ASSUME NEW a \in c.autoscaling PROVE HPAAccepted(BuildHPA(dep, a))
    OBVIOUS
  <2>1. "autoscaling" \in DOMAIN c
    BY <1>1, KindsHaveFields DEF ServiceSpec, RecordOf, SpecFields, CommonFields, Kinds
  <2>2. AutoscalingSpec(a)
    BY <1>2, <2>1 DEF BlockSpec
  <2>3. a.max \in Int /\ a.min \subseteq Int
    BY <2>2 DEF AutoscalingSpec
  <2>4. AutoscalingSchema(a) /\ (Has(a.min) \/ dep.replicas <= a.max)
    BY DEF Buildable, validateAutoscaling
  <2>5. dep.replicas \in Int /\ dep.replicas >= 1 /\ EffectiveReplicas(dep) = dep.replicas
    BY <1>1 DEF DeploymentSpec, Buildable, DeploymentSchema, EffectiveReplicas, When
  <2>. DEFINE min == Or(a.min, EffectiveReplicas(dep))
  <2>6. 1 <= min /\ min <= a.max
    <3>1. CASE Has(a.min)
      <4>1. min \in a.min
        BY <3>1 DEF Or, Has
      <4>. QED
        BY <2>3, <2>4, <4>1 DEF AutoscalingSchema
    <3>2. CASE ~ Has(a.min)
      BY <2>4, <2>5, <3>2 DEF Or
    <3>. QED
      BY <3>1, <3>2
  <2>7. a.cpu \union a.memory # {}
    BY <2>4 DEF AutoscalingSchema, Has
  <2>. QED
    BY <2>6, <2>7 DEF HPAAccepted, BuildHPA
<1>. QED
  BY <1>5, <1>6, <1>7, <1>8 DEF d

-----------------------------------------------------------------------------
(***************************************************************************)
(* The invariant.  A spec is checked when it is stored, not when it is     *)
(* used, and a pass uses a copy; what it was checked against may be gone   *)
(* by then.  Buildable is what does not depend on that.                    *)
(***************************************************************************)
Sound(c) == ServiceSpec(c) /\ Buildable(c)
StoredSound ==
  \A c \in cr :
    /\ Sound(c) /\ Default(c) = c /\ Schema(c)
    /\ PriorityClassExists(c.deployment, classes) => Valid(c)
    /\ federated => c.kind = "Keystone"
PassSound ==
  \A c \in pass.cr : Sound(c) /\ (pass.proxied => c.kind = "Keystone")
FlagsOK ==
  federated \in BOOLEAN /\ pass.proxied \in BOOLEAN /\ (federated => Has(cr))
IInv == FlagsOK /\ StoredSound /\ PassSound

LEMMA AdmittedIsSound ==
  ASSUME NEW c, ServiceSpec(c), Admitted(c)
  PROVE  LET d == Default(c) IN
         Sound(d) /\ Default(d) = d /\ Schema(d) /\ Valid(d) /\ d.kind = c.kind
<1>1. ServiceSpec(Default(c)) /\ Default(c).kind = c.kind /\ Default(Default(c)) = Default(c)
  BY DefaultSettles
<1>2. Schema(Default(c)) /\ Valid(Default(c))
  BY DEF Admitted
<1>. QED
  BY <1>1, <1>2, ValidIsBuildable DEF Sound

LEMMA EditIsSpec ==
  ASSUME NEW old, ServiceSpec(old), NEW f \in DOMAIN Blocks[old.kind],
         NEW v \in Blocks[old.kind][f]
  PROVE  LET new == [old EXCEPT ![f] = v] IN ServiceSpec(new) /\ new.kind = old.kind
<1>. DEFINE new == [old EXCEPT ![f] = v]
            F == SpecFields[old.kind]
<1>1. /\ old.kind \in DOMAIN SpecFields
      /\ DOMAIN old = F /\ old = [g \in F |-> old[g]]
      /\ \A g \in F : BlockSpec(g, old[g])
  BY DEF ServiceSpec, RecordOf
<1>2. f # "kind" /\ BlockSpec(f, v)
  BY <1>1, ServicesAssumption
<1>3. "kind" \in F
  BY <1>1, KindsHaveFields DEF SpecFields, CommonFields, Kinds
<1>. HIDE DEF F
<1>4. /\ DOMAIN new = F /\ new = [g \in F |-> new[g]]
      /\ new.kind = old.kind
      /\ \A g \in F : new[g] = IF g = f THEN v ELSE old[g]
  BY <1>1, <1>2, <1>3
<1>. HIDE DEF new
<1>5. \A g \in F : BlockSpec(g, new[g])
  BY <1>1, <1>2, <1>4
<1>6. ServiceSpec(new)
  BY <1>1, <1>4, <1>5 DEF ServiceSpec, RecordOf, F
<1>. QED
  BY <1>4, <1>6 DEF new
LEMMA IdleIsSound == IdlePass.cr = {} /\ IdlePass.proxied = FALSE
BY DEF IdlePass

LEMMA InitIInv == SvcInit => IInv
<1>. SUFFICES ASSUME SvcInit PROVE IInv
  OBVIOUS
<1>1. cr = {} /\ federated = FALSE /\ pass.cr = {} /\ pass.proxied = FALSE
  BY IdleIsSound DEF SvcInit
<1>. QED
  BY <1>1 DEF IInv, FlagsOK, StoredSound, PassSound

\* What a request stores.
LEMMA Stores ==
  ASSUME IInv, NEW c, ServiceSpec(c), Admitted(c), federated => c.kind = "Keystone",
         cr' = {Default(c)}, UNCHANGED <<classes, pass, federated>>
  PROVE  IInv'
<1>. DEFINE d == Default(c)
<1>1. Sound(d) /\ Default(d) = d /\ Schema(d) /\ Valid(d) /\ d.kind = c.kind
  BY AdmittedIsSound
<1>. HIDE DEF d
<1>2. cr' = {d}
  BY DEF d
<1>3. PriorityClassExists(d.deployment, classes') => Valid(d)'
  BY <1>1, ValidStays DEF Sound
<1>4. StoredSound'
  BY <1>1, <1>2, <1>3 DEF StoredSound
<1>5. PassSound' /\ FlagsOK'
  BY <1>2 DEF IInv, PassSound, FlagsOK, Has
<1>. QED
  BY <1>4, <1>5 DEF IInv

\* A stored spec stays sound while PriorityClasses go.
LEMMA StoredStays ==
  ASSUME IInv, cr' = cr, classes' \subseteq classes,
         federated' => \A c \in cr : c.kind = "Keystone"
  PROVE  StoredSound'
<1>. SUFFICES ASSUME NEW c \in cr
              PROVE  /\ Sound(c) /\ Default(c) = c /\ Schema(c)
                     /\ PriorityClassExists(c.deployment, classes') => Valid(c)'
                     /\ federated' => c.kind = "Keystone"
  BY DEF StoredSound
<1>1. /\ Sound(c) /\ Default(c) = c /\ Schema(c)
      /\ PriorityClassExists(c.deployment, classes) => Valid(c)
  BY DEF IInv, StoredSound
<1>2. PriorityClassExists(c.deployment, classes') => PriorityClassExists(c.deployment, classes)
  BY DEF PriorityClassExists
<1>3. PriorityClassExists(c.deployment, classes') => Valid(c)'
  BY <1>1, <1>2, ValidStays DEF Sound
<1>. QED
  BY <1>1, <1>3

\* There is one CR, so its kind is that of all.
OneCR == \A c, d \in cr : c = d

LEMMA NextIInv ==
  ASSUME IInv, OneCR, [SvcNext]_svcVars
  PROVE  IInv' /\ OneCR'
<1>1. CASE Create
  <2>1. PICK c \in Drafts : Admitted(c) /\ cr' = {Default(c)}
    BY <1>1 DEF Create
  <2>2. ServiceSpec(c)
    BY ServicesAssumption
  <2>3. ~ federated /\ UNCHANGED <<classes, pass, federated>>
    BY <1>1 DEF Create, IInv, FlagsOK, Has
  <2>4. IInv'
    BY <2>1, <2>2, <2>3, Stores
  <2>. QED
    BY <2>1, <2>4 DEF OneCR
<1>2. CASE Edit
  <2>1. PICK old \in cr : \E f \in DOMAIN Blocks[old.kind] : \E v \in Blocks[old.kind][f] :
          LET new == [old EXCEPT ![f] = v] IN Admitted(new) /\ cr' = {Default(new)}
    BY <1>2 DEF Edit
  <2>f. PICK f \in DOMAIN Blocks[old.kind] : \E v \in Blocks[old.kind][f] :
          LET new == [old EXCEPT ![f] = v] IN Admitted(new) /\ cr' = {Default(new)}
    BY <2>1
  <2>2. PICK v \in Blocks[old.kind][f] :
          LET new == [old EXCEPT ![f] = v] IN Admitted(new) /\ cr' = {Default(new)}
    BY <2>f
  <2>. DEFINE new == [old EXCEPT ![f] = v]
  <2>3. ServiceSpec(old) /\ (federated => old.kind = "Keystone")
    BY DEF IInv, StoredSound, Sound
  <2>4. ServiceSpec(new) /\ new.kind = old.kind
    BY <2>3, EditIsSpec
  <2>5. Admitted(new) /\ cr' = {Default(new)} /\ UNCHANGED <<classes, pass, federated>>
    BY <1>2, <2>2 DEF Edit
  <2>. HIDE DEF new
  <2>6. IInv'
    BY <2>3, <2>4, <2>5, Stores
  <2>. QED
    BY <2>5, <2>6 DEF OneCR
<1>3. CASE Federate
  <2>1. UNCHANGED <<cr, classes, pass>> /\ federated' \in BOOLEAN
        /\ \E c \in cr : c.kind = "Keystone"
    BY <1>3 DEF Federate, IInv, FlagsOK
  <2>2. \A c \in cr : c.kind = "Keystone"
    BY <2>1 DEF OneCR
  <2>3. StoredSound'
    BY <2>1, <2>2, StoredStays
  <2>4. PassSound' /\ FlagsOK'
    BY <2>1 DEF IInv, PassSound, FlagsOK, Has
  <2>. QED
    BY <2>1, <2>3, <2>4 DEF IInv, OneCR
<1>4. CASE DropClass
  <2>1. UNCHANGED <<cr, pass, federated>> /\ classes' \subseteq classes
    BY <1>4 DEF DropClass
  <2>2. StoredSound'
    BY <2>1, StoredStays DEF IInv, StoredSound
  <2>. QED
    BY <2>1, <2>2 DEF IInv, PassSound, FlagsOK, OneCR
<1>5. CASE EnsureRead
  <2>1. /\ UNCHANGED <<cr, classes, federated>>
        /\ pass'.cr = cr /\ pass'.proxied = federated
    BY <1>5 DEF EnsureRead
  <2>2. StoredSound'
    BY <2>1, StoredStays DEF IInv, StoredSound
  <2>3. PassSound' /\ FlagsOK'
    BY <2>1 DEF IInv, StoredSound, PassSound, FlagsOK
  <2>. QED
    BY <2>1, <2>2, <2>3 DEF IInv, OneCR
<1>6. CASE \/ Autoscale \/ EnsureDeployment \/ EnsureServiceAndPDB \/ EnsureHPA
           \/ UNCHANGED svcVars
  <2>1. UNCHANGED <<cr, classes, federated>>
    BY <1>6 DEF Autoscale, EnsureDeployment, EnsureServiceAndPDB, EnsureHPA, svcVars
  <2>2. (pass'.cr = pass.cr /\ pass'.proxied = pass.proxied) \/ pass' = IdlePass
    <3>1. \A p : LET q == [pass EXCEPT !.pc = p]
                IN  q.cr = pass.cr /\ q.proxied = pass.proxied
      OBVIOUS
    <3>2. CASE EnsureDeployment
      BY <3>1, <3>2 DEF EnsureDeployment
    <3>3. CASE EnsureServiceAndPDB
      BY <3>1, <3>3 DEF EnsureServiceAndPDB
    <3>4. CASE Autoscale \/ EnsureHPA \/ UNCHANGED svcVars
      BY <3>4 DEF Autoscale, EnsureHPA, svcVars
    <3>. QED
      BY <1>6, <3>2, <3>3, <3>4
  <2>3. StoredSound'
    BY <2>1, StoredStays DEF IInv, StoredSound
  <2>4. PassSound' /\ FlagsOK'
    <3>1. CASE pass'.cr = pass.cr /\ pass'.proxied = pass.proxied
      BY <2>1, <3>1 DEF IInv, PassSound, FlagsOK
    <3>2. CASE pass' = IdlePass
      <4>1. pass'.cr = {} /\ pass'.proxied = FALSE
        BY <3>2, IdleIsSound
      <4>. QED
        BY <2>1, <4>1 DEF IInv, PassSound, FlagsOK
    <3>. QED
      BY <2>2, <3>1, <3>2
  <2>. QED
    BY <2>1, <2>3, <2>4 DEF IInv, OneCR
<1>. QED
  BY <1>1, <1>2, <1>3, <1>4, <1>5, <1>6 DEF SvcNext, SvcOperator

LEMMA InvHolds == SvcSpec => [](IInv /\ OneCR)
<1>1. SvcInit => IInv /\ OneCR
  BY InitIInv DEF SvcInit, OneCR
<1>2. IInv /\ OneCR /\ [SvcNext]_svcVars => (IInv /\ OneCR)'
  BY NextIInv
<1>. QED
  BY <1>1, <1>2, PTL DEF SvcSpec

\* No step fails for ever on a spec that was admitted, and no pod is killed in
\* the middle of a request or cut off from its probes: the webhooks of the
\* three operators refuse all that their reconcileDeployment cannot build,
\* however the PriorityClasses and the federation change after admission.
THEOREM AdmittedAlwaysBuilds == SvcSpec => []AdmittedBuilds
<1>1. IInv => AdmittedBuilds
  BY BuildableBuilds DEF IInv, PassSound, FlagsOK, Sound, AdmittedBuilds
<1>. QED
  BY <1>1, InvHolds, PTL

\* What is stored passes its own webhooks again unchanged, so that the
\* operators can always write a finalizer: defaulting is idempotent on every
\* block, and validation looks at nothing that changes but PriorityClasses.
THEOREM StoredAlwaysReadmits == SvcSpec => []StoredReadmits
<1>1. IInv => StoredReadmits
  BY DEF IInv, StoredSound, StoredReadmits
<1>. QED
  BY <1>1, InvHolds, PTL
=============================================================================
