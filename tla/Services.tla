------------------------------- MODULE Services -------------------------------
(***************************************************************************)
(* A service CR (Keystone, Horizon or Glance) from its admission to the    *)
(* objects its pods run in: the defaulting and validating webhooks of the  *)
(* three operators, the CRD's own rules, and the Deployment, Service,      *)
(* PodDisruptionBudget and HorizontalPodAutoscaler steps.  A request is    *)
(* defaulted, then checked against the schema, then validated; a refused   *)
(* request changes nothing.  A pass reads the live Deployment and writes   *)
(* the objects in separate steps, and users, the autoscaler and the        *)
(* scheduler's PriorityClasses may change in between.                      *)
(*                                                                         *)
(* Abstracted: everything of the spec that neither a check nor one of      *)
(* these objects looks at; the three operators' steps are one, since they  *)
(* call the same code and differ in what the container runs.               *)
(***************************************************************************)
EXTENDS Workload, Sequences

CONSTANTS
  Drafts,        \* the specs a user may create a CR with
  Blocks,        \* kind -> field -> the values an edit may give that field
  Classes,       \* PriorityClasses that exist at first
  MaxPods,       \* bound on what an autoscaler may ask for
  MaxEdits       \* bound on the requests of users

(* What the API server can read into a block of the CRD: a record of the   *)
(* type's fields, with whole numbers for the quantities.  A value outside  *)
(* never reaches a webhook.                                                *)

RecordOf(r, fields) == DOMAIN r = fields /\ r = [f \in fields |-> r[f]]
IsSequence(s) == s \in Seq({s[i] : i \in DOMAIN s})

DeploymentSpec(d) ==
  /\ RecordOf(d, {"replicas", "resources", "grace", "preStop", "strategy",
                  "spread", "priority"})
  /\ d.replicas \in Int /\ d.grace \union d.preStop \subseteq Int
AutoscalingSpec(a) ==
  /\ RecordOf(a, {"min", "max", "cpu", "memory"})
  /\ a.max \in Int /\ a.min \union a.cpu \union a.memory \subseteq Int
LoggingSpec(l) == RecordOf(l, {"format", "level", "debug", "loggers"})
UWSGISpec(u) ==
  /\ RecordOf(u, {"processes", "threads", "harakiri", "timeout", "keepAlive"})
  /\ {u.processes, u.threads} \union u.harakiri \union u.timeout \subseteq Int
KeysSpec(keys) == RecordOf(keys, {"max", "schedule"}) /\ keys.max \in Int
PasswordRotationSpec(p) ==
  RecordOf(p, {"enabled", "schedule", "length"}) /\ p.length \in Int
BootstrapSpec(b) ==
  RecordOf(b, {"adminUser", "region", "adminSecret", "publicEndpoint"})
DatabaseSpec(db) ==
  RecordOf(db, {"clusterRef", "host", "mode", "database", "secretRef"})
DatabaseTLSSpec(t) == RecordOf(t, {"mode", "caBundle", "clientCert"})
WebSSOSpec(w) ==
  /\ RecordOf(w, {"enabled", "choices", "initial", "mapped", "keystoneURL"})
  /\ IsSequence(w.choices)
MultiDomainSpec(m) == RecordOf(m, {"enabled", "dropdown", "choices", "default"})

BlockSpec(f, v) ==
  /\ f = "deployment" => DeploymentSpec(v)
  /\ f = "autoscaling" => \A a \in v : AutoscalingSpec(a)
  /\ f = "logging" => \A l \in v : LoggingSpec(l)
  /\ f = "uwsgi" => \A u \in v : UWSGISpec(u)
  /\ f \in {"fernet", "credentialKeys"} => KeysSpec(v)
  /\ f = "rotation" => \A p \in v : PasswordRotationSpec(p)
  /\ f = "bootstrap" => BootstrapSpec(v)
  /\ f = "database" => DatabaseSpec(v)
  /\ f = "tls" => \A t \in v : DatabaseTLSSpec(t)
  /\ f = "websso" => \A w \in v : WebSSOSpec(w)
  /\ f = "multiDomain" => \A m \in v : MultiDomainSpec(m)

CommonFields ==
  {"kind", "deployment", "image", "cache", "store", "autoscaling",
   "networkPolicy", "gateway", "logging", "extraConfig"}
SpecFields ==
  [Keystone |-> CommonFields \union
     {"database", "tls", "fernet", "credentialKeys", "rotation", "trustFlush",
      "proxyImage", "dashboards", "bootstrap", "plugins", "policy", "uwsgi"},
   Horizon |-> CommonFields \union
     {"keystoneEndpoint", "secretKey", "websso", "multiDomain"},
   Glance |-> CommonFields \union
     {"database", "keystoneEndpoint", "publicEndpoint", "serviceUser", "uwsgi",
      "release"}]
ServiceSpec(c) ==
  /\ c.kind \in DOMAIN SpecFields /\ RecordOf(c, SpecFields[c.kind])
  /\ \A f \in DOMAIN c : BlockSpec(f, c[f])

ASSUME ServicesAssumption ==
  /\ MaxPods \in Nat /\ MaxEdits \in Nat
  /\ \A d \in Drafts : ServiceSpec(d)
  /\ \A kind \in DOMAIN SpecFields : \A f \in DOMAIN Blocks[kind] :
       f # "kind" /\ \A v \in Blocks[kind][f] : BlockSpec(f, v)

VARIABLES
  cr,        \* the stored CR, if any
  classes,   \* the PriorityClasses that exist
  live,      \* Deployment, Service, PDB and HPA
  pass,      \* the pass under way
  federated, \* an OIDC or SAML backend is projected (Keystone only)
  requests   \* how often users acted

svcVars == <<cr, classes, live, pass, federated, requests>>

-----------------------------------------------------------------------------
(* Keystone's API type and webhooks.                                       *)

UWSGISchema(u) ==
  /\ u.processes >= 1 /\ u.threads >= 1
  /\ \A t \in u.harakiri \union u.timeout : t >= 1
  /\ Has(u.timeout) => Or(u.keepAlive, TRUE)
UWSGIDefault(u) ==
  [u EXCEPT !.processes = When(@, 0, 2), !.threads = When(@, 0, 1),
            !.keepAlive = {Or(@, TRUE)}]
\* Mutant: the preStop sleep is not counted.
DrainIgnoresPreStop(u, d) == \A h \in u.harakiri : h < Grace(d)

\* The longest request must end between the preStop sleep and the kill.
DrainFits(u, d) == \A h \in u.harakiri : h < Grace(d) - PreStop(d)

KeysSchema(keys) == keys.max >= 3
ValidCron(schedule) == schedule = "cron"
RotationSchema(p) == p.length >= 24

KeystoneSchema(k) ==
  /\ DeploymentSchema(k.deployment) /\ ImageSchema(k.image)
  /\ DatabaseSchema(k.database) /\ \A t \in k.tls : DatabaseTLSSchema(t)
  /\ CacheXOR(k.cache) /\ KeysSchema(k.fernet) /\ KeysSchema(k.credentialKeys)
  /\ \A p \in k.rotation : RotationSchema(p)
  /\ \A p \in k.policy : PolicySchema(p) /\ (Has(p.configMap) \/ DOMAIN p.rules # {})
  /\ \A a \in k.autoscaling : AutoscalingSchema(a)
  /\ \A n \in k.networkPolicy : NetworkPolicySchema(n)
  /\ \A u \in k.uwsgi : UWSGISchema(u)
  /\ \A g \in k.gateway : GatewaySchema(g)
  /\ \A l \in k.logging : LoggingSchema(l)

KeystoneDefault(k) ==
  [k EXCEPT
    !.deployment = DeploymentDefault(@),
    !.fernet.max = When(@, 0, 3), !.credentialKeys.max = When(@, 0, 3),
    !.bootstrap.adminUser = When(@, "", "admin"),
    !.bootstrap.region = When(@, "", "RegionOne"),
    !.trustFlush = {Or(@, "cron")},
    !.rotation = {[p EXCEPT !.schedule = IF p.enabled THEN When(@, "", "cron") ELSE @,
                            !.length = IF p.enabled THEN When(@, 0, 32) ELSE @] : p \in @},
    !.uwsgi = {UWSGIDefault(u) : u \in @},
    !.logging = {LoggingDefault(Or(@, NoLogging))},
    !.tls = {[t EXCEPT !.mode = When(@, "", "require")] : t \in @},
    !.database.mode = When(@, "", "Static")]

\* A database's name and mode, the admin user and the region stay.
KeystoneImmutable(old, new) ==
  /\ new.database.database = old.database.database
  /\ Has(new.database.clusterRef) = Has(old.database.clusterRef)
KeystoneBootstrapImmutable(old, new) ==
  /\ new.bootstrap.adminUser = old.bootstrap.adminUser
  /\ new.bootstrap.region = old.bootstrap.region

validateTrustedDashboards(k) ==
  /\ \A i, j \in DOMAIN k.dashboards : k.dashboards[i] = k.dashboards[j] => i = j
  /\ \A i \in DOMAIN k.dashboards : validateURL(k.dashboards[i])
  /\ k.dashboards # <<>> => "trusted_dashboard" \notin k.extraConfig

validateKeystoneImages(k) ==
  /\ k.deployment.replicas >= 1 /\ ImageSchema(k.image)
  /\ \A p \in k.proxyImage : p.repository # "" /\ ImageSchema(p)
validateKeystoneKeys(k) ==
  \A keys \in {k.fernet, k.credentialKeys} : keys.max >= 3 \/ keys.max = 0
validateKeystoneBackends(k) ==
  /\ CacheXOR(k.cache) /\ DatabaseXOR(k.database)
  /\ DynamicCredentialsRequireClusterRef(k.database)
  /\ \A s \in k.store : SecretStoreRefSchema(s)
  /\ \A t \in k.tls : DatabaseTLSSchema(t)
validateKeystoneSchedules(k) ==
  /\ ValidCron(k.fernet.schedule) /\ ValidCron(k.credentialKeys.schedule)
  /\ \A s \in k.trustFlush : ValidCron(s)
  /\ \A p \in k.rotation : p.enabled =>
       /\ ValidCron(p.schedule) /\ k.bootstrap.adminSecret # ""
       /\ p.length = 0 \/ p.length >= 24
validateKeystonePlugins(k) ==
  /\ \A i, j \in DOMAIN k.plugins :
       k.plugins[i].section = k.plugins[j].section => i = j
  /\ \A p \in k.policy : PolicySchema(p) /\ (Has(p.configMap) \/ DOMAIN p.rules # {})
validateKeystoneServer(k) ==
  /\ \A u \in k.uwsgi : UWSGISchema(u) /\ DrainFits(u, k.deployment)
  /\ \A l \in k.logging : LoggingSchema(l)
\* The endpoint in the catalog is one that the Gateway's listener accepts.
validateKeystoneEndpoint(k) ==
  \A g \in k.gateway : /\ GatewaySchema(g)
                       /\ \A u \in k.bootstrap.publicEndpoint :
                            u.scheme = "https" /\ u.host = g.hostname
validateKeystonePods(k) ==
  /\ validateDeployment(k.deployment, classes)
  /\ \A a \in k.autoscaling : validateAutoscaling(a, k.deployment)
  /\ \A n \in k.networkPolicy : NetworkPolicySchema(n)

KeystoneValid(k) ==
  /\ validateKeystoneImages(k) /\ validateTrustedDashboards(k)
  /\ validateKeystoneKeys(k) /\ validateKeystoneBackends(k)
  /\ validateKeystoneSchedules(k) /\ validateKeystonePlugins(k)
  /\ validateKeystoneServer(k) /\ validateKeystoneEndpoint(k)
  /\ validateKeystonePods(k)

-----------------------------------------------------------------------------
(* Horizon's.                                                              *)

maxWebSSOChoices == 17
Local == "credentials"

WebSSOSchema(w) ==
  /\ w.enabled => w.choices # <<>>
  /\ \A i \in w.initial : \E n \in DOMAIN w.choices : w.choices[n] = i
  /\ \A m \in w.mapped : \E n \in DOMAIN w.choices : w.choices[n] = m
MultiDomainSchema(m) ==
  m.dropdown => m.enabled /\ m.choices # <<>>
HorizonSchema(h) ==
  /\ DeploymentSchema(h.deployment) /\ ImageSchema(h.image) /\ CacheXOR(h.cache)
  /\ \A w \in h.websso : WebSSOSchema(w) /\ Len(w.choices) <= maxWebSSOChoices
  /\ \A m \in h.multiDomain : MultiDomainSchema(m)
  /\ \A a \in h.autoscaling : AutoscalingSchema(a)
  /\ \A n \in h.networkPolicy : NetworkPolicySchema(n)
  /\ \A g \in h.gateway : GatewaySchema(g)
  /\ \A l \in h.logging : LoggingSchema(l)

\* Mutant: the local choice is not looked for.
NeverLocal(w) == FALSE

\* A login page with other choices always offers the local one, first.
HasLocal(w) == \E n \in DOMAIN w.choices : w.choices[n] = Local
WebSSODefaults(w) == w.enabled /\ w.choices # <<>>
defaultWebSSO(w) ==
  IF ~ WebSSODefaults(w) THEN w
  ELSE [w EXCEPT !.choices = IF HasLocal(w) THEN @ ELSE <<Local>> \o @,
                 !.initial = {Or(@, Local)}]
WebSSODefaultable(w) ==
  WebSSODefaults(w) => HasLocal(w) \/ Len(w.choices) < maxWebSSOChoices
defaultMultiDomain(m) ==
  IF m.enabled THEN [m EXCEPT !.default = {Or(@, "Default")}] ELSE m
HorizonDefault(h) ==
  [h EXCEPT !.deployment = DeploymentDefault(@),
            !.logging = {LoggingDefault(Or(@, NoLogging))},
            !.websso = {defaultWebSSO(w) : w \in @},
            !.multiDomain = {defaultMultiDomain(m) : m \in @}]

validateExtraConfigCollision(h, owned) == h.extraConfig \intersect owned = {}
Distinct(s) == \A i, j \in DOMAIN s : s[i] = s[j] => i = j
validateWebSSO(h) ==
  \A w \in h.websso :
    /\ WebSSOSchema(w) /\ Distinct(w.choices)
    /\ \A u \in w.keystoneURL : validateURL(u)
    /\ validateExtraConfigCollision(h, {"WEBSSO_ENABLED"})
validateMultiDomain(h) ==
  \A m \in h.multiDomain :
    /\ MultiDomainSchema(m) /\ Distinct(m.choices)
    /\ validateExtraConfigCollision(h, {"OPENSTACK_KEYSTONE_MULTIDOMAIN_SUPPORT"})
validateHorizonSettings(h) ==
  /\ h.deployment.replicas >= 1 /\ ImageSchema(h.image) /\ CacheXOR(h.cache)
  /\ \A s \in h.store : SecretStoreRefSchema(s)
  /\ \A u \in h.keystoneEndpoint : validateURL(u)
  /\ Has(h.keystoneEndpoint) /\ h.secretKey # ""
  /\ h.extraConfig \intersect {"SECRET_KEY", "", "no identifier"} = {}
  /\ validateWebSSO(h) /\ validateMultiDomain(h)
validateHorizonPods(h) ==
  /\ \A l \in h.logging : LoggingSchema(l)
  /\ validateDeployment(h.deployment, classes)
validateHorizonScaling(h) ==
  /\ \A a \in h.autoscaling : validateAutoscaling(a, h.deployment)
  /\ \A n \in h.networkPolicy : NetworkPolicySchema(n)
  /\ \A g \in h.gateway : GatewaySchema(g)
HorizonValid(h) ==
  /\ validateHorizonSettings(h) /\ validateHorizonPods(h)
  /\ validateHorizonScaling(h)

-----------------------------------------------------------------------------
(* Glance's.                                                               *)

GlanceUWSGISchema(u) == UWSGISchema(u)
GlanceUWSGIDefault(u) == UWSGIDefault(u)
GlanceSchema(g) ==
  /\ DeploymentSchema(g.deployment) /\ ImageSchema(g.image)
  /\ DatabaseSchema(g.database) /\ CacheXOR(g.cache)
  /\ \A u \in g.uwsgi : GlanceUWSGISchema(u)
  /\ \A a \in g.autoscaling : AutoscalingSchema(a)
  /\ \A n \in g.networkPolicy : NetworkPolicySchema(n)
  /\ \A w \in g.gateway : GatewaySchema(w)
  /\ \A l \in g.logging : LoggingSchema(l)
GlanceDefault(g) ==
  [g EXCEPT !.deployment = DeploymentDefault(@),
            !.logging = {LoggingDefault(Or(@, NoLogging))},
            !.serviceUser = When(@, "", "glance"),
            !.uwsgi = {GlanceUWSGIDefault(u) : u \in @}]

validateEndpointURL(u) == validateURL(u)
validateGlanceBackends(g) ==
  /\ g.deployment.replicas >= 1 /\ ImageSchema(g.image)
  /\ DatabaseXOR(g.database) /\ DynamicCredentialsRequireClusterRef(g.database)
  /\ CacheXOR(g.cache) /\ \A s \in g.store : SecretStoreRefSchema(s)
  /\ Has(g.keystoneEndpoint)
  /\ \A u \in g.keystoneEndpoint \union g.publicEndpoint : validateEndpointURL(u)
GlanceDrainFits(u, d) == DrainFits(u, d)
validateGlancePods(g) ==
  /\ \A l \in g.logging : LoggingSchema(l)
  /\ \A u \in g.uwsgi : GlanceDrainFits(u, g.deployment)
validateGlanceScaling(g) ==
  /\ \A a \in g.autoscaling : validateAutoscaling(a, g.deployment)
  /\ \A n \in g.networkPolicy : NetworkPolicySchema(n)
  /\ \A w \in g.gateway : GatewaySchema(w)
  /\ "" \notin g.extraConfig
  /\ validateDeployment(g.deployment, classes)
GlanceValid(g) ==
  validateGlanceBackends(g) /\ validateGlancePods(g) /\ validateGlanceScaling(g)

-----------------------------------------------------------------------------
(* Admission.                                                              *)

Default(c) ==
  CASE c.kind = "Keystone" -> KeystoneDefault(c)
    [] c.kind = "Horizon" -> HorizonDefault(c)
    [] c.kind = "Glance" -> GlanceDefault(c)
Defaultable(c) ==
  c.kind = "Horizon" => \A w \in c.websso : WebSSODefaultable(w)
Schema(c) ==
  CASE c.kind = "Keystone" -> KeystoneSchema(c)
    [] c.kind = "Horizon" -> HorizonSchema(c)
    [] c.kind = "Glance" -> GlanceSchema(c)
Valid(c) ==
  CASE c.kind = "Keystone" -> KeystoneValid(c)
    [] c.kind = "Horizon" -> HorizonValid(c)
    [] c.kind = "Glance" -> GlanceValid(c)
Admitted(c) == Defaultable(c) /\ Schema(Default(c)) /\ Valid(Default(c))
Updatable(old, new) ==
  old.kind = "Keystone" =>
    KeystoneImmutable(old, Default(new)) /\ KeystoneBootstrapImmutable(old, Default(new))

-----------------------------------------------------------------------------
(* The objects.                                                            *)

\* What the pods of all three have in common; the rest is the container.
PodTemplate(c) ==
  [replicas |-> DeploymentReplicas(c.deployment, c.autoscaling),
   strategy |-> Strategy(c.deployment), grace |-> Grace(c.deployment),
   preStop |-> PreStop(c.deployment), resources |-> ContainerResources(c.deployment),
   spread |-> TopologySpread(c.deployment), image |-> Reference(c.image),
   selector |-> "current", containers |-> {"api"}, probes |-> {"network"},
   server |-> [bind |-> "all", harakiri |-> {}, timeout |-> {}]]

\* Behind the federation proxy uWSGI listens on the loopback address only.
uwsgiCommand(u, proxied) ==
  [bind |-> IF proxied THEN "loopback" ELSE "all",
   harakiri |-> UNION {x.harakiri : x \in u},
   timeout |-> UNION {x.timeout : x \in {y \in u : Or(y.keepAlive, TRUE)}}]

\* The kubelet cannot reach the loopback address: such probes run in the pod.
keystoneLivenessProbe(proxied) == IF proxied THEN "exec" ELSE "network"
keystoneStartupProbe(proxied) == IF proxied THEN "exec" ELSE "network"
dbReadinessProbe == "exec"
buildFederationProxyContainer == {"federation-proxy"}

buildKeystoneDeployment(c, proxied) ==
  [PodTemplate(c) EXCEPT
     !.server = uwsgiCommand(c.uwsgi, proxied),
     !.probes = {keystoneLivenessProbe(proxied), keystoneStartupProbe(proxied),
                 dbReadinessProbe},
     !.containers = @ \union IF proxied THEN buildFederationProxyContainer ELSE {}]
buildHorizonDeployment(c) == PodTemplate(c)

glanceUsesUWSGI(c) ==
  c.release[1] > 2026 \/ (c.release[1] = 2026 /\ c.release[2] >= 1)
glanceLaunchCommand(c) == uwsgiCommand(IF glanceUsesUWSGI(c) THEN c.uwsgi ELSE {}, FALSE)
buildGlanceDeployment(c) == [PodTemplate(c) EXCEPT !.server = glanceLaunchCommand(c)]

BuildDeployment(c, proxied) ==
  CASE c.kind = "Keystone" -> buildKeystoneDeployment(c, proxied)
    [] c.kind = "Horizon" -> buildHorizonDeployment(c)
    [] c.kind = "Glance" -> buildGlanceDeployment(c)
BuildService(proxied) == IF proxied THEN "federation-proxy" ELSE "api"

\* What the API server takes.
DeploymentAccepted(d) ==
  /\ d.strategy.type = "Recreate" => ~ d.strategy.rollingUpdate
  /\ \A n \in DOMAIN d.resources.requests \intersect DOMAIN d.resources.limits :
       d.resources.requests[n] <= d.resources.limits[n]
  /\ Has(d.image)
\* A request that is under way when the pod is told to stop may end by itself.
Drains(d) == \A h \in d.server.harakiri : d.preStop + h < d.grace
\* What the kubelet and the Service reach over the network listens there.
Reachable(d, target) ==
  /\ "network" \in d.probes => d.server.bind = "all"
  /\ target \in d.containers /\ (target = "api" => d.server.bind = "all")
HPAAccepted(h) == 1 <= h.min /\ h.min <= h.max /\ h.metrics # {}

NoObjects == [dep |-> {}, svc |-> {}, pdb |-> {}, hpa |-> {}]

IdlePass == [pc |-> "idle", seen |-> {}, cr |-> {}, proxied |-> FALSE]

SvcInit ==
  /\ cr = {} /\ classes = Classes /\ federated = FALSE /\ requests = 0
  /\ live = NoObjects /\ pass = IdlePass

Requested == requests < MaxEdits /\ requests' = requests + 1

Create ==
  /\ Requested /\ cr = {}
  /\ \E d \in Drafts : Admitted(d) /\ cr' = {Default(d)}
  /\ UNCHANGED <<classes, live, pass, federated>>

Edit ==
  /\ Requested
  /\ \E old \in cr : \E f \in DOMAIN Blocks[old.kind] : \E v \in Blocks[old.kind][f] :
       LET new == [old EXCEPT ![f] = v] IN
       /\ Admitted(new) /\ Updatable(old, new) /\ Default(new) # old
       /\ cr' = {Default(new)}
  /\ UNCHANGED <<classes, live, pass, federated>>

Federate ==
  /\ Requested /\ \E c \in cr : c.kind = "Keystone"
  /\ federated' = ~ federated
  /\ UNCHANGED <<cr, classes, live, pass>>

DropClass ==
  /\ Requested /\ \E p \in classes : classes' = classes \ {p}
  /\ UNCHANGED <<cr, live, pass, federated>>

\* The autoscaler moves the count within its bounds.
Autoscale ==
  /\ \E h \in live.hpa, d \in live.dep, n \in 1 .. MaxPods :
       /\ h.min <= n /\ n <= h.max /\ {n} # d.replicas
       /\ live' = [live EXCEPT !.dep = {[d EXCEPT !.replicas = {n}]}]
  /\ UNCHANGED <<cr, classes, pass, federated, requests>>

EnsureRead ==
  /\ pass.pc = "idle" /\ Has(cr)
  /\ pass' = [pc |-> "deployment", seen |-> live.dep, cr |-> cr, proxied |-> federated]
  /\ UNCHANGED <<cr, classes, live, federated, requests>>

\* A Deployment with another selector is deleted and made anew by a later pass.
EnsureDeployment ==
  /\ pass.pc = "deployment"
  /\ \E c \in pass.cr :
       LET desired == BuildDeployment(c, pass.proxied)
           seen == UNION {d.replicas : d \in pass.seen}
           n == {ReplicasToApply(desired.replicas, seen)} IN
       IF \E d \in pass.seen : d.selector # desired.selector
       THEN live' = [live EXCEPT !.dep = {}] /\ pass' = IdlePass
       ELSE /\ DeploymentAccepted(desired)
            /\ live' = [live EXCEPT !.dep = {[desired EXCEPT !.replicas = n]}]
            /\ pass' = [pass EXCEPT !.pc = "rest"]
  /\ UNCHANGED <<cr, classes, federated, requests>>

EnsureServiceAndPDB ==
  /\ pass.pc = "rest"
  /\ \E c \in pass.cr :
       live' = [live EXCEPT !.svc = {BuildService(pass.proxied)},
                            !.pdb = {BuildPDB(c.deployment)}]
  /\ pass' = [pass EXCEPT !.pc = "hpa"]
  /\ UNCHANGED <<cr, classes, federated, requests>>

\* Mutant: an autoscaler that is no longer wanted is left behind.
EnsureHPAOnly ==
  /\ pass.pc = "hpa"
  /\ \E c \in pass.cr :
       LET desired == {BuildHPA(c.deployment, a) : a \in c.autoscaling} IN
       live' = [live EXCEPT !.hpa = IF desired = {} THEN @ ELSE desired]
  /\ pass' = IdlePass
  /\ UNCHANGED <<cr, classes, federated, requests>>

EnsureHPA ==
  /\ pass.pc = "hpa"
  /\ \E c \in pass.cr :
       LET desired == {BuildHPA(c.deployment, a) : a \in c.autoscaling} IN
       /\ \A h \in desired : HPAAccepted(h)
       /\ live' = [live EXCEPT !.hpa = desired]
  /\ pass' = IdlePass
  /\ UNCHANGED <<cr, classes, federated, requests>>

SvcOperator == EnsureRead \/ EnsureDeployment \/ EnsureServiceAndPDB \/ EnsureHPA
SvcNext ==
  Create \/ Edit \/ Federate \/ DropClass \/ Autoscale \/ SvcOperator
SvcSpec == SvcInit /\ [][SvcNext]_svcVars

-----------------------------------------------------------------------------
SvcTypeOK ==
  /\ \A c \in cr : c.kind \in {"Keystone", "Horizon", "Glance"}
  /\ classes \subseteq Classes
  /\ pass.pc \in {"idle", "deployment", "rest", "hpa"}
  /\ requests \in 0 .. MaxEdits /\ federated \in BOOLEAN

\* A spec that was admitted never builds an object that the API server
\* refuses, which would leave the step failing for ever
\* (keystone_webhook.go:654, :692), nor a pod that is killed in the middle of
\* a request (:638), nor one whose API the probes or the Service cannot reach
\* (reconcile_deployment.go:340).
AdmittedBuilds ==
  \A c \in pass.cr : LET d == BuildDeployment(c, pass.proxied) IN
    /\ DeploymentAccepted(d) /\ Drains(d)
    /\ Reachable(d, BuildService(pass.proxied))
    /\ \A a \in c.autoscaling : HPAAccepted(BuildHPA(c.deployment, a))

\* What is stored is admitted again unchanged, so that an update of its
\* metadata (the operator removing its finalizer) is refused for one reason
\* only: a PriorityClass that was removed after it was named.
StoredReadmits ==
  \A c \in cr :
    /\ Default(c) = c /\ Schema(c)
    /\ PriorityClassExists(c.deployment, classes) => Valid(c)

\* Once users and backends rest, the objects are what the stored spec asks
\* for, and the count is left to the autoscaler where there is one.
Built ==
  \A c \in cr :
    /\ \A d \in live.dep :
         /\ [d EXCEPT !.replicas = {}] = [BuildDeployment(c, federated) EXCEPT !.replicas = {}]
         /\ ~ Has(c.autoscaling) => d.replicas = {EffectiveReplicas(c.deployment)}
    /\ Has(live.dep) /\ live.svc = {BuildService(federated)}
    /\ live.pdb = {BuildPDB(c.deployment)}
    /\ live.hpa = {BuildHPA(c.deployment, a) : a \in c.autoscaling}
ServiceSettles == <>[] Built

\* The comment of BuildPDB (builders.go:58-60) wants evictions to stay possible
\* however few pods there are: at any count that the autoscaler allows, one
\* pod may be evicted.
DrainNeverBlocked ==
  \A h \in live.hpa, d \in live.dep, p \in live.pdb :
    pass.pc = "idle" => \A n \in d.replicas, m \in p.minAvailable :
                          n >= h.min => n > m
=============================================================================
