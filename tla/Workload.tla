------------------------------- MODULE Workload -------------------------------
(***************************************************************************)
(* The parts of a service CR that every operator of the repository shares  *)
(* (internal/common/types), what the CRD schema admits of them, what the   *)
(* webhooks check of them (internal/common/validation) and the objects     *)
(* built from them (internal/common/deployment).                           *)
(*                                                                         *)
(* An optional field is the empty set or the set of its value.  A quantity *)
(* is a number; a name, a label set or a schedule is a member of a small   *)
(* set; a URL is its scheme and its host.  XSchema(x) is what the CRD      *)
(* admits of a value of type X: markers and CEL rules.                     *)
(***************************************************************************)
EXTENDS Integers, FiniteSets

Has(o) == o # {}
Or(o, default) == IF Has(o) THEN CHOOSE v \in o : TRUE ELSE default
When(x, zero, default) == IF x = zero THEN default ELSE x

-----------------------------------------------------------------------------
(* Deployment.                                                             *)

DefaultTerminationGracePeriodSeconds == 30
DefaultPreStopSleepSeconds == 5
DefaultReplicas == 3
DefaultResources == [requests |-> [memory |-> 256, cpu |-> 100],
                     limits |-> [memory |-> 512, cpu |-> 500]]

Grace(d) == Or(d.grace, DefaultTerminationGracePeriodSeconds)
PreStop(d) == Or(d.preStop, DefaultPreStopSleepSeconds)

DeploymentSchema(d) ==
  /\ d.replicas >= 1
  /\ \A g \in d.grace : g >= 10
  /\ \A p \in d.preStop : p >= 0
  /\ PreStop(d) < Grace(d)

DeploymentDefault(d) ==
  [d EXCEPT !.replicas = When(@, 0, DefaultReplicas),
            !.resources = IF \A r \in @ : DOMAIN r.requests = {} /\ DOMAIN r.limits = {}
                          THEN {DefaultResources} ELSE @]

RequestsWithinLimits(d) ==
  \A r \in d.resources : \A n \in DOMAIN r.requests \intersect DOMAIN r.limits :
    r.requests[n] <= r.limits[n]

\* Every custom constraint selects exactly the pods of the Deployment.
TopologySpreadSelector(d) ==
  \A constraints \in d.spread : constraints \subseteq {"own pods"}
PriorityClassExists(d, classes) ==
  \A p \in d.priority : p # "" => p \in classes

StrategyConsistent(d) ==
  \A s \in d.strategy : s.type = "Recreate" => ~ s.rollingUpdate

validateDeployment(d, classes) ==
  /\ DeploymentSchema(d) /\ StrategyConsistent(d)
  /\ RequestsWithinLimits(d) /\ PriorityClassExists(d, classes)
  /\ TopologySpreadSelector(d)

-----------------------------------------------------------------------------
(* Autoscaling, NetworkPolicy, logging, gateway, image.                    *)

Percentages == 1 .. 100
AutoscalingSchema(a) ==
  /\ a.max >= 1
  /\ \A m \in a.min : m >= 1 /\ m <= a.max
  /\ a.cpu \union a.memory \subseteq Percentages
  /\ Has(a.cpu) \/ Has(a.memory)

\* Unset, the lower bound is the replica count.
validateAutoscaling(a, d) ==
  AutoscalingSchema(a) /\ (Has(a.min) \/ d.replicas <= a.max)

NetworkPolicySchema(sources) == sources > 0

Levels == {"DEBUG", "INFO", "WARNING", "ERROR", "CRITICAL"}
LoggingSchema(l) ==
  /\ l.format \in {"", "text", "json"} /\ l.level \in Levels \union {""}
  /\ \A name \in DOMAIN l.loggers : name # "" /\ l.loggers[name] \in Levels
LoggingDefault(l) ==
  [l EXCEPT !.format = When(@, "", "text"), !.level = When(@, "", "INFO"),
            !.debug = {Or(@, FALSE)}]
NoLogging == [format |-> "", level |-> "", debug |-> {}, loggers |-> <<>>]

ImageSchema(i) == Has(i.tag) # Has(i.digest)
Reference(i) == IF Has(i.digest) THEN i.digest ELSE i.tag

GatewaySchema(g) == g.hostname # "" /\ g.parent # ""

validateURL(u) == u.scheme \in {"http", "https"} /\ u.host # ""

-----------------------------------------------------------------------------
(* Backing services and their credentials.                                 *)

DatabaseXOR(db) == Has(db.clusterRef) # Has(db.host)
DynamicCredentialsRequireClusterRef(db) ==
  db.mode = "Dynamic" => Has(db.clusterRef)
DatabaseSchema(db) ==
  /\ DatabaseXOR(db) /\ DynamicCredentialsRequireClusterRef(db)
  /\ db.mode \in {"", "Static", "Dynamic"} /\ db.database # ""
  /\ db.secretRef # ""

TLSEnabled(tls) == tls.mode \notin {"", "disabled"}
DatabaseTLSSchema(tls) ==
  /\ tls.mode \in {"", "disabled", "prefer", "require", "verify-ca", "verify-full"}
  /\ TLSEnabled(tls) => tls.caBundle # "" /\ tls.clientCert # ""

CacheXOR(c) == Has(c.clusterRef) # (c.servers # {})

SecretStoreRefSchema(ref) ==
  ref.name # "" /\ ref.kind \in {"", "ClusterSecretStore", "SecretStore"}

PolicySchema(p) ==
  \A rule \in DOMAIN p.rules : rule # "" /\ p.rules[rule] # ""

-----------------------------------------------------------------------------
(* The objects.  A Deployment whose replica count is left to an autoscaler *)
(* is created with one replica and keeps the count it has.                 *)

EffectiveReplicas(d) == When(d.replicas, 0, DefaultReplicas)
DeploymentReplicas(d, autoscaling) ==
  IF Has(autoscaling) THEN {} ELSE {EffectiveReplicas(d)}

DefaultStrategy == [type |-> "RollingUpdate", rollingUpdate |-> TRUE]
Strategy(d) == Or(d.strategy, DefaultStrategy)
ContainerResources(d) ==
  Or(d.resources, [requests |-> <<>>, limits |-> <<>>])
TopologySpread(d) == Or(d.spread, {"own pods"})

BuildPDB(d) ==
  IF EffectiveReplicas(d) > 1 THEN [minAvailable |-> {1}, maxUnavailable |-> {}]
  ELSE [minAvailable |-> {}, maxUnavailable |-> {1}]

BuildHPA(d, a) ==
  [min |-> Or(a.min, EffectiveReplicas(d)), max |-> a.max,
   metrics |-> a.cpu \union a.memory]

ReplicasToApply(desired, live) == Or(desired, Or(live, 1))
=============================================================================
