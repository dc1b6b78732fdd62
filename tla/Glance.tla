-------------------------------- MODULE Glance --------------------------------
(***************************************************************************)
(* One Glance and the S3 backends attached to it                           *)
(* (operators/glance/internal/controller).  The backend controller gates   *)
(* each backend on its credentials Secret and reports whether the          *)
(* Deployment carries its store; the Glance controller renders the ready   *)
(* backends into an immutable Secret and the rest of the configuration     *)
(* into an immutable ConfigMap, migrates the schema with a Job that mounts *)
(* the ConfigMap, and then rolls the Deployment.  Either controller runs   *)
(* only when an event or a poll woke it, and users, the kubelet and other  *)
(* operators may act between any two steps of a pass.                      *)
(*                                                                         *)
(* Abstracted: an immutable object is its content, created in the order of *)
(* its sequence (creation times have one second's resolution); releases    *)
(* are numbered in the order of sequential upgrades, a patch level being   *)
(* the same release; DBConnectionSecret reads again what Secrets just      *)
(* read, and is part of that step; a backend's pass is one step, since it  *)
(* writes nothing but its own status; events of a CR reach the queue with  *)
(* the change.                                                             *)
(***************************************************************************)
EXTENDS ReconcileFlow

CONSTANTS
  Backends,     \* GlanceBackend CRs of this Glance
  First,        \* the one that is the default store at first
  Releases,     \* numbers of the releases spec.openStackRelease may name
  Confs,        \* values of the rest of the spec that reaches glance-api.conf
  NoConf,       \* none of them
  Exposed,      \* spec.gateway is set
  Policed,      \* spec.networkPolicy is set
  Retain,       \* defaultConfigMapRetainCount
  MaxChanges,   \* bound: changes by users and other operators
  MaxFaults     \* bound: failing API calls, failing Jobs, dying operators

ASSUME GlanceAssumption ==
  /\ First \in Backends /\ "glance" \notin Backends
  /\ Releases \subseteq Nat \ {0} /\ NoConf \notin Confs
  /\ Exposed \in BOOLEAN /\ Policed \in BOOLEAN
  /\ Retain \in Nat /\ MaxChanges \in Nat /\ MaxFaults \in Nat

VARIABLES
  cr,        \* the Glance: life, finalizer, generation, release and conf
  status,    \* its status
  backend,   \* the backends: attached, default, Secret, conditions
  configs,   \* the immutable ConfigMaps, oldest first
  sections,  \* the immutable backends Secrets, oldest first
  dep,       \* the Deployment: what its template mounts and whether it serves
  job,       \* the db-sync Job
  schema,    \* the newest release the database was migrated to, 0 for none
  mariadb,   \* the MariaDB Database, User and Grant CRs
  outside,   \* upstream credentials, the gateway's verdict, the API's answer
  pass,      \* the Glance pass under way
  woken,     \* the keys queued, or to be queued after a delay
  changes,
  faults

vars == <<cr, status, backend, configs, sections, dep, job, schema, mariadb,
          outside, pass, woken, changes, faults>>
objects == <<configs, sections, dep, job, schema, mariadb>>
bounds == <<changes, faults>>

Parent == "glance"
Keys == Backends \union {Parent}
subConditionTypes ==
  {"Secrets", "Backends", "Database", "Deployment",
   "HTTPRoute", "API", "HPA", "NetworkPolicy"}
Types == subConditionTypes \union {"Ready"}
Gens == 1 .. MaxChanges + 1

NoConfig == [on |-> {}, default |-> {}, conf |-> NoConf]
ConfigMaps == [on : SUBSET Backends, default : SUBSET Backends,
               conf : Confs] \union {NoConfig}
NoDep == [cm |-> NoConfig, sec |-> {}, rel |-> 0, observed |-> FALSE]
NoJob == [cm |-> NoConfig, rel |-> 0, st |-> "none"]
NoProjection == [valid |-> FALSE, on |-> {}, default |-> {}]
NoArt == [cm |-> NoConfig, sec |-> {}]
Fresh == [conds |-> [t \in Types |-> Unset], pending |-> {}, endpoint |-> FALSE,
          installed |-> 0]
Idle == [pc |-> "idle", hand |-> 0, rel |-> 0, conf |-> NoConf, work |-> Fresh,
         proj |-> NoProjection, art |-> NoArt]

TypeOK ==
  /\ cr \in [st : {"live", "deleting", "gone"}, fin : BOOLEAN, gen : Gens,
             rel : Releases, conf : Confs]
  /\ status \in [conds : Conditions(Types, Gens), pending : SUBSET Backends,
                 endpoint : BOOLEAN, installed : Releases \union {0}]
  /\ backend \in [Backends -> [here : BOOLEAN, default : BOOLEAN,
                               secret : BOOLEAN, cred : BOOLEAN, proj : BOOLEAN]]
  /\ configs \in Seq(ConfigMaps) /\ sections \in Seq(SUBSET Backends)
  /\ dep.cm \in ConfigMaps /\ dep.sec \subseteq Backends
  /\ dep.rel \in Releases \union {0}
  /\ job.cm \in ConfigMaps /\ job.rel \in Releases \union {0}
  /\ job.st \in {"none", "pending", "running", "complete", "failed"}
  /\ schema \in Releases \union {0}
  /\ mariadb \in {"none", "made", "ready"}
  /\ outside \in [creds : BOOLEAN, accepted : BOOLEAN, answers : BOOLEAN]
  /\ pass.pc \in {"idle", "secrets", "backends", "config", "database",
                  "deployment", "group"}
  /\ woken \subseteq Keys
  /\ changes \in 0 .. MaxChanges /\ faults \in 0 .. MaxFaults

InitWith(c, f) ==
  /\ cr \in {[st |-> "live", fin |-> FALSE, gen |-> 1, rel |-> r, conf |-> k] :
             r \in Releases, k \in Confs}
  /\ status = Fresh
  /\ backend = [b \in Backends |-> [here |-> TRUE, default |-> b = First,
                 secret |-> TRUE, cred |-> FALSE, proj |-> FALSE]]
  /\ configs = <<>> /\ sections = <<>>
  /\ dep = NoDep /\ job = NoJob /\ schema = 0 /\ mariadb = "none"
  /\ outside = [creds |-> TRUE, accepted |-> TRUE, answers |-> TRUE]
  /\ pass = Idle /\ woken = Keys
  /\ changes = c /\ faults = f
Init == InitWith(0, 0)

-----------------------------------------------------------------------------
(* Users and the other operators, and whom their changes wake.  A backend's *)
(* Secret wakes only the Glance, and the API's health is no object of the   *)
(* cluster: nothing is woken by it.                                         *)

Attached == {b \in Backends : backend[b].here}
glanceToGlanceBackends == Attached
glanceBackendToGlance == {Parent}
secretToGlanceWithBackends(b) == {p \in {Parent} : b \in Attached}
storeToGlance(what) == {p \in {Parent} : what # "answers"}

Changed == changes < MaxChanges /\ changes' = changes + 1

EditGlance ==
  /\ Changed /\ cr.st = "live"
  /\ \E r \in Releases, c \in Confs :
       /\ <<r, c>> # <<cr.rel, cr.conf>>
       /\ cr' = [cr EXCEPT !.rel = r, !.conf = c, !.gen = @ + 1]
  /\ woken' = woken \union {Parent} \union glanceToGlanceBackends
  /\ UNCHANGED <<status, backend, objects, outside, pass, faults>>

DeleteGlance ==
  /\ Changed /\ cr.st = "live"
  /\ cr' = [cr EXCEPT !.st = IF cr.fin THEN "deleting" ELSE "gone"]
  /\ woken' = woken \union {Parent} \union glanceToGlanceBackends
  /\ UNCHANGED <<status, backend, objects, outside, pass, faults>>

\* Attaching creates the CR anew; there is no finalizer to hold a detached one.
AttachBackend(b) ==
  /\ Changed
  /\ backend' = [backend EXCEPT ![b].here = ~ @, ![b].cred = FALSE,
                                ![b].proj = FALSE]
  /\ woken' = woken \union {b} \union glanceBackendToGlance
  /\ UNCHANGED <<cr, status, objects, outside, pass, faults>>

ChangeDefault(b) ==
  /\ Changed /\ backend[b].here
  /\ backend' = [backend EXCEPT ![b].default = ~ @]
  /\ woken' = woken \union {b} \union glanceBackendToGlance
  /\ UNCHANGED <<cr, status, objects, outside, pass, faults>>

ChangeSecret(b) ==
  /\ Changed
  /\ backend' = [backend EXCEPT ![b].secret = ~ @]
  /\ woken' = woken \union secretToGlanceWithBackends(b)
  /\ UNCHANGED <<cr, status, objects, outside, pass, faults>>

ChangeOutside(what) ==
  /\ Changed
  /\ outside' = [outside EXCEPT ![what] = ~ @]
  /\ woken' = woken \union storeToGlance(what)
  /\ UNCHANGED <<cr, status, backend, objects, pass, faults>>

Users ==
  \/ EditGlance \/ DeleteGlance
  \/ \E b \in Backends : AttachBackend(b) \/ ChangeDefault(b) \/ ChangeSecret(b)
  \/ \E what \in {"creds", "accepted", "answers"} : ChangeOutside(what)

-----------------------------------------------------------------------------
(* The kubelet, the Deployment controller and the MariaDB operator.  A pod  *)
(* starts only while what it mounts exists.                                 *)

Mounts(objs, o) == \E i \in DOMAIN objs : objs[i] = o

JobStarts ==
  /\ job.st = "pending" /\ Mounts(configs, job.cm)
  /\ job' = [job EXCEPT !.st = "running"]
  /\ UNCHANGED <<cr, status, backend, configs, sections, dep, schema, mariadb,
                 outside, pass, woken, bounds>>

JobEnds ==
  /\ job.st = "running"
  /\ \/ /\ job' = [job EXCEPT !.st = "complete"]
        /\ schema' = IF job.rel > schema THEN job.rel ELSE schema
        /\ UNCHANGED faults
     \/ /\ faults < MaxFaults /\ faults' = faults + 1
        /\ job' = [job EXCEPT !.st = "failed"]
        /\ UNCHANGED schema
  /\ woken' = woken \union {Parent}
  /\ UNCHANGED <<cr, status, backend, configs, sections, dep, mariadb, outside,
                 pass, changes>>

DeploymentRolls ==
  /\ dep # NoDep /\ ~ dep.observed
  /\ Mounts(configs, dep.cm) /\ Mounts(sections, dep.sec)
  /\ dep' = [dep EXCEPT !.observed = TRUE]
  /\ woken' = woken \union {Parent}
  /\ UNCHANGED <<cr, status, backend, configs, sections, job, schema, mariadb,
                 outside, pass, bounds>>

\* Its CRs are neither owned nor watched for readiness: the Glance polls.
MariaDBReady ==
  /\ mariadb = "made" /\ mariadb' = "ready"
  /\ UNCHANGED <<cr, status, backend, configs, sections, dep, job, schema,
                 outside, pass, woken, bounds>>

Cluster == JobStarts \/ JobEnds \/ DeploymentRolls \/ MariaDBReady

-----------------------------------------------------------------------------
(* The GlanceBackend controller.                                            *)

gateCredentials(b) == backend[b].secret

backendSectionPresent(secret, b) == b \in secret

isConfigProjected(b) ==
  /\ cr.st # "gone" /\ dep # NoDep
  /\ Mounts(sections, dep.sec) /\ backendSectionPresent(dep.sec, b)

\* Nothing is observed while the credentials are missing, and a pass that
\* found nothing wrong asks for no other.
reconcileNormal(b) ==
  IF ~ gateCredentials(b)
  THEN [cred |-> FALSE, proj |-> backend[b].proj, poll |-> TRUE]
  ELSE [cred |-> TRUE, proj |-> isConfigProjected(b),
        poll |-> ~ isConfigProjected(b)]

ReconcileBackend(b) ==
  /\ b \in woken
  /\ IF ~ backend[b].here
     THEN woken' = woken \ {b} /\ UNCHANGED backend
     ELSE LET r == reconcileNormal(b) IN
          /\ backend' = [backend EXCEPT ![b].cred = r.cred, ![b].proj = r.proj]
          /\ woken' = (woken \ {k \in {b} : ~ r.poll}) \union
                      (IF backend' # backend THEN glanceBackendToGlance
                       ELSE {})
  /\ UNCHANGED <<cr, status, objects, outside, pass, bounds>>

-----------------------------------------------------------------------------
(* The Glance controller: the steps of one pass, each at its pc.            *)

At(pc) == pass.pc = pc
work == pass.work
Set(type, st) == [work EXCEPT !.conds = SetCondition(@, type, st, pass.hand)]

\* The status is written if the pass changed it, and only over the CR that the
\* pass read; a refused write is an error, and an error comes back.
updateStatus(w, again) ==
  LET new == [w EXCEPT !.conds = SetAggregateReady(@, pass.hand, subConditionTypes)]
      refused == new # status /\ (cr.gen # pass.hand \/ cr.st # "live") IN
  /\ status' = IF refused THEN status ELSE new
  /\ woken' = woken \union (IF refused \/ again THEN {Parent} ELSE {})
                    \union (IF status' # status THEN glanceToGlanceBackends
                                ELSE {})

\* A step hands on to the next one, or ends the chain: with an error or a
\* delay (again), or because it was the last.
Hands(next, w, proj, art) ==
  /\ pass' = [pass EXCEPT !.pc = next, !.work = w, !.proj = proj, !.art = art]
  /\ UNCHANGED <<status, woken>>
Goes(next, w) == Hands(next, w, pass.proj, pass.art)
Ends(w, again) == pass' = Idle /\ updateStatus(w, again)

Reconcile ==
  /\ At("idle") /\ Parent \in woken /\ cr.st = "live"
  /\ IF ~ cr.fin
     THEN /\ cr' = [cr EXCEPT !.fin = TRUE]
          /\ woken' = woken \union glanceToGlanceBackends
          /\ UNCHANGED pass
     ELSE /\ pass' = [Idle EXCEPT !.pc = "secrets", !.hand = cr.gen, !.rel = cr.rel,
                                  !.conf = cr.conf, !.work = status]
          /\ woken' = woken \ {Parent}
          /\ UNCHANGED cr
  /\ UNCHANGED <<status, backend, objects, outside, bounds>>

HasLiveResources == mariadb # "none"
\* Mutant: nothing is told to go before the finalizer is released.
KeepResources == mariadb
FinalizeResources == "none"

\* What is live is looked at before anything is deleted, and costs one more
\* pass; a deletion that fails half-way is repeated.
reconcileDelete ==
  /\ At("idle") /\ Parent \in woken /\ cr.st # "live"
  /\ IF cr.st = "gone" THEN woken' = woken \ {Parent} /\ UNCHANGED <<cr, mariadb>>
     ELSE /\ mariadb' = FinalizeResources /\ UNCHANGED woken
          /\ cr' = IF HasLiveResources THEN cr
                   ELSE [cr EXCEPT !.st = "gone", !.fin = FALSE]
  /\ UNCHANGED <<status, backend, configs, sections, dep, job, schema, outside,
                 pass, bounds>>

reconcileSecrets ==
  /\ At("secrets")
  /\ IF outside.creds THEN Goes("backends", Set("Secrets", "True"))
     ELSE Ends(Set("Secrets", "False"), TRUE)
  /\ UNCHANGED <<cr, backend, objects, outside, bounds>>

\* A backend is eligible by its own reported condition, and rendered from its
\* Secret: the two may disagree.
\* Mutant: a backend is gated on Ready, which waits for its projection.
fullyReady(b) == backend[b].cred /\ backend[b].proj
credentialsReady(b) == backend[b].cred
renderStoreSection(b) == backend[b].secret

Credible == {b \in Attached : credentialsReady(b)}
DefaultCandidates == {b \in Credible : backend[b].default}
Rendered == {b \in Credible : renderStoreSection(b)}

reconcileBackends ==
  /\ At("backends")
  /\ IF ~ \E d \in Backends : DefaultCandidates = {d}
     THEN /\ Goes("config", [Set("Backends", "False") EXCEPT
                               !.pending = DefaultCandidates])
          /\ UNCHANGED sections
     ELSE /\ sections' = PruneImmutable(CreateImmutable(sections, Rendered),
                                        Rendered, Retain)
          /\ Hands("config",
                   [Set("Backends", IF Rendered = Attached THEN "True" ELSE "False")
                      EXCEPT !.pending = Attached \ Rendered],
                   [valid |-> TRUE, on |-> Rendered, default |-> DefaultCandidates],
                   NoArt)
  /\ UNCHANGED <<cr, backend, configs, dep, job, schema, mariadb, outside,
                 bounds>>

\* With no valid projection the names the Deployment mounts are kept, both.
\* Mutant: only the ConfigMap's name is recovered.
lastGoodConfigOnly == [cm |-> dep.cm, sec |-> {}]
lastGoodArtifacts == [cm |-> dep.cm, sec |-> dep.sec]

reconcileConfig ==
  /\ At("config")
  /\ LET cm == [on |-> pass.proj.on, default |-> pass.proj.default,
                conf |-> pass.conf] IN
     IF pass.proj.valid
     THEN /\ configs' = PruneImmutable(CreateImmutable(configs, cm), cm, Retain)
          /\ Hands("database", work, pass.proj, [cm |-> cm, sec |-> pass.proj.on])
     ELSE /\ Hands("database", work, pass.proj, lastGoodArtifacts)
          /\ UNCHANGED configs
  /\ UNCHANGED <<cr, backend, sections, dep, job, schema, mariadb, outside,
                 bounds>>

IsAllowedTransition(from, to) == from = 0 \/ to \in {from, from + 1}

glanceJob == [cm |-> pass.art.cm, rel |-> pass.rel]
JobIsCurrent == [cm |-> job.cm, rel |-> job.rel] = glanceJob

\* RunJob: a finished Job of another template is replaced, an unfinished one
\* is waited for.
RunJob ==
  IF job.st = "none" \/ (job.st \in {"complete", "failed"} /\ ~ JobIsCurrent)
  THEN job' = [cm |-> pass.art.cm, rel |-> pass.rel, st |-> "pending"]
  ELSE UNCHANGED job
\* Mutant: any finished Job will do.
AnyJobDone == job.st = "complete"
JobDone == job.st = "complete" /\ JobIsCurrent
JobFailed == job.st = "failed" /\ JobIsCurrent

reconcileDatabase ==
  /\ At("database")
  /\ IF mariadb # "ready"
     THEN /\ Ends(Set("Database", "False"), TRUE)
          /\ mariadb' = IF mariadb = "none" THEN "made" ELSE mariadb
          /\ UNCHANGED job
     ELSE /\ IF \/ ~ IsAllowedTransition(work.installed, pass.rel)
                \/ pass.art.cm = NoConfig
             THEN Ends(Set("Database", "False"), TRUE) /\ UNCHANGED job
             ELSE /\ RunJob
                  /\ IF JobFailed \/ ~ JobDone
                     THEN Ends(Set("Database", "False"), TRUE)
                     ELSE Goes("deployment", [Set("Database", "True") EXCEPT
                                                !.installed = pass.rel])
          /\ UNCHANGED mariadb
  /\ UNCHANGED <<cr, backend, configs, sections, dep, schema, outside,
                 bounds>>

buildGlanceDeployment ==
  [cm |-> pass.art.cm, sec |-> pass.art.sec, rel |-> pass.rel]
\* Mutant: what was applied is taken to be what runs.
IsDeploymentApplied ==
  buildGlanceDeployment = [cm |-> dep.cm, sec |-> dep.sec, rel |-> dep.rel]
IsDeploymentReady ==
  dep.observed /\ buildGlanceDeployment =
                  [cm |-> dep.cm, sec |-> dep.sec, rel |-> dep.rel]

reconcileDeployment ==
  /\ At("deployment")
  /\ IF pass.art.cm = NoConfig
     THEN Goes("group", Set("Deployment", "False")) /\ UNCHANGED dep
     ELSE IF IsDeploymentReady
     THEN /\ Goes("group", [Set("Deployment", "True") EXCEPT !.endpoint = TRUE])
          /\ UNCHANGED dep
     ELSE /\ Ends(Set("Deployment", "False"), TRUE)
          /\ dep' = [cm |-> pass.art.cm, sec |-> pass.art.sec, rel |-> pass.rel,
                     observed |-> FALSE]
  /\ UNCHANGED <<cr, backend, configs, sections, job, schema, mariadb,
                 outside, bounds>>

reconcileHTTPRoute ==
  ReconcileHTTPRoute(TRUE, Exposed, outside.accepted, pass.hand)
reconcileHealthCheck(fresh) ==
  ReconcileProbe(work.endpoint, work.conds["API"], fresh, outside.answers, pass.hand)
reconcileHPA == ReconcileHPA(pass.hand)
reconcileNetworkPolicy ==
  ReconcileNetworkPolicy(Policed, 1, work.conds["NetworkPolicy"], pass.hand)

\* The members of the group, each on the condition it owns; `down' fail.
LeafOutcomes(fresh, down) ==
  LET leaf == [HTTPRoute |-> reconcileHTTPRoute,
               API |-> reconcileHealthCheck(fresh),
               HPA |-> reconcileHPA,
               NetworkPolicy |-> reconcileNetworkPolicy]
  IN [t \in DOMAIN leaf |-> IF t \in down THEN Failed(work.conds[t]) ELSE leaf[t]]

reconcileParallelGroup ==
  /\ At("group")
  /\ \E fresh \in BOOLEAN, down \in {{}, {"HTTPRoute"}, {"HTTPRoute", "API"}} :
       LET out == LeafOutcomes(fresh, down) IN
       /\ IF down = {} THEN UNCHANGED faults
          ELSE faults < MaxFaults /\ faults' = faults + 1
       /\ Ends([work EXCEPT !.conds = MergeGroup(@, out)],
               GroupFails(out) \/ GroupDelay(out) # 0)
  /\ UNCHANGED <<cr, backend, objects, outside, changes>>

markConfigFailed == Set("Secrets", "False")

\* A failing call ends the chain at any step; a failure in Config also takes
\* back SecretsReady, the others leave every condition as it was.
StepFails ==
  /\ pass.pc \in {"secrets", "backends", "config", "database", "deployment"}
  /\ faults < MaxFaults /\ faults' = faults + 1
  /\ Ends(IF At("config") /\ pass.proj.valid THEN markConfigFailed ELSE work, TRUE)
  /\ UNCHANGED <<cr, backend, objects, outside, changes>>

\* The process dies: what was under way is lost, and every key is listed anew.
Crash ==
  /\ faults < MaxFaults /\ faults' = faults + 1
  /\ pass' = Idle /\ woken' = Keys
  /\ UNCHANGED <<cr, status, backend, objects, outside, changes>>

Controller ==
  \/ Reconcile \/ reconcileDelete \/ reconcileSecrets \/ reconcileBackends
  \/ reconcileConfig \/ reconcileDatabase \/ reconcileDeployment
  \/ reconcileParallelGroup

Next ==
  \/ Users \/ Cluster \/ Controller \/ StepFails \/ Crash
  \/ \E b \in Backends : ReconcileBackend(b)

Spec == Init /\ [][Next]_vars

Fairness ==
  /\ WF_vars(Controller) /\ WF_vars(JobStarts) /\ WF_vars(JobEnds)
  /\ WF_vars(DeploymentRolls) /\ WF_vars(MariaDBReady)
  /\ \A b \in Backends : WF_vars(ReconcileBackend(b))

FairSpec == Spec /\ Fairness

-----------------------------------------------------------------------------
(* Properties.                                                              *)

\* The ConfigMap and the Secret a Deployment mounts are of one rendering: the
\* stores glance-api is told to enable are those that have a section, whatever
\* backends came and went and whichever names were kept from an older pass.
EnabledHaveSections == dep # NoDep => dep.cm.on = dep.sec

\* The workload never runs a release before its migration succeeded
\* (reconcileDatabase stops the chain, rejectReleaseTransition says why).
WorkloadIsMigrated == dep.rel <= schema

\* A store that the workload serves as the default one is among the stores it
\* enables ("a valid default exists", conditionReasonWaitingForBackends).
DefaultIsEnabled == dep # NoDep => dep.cm.default \subseteq dep.cm.on

\* A workload is never taken to an older release.
NeverDowngraded == [][dep'.rel >= dep.rel]_dep

\* Ready at the CR's generation, after a pass that nothing failed in, means
\* the children carry that generation's spec: the Deployment its release and
\* configuration, the database that release, and no condition is older.
Settled == At("idle") /\ Parent \notin woken /\ cr.st = "live" /\ cr.fin
ReadyIsConverged ==
  Settled /\ status.conds["Ready"] = Condition("True", cr.gen) =>
    /\ dep.rel = cr.rel /\ dep.cm.conf = cr.conf /\ dep.observed
    /\ status.installed = cr.rel /\ schema >= cr.rel
    /\ \A t \in subConditionTypes : status.conds[t] = Condition("True", cr.gen)

\* A deleted Glance goes, and its MariaDB CRs were told to go before, whatever
\* a pass, a crash or the provisioning left half done.
TeardownEnds == cr.st = "deleting" ~> cr.st = "gone" /\ mariadb = "none"

\* Once users, stores and upstreams stay well, Glance and all its backends
\* become Ready for good; in particular no controller waits for the other.
Healthy ==
  /\ cr.st = "live" /\ outside.creds /\ outside.answers
  /\ Exposed => outside.accepted
  /\ \A b \in Attached : backend[b].secret
  /\ \E d \in Attached : {b \in Attached : backend[b].default} = {d}
  /\ job.st # "failed" /\ (schema = 0 \/ cr.rel \in {schema, schema + 1})
Converged ==
  /\ status.conds["Ready"] = Condition("True", cr.gen)
  /\ dep.sec = Attached /\ dep.rel = cr.rel
  /\ \A b \in Attached : backend[b].cred /\ backend[b].proj
BackendsConverge == <>[](Healthy => Converged)
=============================================================================
