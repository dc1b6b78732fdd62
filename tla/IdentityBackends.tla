--------------------------- MODULE IdentityBackends ---------------------------
(***************************************************************************)
(* LDAP identity backends of one Keystone: the protocol of the two         *)
(* controllers that share the work.  The backend controller provisions the *)
(* domain through the Keystone API, is the only writer of a backend's      *)
(* status and holds its finalizer; the Keystone controller projects the    *)
(* backends whose domain is ready into the Deployment.  They only meet     *)
(* through the API server, by informers and watches: nothing runs that was *)
(* not woken, so the wake-ups are part of the state.                       *)
(*                                                                         *)
(* Abstracted: a rendered config is the set of domains it names (the       *)
(* immutable Secret holding it is created before, and pruned after, the    *)
(* Deployment that mounts it); the other steps of a Keystone pass, which   *)
(* may end it early, and its other conditions, whose changes would wake    *)
(* the backends more often; the admin password, which is always there;     *)
(* drift of a domain's description; federation backends.  The step that    *)
(* ends a pass writes the status too: nothing runs between them that       *)
(* either could tell apart.                                                *)
(***************************************************************************)
EXTENDS Integers, FiniteSets

CONSTANTS
  Backends,     \* KeystoneIdentityBackend CRs, each created at most once
  Domains,      \* domain names
  DomainOf,     \* spec.domain.name, immutable
  Managed,      \* the backends of mode Manage; the others Adopt
  Delete,       \* those of deletionPolicy Delete
  Broken,       \* those whose bind Secret is missing
  Workers,      \* --max-concurrent-reconciles
  MaxEdits,     \* bound: edits of each backend's spec or labels
  MaxAdmin,     \* bound: domains created or deleted by an administrator
  MaxCrashes    \* bound: deaths of the operator process

ASSUME BackendAssumption ==
  /\ DomainOf \in [Backends -> Domains] /\ "admin" \notin Backends
  /\ Managed \subseteq Backends
  /\ Delete \subseteq Backends /\ Broken \subseteq Backends
  /\ Workers \in Nat \ {0}
  /\ MaxEdits \in Nat /\ MaxAdmin \in Nat /\ MaxCrashes \in Nat

Admin == "admin"
NoDomain == [id |-> 0, by |-> Admin, on |-> FALSE]
NoBackend == [st |-> "absent", fin |-> FALSE, edit |-> 0,
              id |-> 0, ready |-> "unknown", projected |-> FALSE]
NoDeployment == [up |-> FALSE, doms |-> {}, observed |-> FALSE]
FreshKeystone == [api |-> FALSE, all |-> FALSE]

VARIABLES
  backend,   \* the backend CRs: metadata and status
  domain,    \* the identity service's domains, by name
  keystone,  \* the Keystone CR's KeystoneAPIReady and IdentityBackendsReady
  dep,       \* the Keystone Deployment: its template's domains
  pods,      \* the configs the running API pods were started with
  cache,     \* the informers' copies of backend, keystone and dep.doms
  kpc,       \* where the Keystone pass stands, what it read and computed
  khand,
  kwork,
  kdoms,     \* the domains this Keystone pass projects
  bpc,       \* the same for each backend's pass
  bhand,
  bwork,
  woken,     \* the keys in the two work queues, failed ones included
  due,       \* the keys to be queued again when a poll interval is over
  ids,       \* how many domain IDs were given out
  admins,
  crashes

kpass == <<kpc, khand, kwork, kdoms>>
bpass == <<bpc, bhand, bwork>>
queues == <<woken, due>>
bounds == <<admins, crashes>>
vars == <<backend, domain, keystone, dep, pods, cache, kpass, bpass, queues, ids,
          bounds>>

CRs == [st : {"absent", "live", "deleting", "gone"}, fin : BOOLEAN,
        edit : 0 .. MaxEdits, id : Nat, projected : BOOLEAN,
        ready : {"unknown", "true", "false", "foreign"}]
Conditions == [api : BOOLEAN, all : BOOLEAN]

TypeOK ==
  /\ backend \in [Backends -> CRs]
  /\ domain \in [Domains -> [id : Nat, by : Backends \union {Admin},
                             on : BOOLEAN]]
  /\ keystone \in Conditions /\ khand \in Conditions /\ kwork \in Conditions
  /\ dep \in [up : BOOLEAN, doms : SUBSET Domains, observed : BOOLEAN]
  /\ pods \subseteq SUBSET Domains /\ kdoms \subseteq Domains
  /\ cache.backend \in [Backends -> CRs]
  /\ cache.keystone \in Conditions /\ cache.doms \subseteq Domains
  /\ kpc \in {"idle", "deployment"}
  /\ bpc \in [Backends -> {"idle", "domain", "create", "observe",
                           "disable", "delete", "release"}]
  /\ bhand \in [Backends -> CRs] /\ bwork \in [Backends -> CRs]
  /\ woken \subseteq Backends \union {"keystone"}
  /\ due \subseteq Backends \union {"keystone"}
  /\ ids \in Nat /\ admins \in 0 .. MaxAdmin /\ crashes \in 0 .. MaxCrashes

Init ==
  /\ backend = [b \in Backends |-> NoBackend]
  /\ domain = [d \in Domains |-> NoDomain]
  /\ keystone = FreshKeystone
  /\ dep = NoDeployment /\ pods = {}
  /\ cache = [backend |-> backend, keystone |-> keystone, doms |-> {}]
  /\ kpc = "idle" /\ khand = FreshKeystone /\ kwork = FreshKeystone
  /\ kdoms = {}
  /\ bpc = [b \in Backends |-> "idle"]
  /\ bhand = backend /\ bwork = backend
  /\ woken = {"keystone"} /\ due = {}
  /\ ids = 0 /\ admins = 0 /\ crashes = 0

-----------------------------------------------------------------------------
(* Users, the administrator of the identity service, and the informers.     *)

Sharing(b) == {c \in Backends : DomainOf[c] = DomainOf[b]}

\* The webhook refuses a domain claimed by a backend that is not terminating.
CreateBackend(b) ==
  /\ backend[b].st = "absent"
  /\ \A c \in Sharing(b) : backend[c].st # "live"
  /\ backend' = [backend EXCEPT ![b].st = "live"]
  /\ UNCHANGED <<domain, keystone, dep, pods, cache, kpass, bpass, queues, ids,
                 bounds>>

EditBackend(b) ==
  /\ backend[b].st \in {"live", "deleting"} /\ backend[b].edit < MaxEdits
  /\ backend' = [backend EXCEPT ![b].edit = @ + 1]
  /\ UNCHANGED <<domain, keystone, dep, pods, cache, kpass, bpass, queues, ids,
                 bounds>>

DeleteBackend(b) ==
  /\ backend[b].st = "live"
  /\ backend' = [backend EXCEPT ![b].st = IF backend[b].fin
                                          THEN "deleting" ELSE "gone"]
  /\ UNCHANGED <<domain, keystone, dep, pods, cache, kpass, bpass, queues, ids,
                 bounds>>

AdminCreates(d) ==
  /\ admins < MaxAdmin /\ domain[d] = NoDomain
  /\ domain' = [domain EXCEPT ![d] = [id |-> ids + 1, by |-> Admin, on |-> TRUE]]
  /\ ids' = ids + 1 /\ admins' = admins + 1
  /\ UNCHANGED <<backend, keystone, dep, pods, cache, kpass, bpass, queues,
                 crashes>>

AdminDeletes(d) ==
  /\ admins < MaxAdmin /\ domain[d] # NoDomain
  /\ domain' = [domain EXCEPT ![d] = NoDomain]
  /\ admins' = admins + 1
  /\ UNCHANGED <<backend, keystone, dep, pods, cache, kpass, bpass, queues, ids,
                 crashes>>

\* A backend's event wakes the Keystone controller whatever changed, its own
\* controller only for what CRUpdatePredicate lets through.
Noticed(b) ==
  LET old == cache.backend[b]  new == backend[b]
  IN new.st # old.st \/ new.edit # old.edit

SyncBackends ==
  /\ cache.backend # backend
  /\ cache' = [cache EXCEPT !.backend = backend]
  /\ woken' = woken \union {"keystone"} \union {b \in Backends : Noticed(b)}
  /\ UNCHANGED <<backend, domain, keystone, dep, pods, kpass, bpass, due, ids,
                 bounds>>

\* Any Keystone event, status flips included, wakes every attached backend.
SyncKeystone ==
  /\ cache.keystone # keystone
  /\ cache' = [cache EXCEPT !.keystone = keystone]
  /\ woken' = woken \union {b \in Backends :
                              cache.backend[b].st \in {"live", "deleting"}}
  /\ UNCHANGED <<backend, domain, keystone, dep, pods, kpass, bpass, due, ids,
                 bounds>>

SyncDeployment ==
  /\ cache.doms # dep.doms
  /\ cache' = [cache EXCEPT !.doms = dep.doms]
  /\ woken' = woken \union {"keystone"}
  /\ UNCHANGED <<backend, domain, keystone, dep, pods, kpass, bpass, due, ids,
                 bounds>>

\* A poll interval, ten seconds or more, outlasts what the informers lag.
Elapse(k) ==
  /\ k \in due
  /\ cache = [backend |-> backend, keystone |-> keystone, doms |-> dep.doms]
  /\ due' = due \ {k} /\ woken' = woken \union {k}
  /\ UNCHANGED <<backend, domain, keystone, dep, pods, cache, kpass, bpass, ids,
                 bounds>>

\* The process dies; its successor's informers enqueue every object.
Crash ==
  /\ crashes < MaxCrashes
  /\ kpc # "idle" \/ \E b \in Backends : bpc[b] # "idle"
  /\ kpc' = "idle" /\ khand' = FreshKeystone /\ kwork' = FreshKeystone
  /\ kdoms' = {}
  /\ bpc' = [b \in Backends |-> "idle"]
  /\ bhand' = [b \in Backends |-> NoBackend] /\ bwork' = bhand'
  /\ cache' = [backend |-> backend, keystone |-> keystone, doms |-> dep.doms]
  /\ woken' = Backends \union {"keystone"} /\ due' = {}
  /\ crashes' = crashes + 1
  /\ UNCHANGED <<backend, domain, keystone, dep, pods, ids, admins>>

-----------------------------------------------------------------------------
(* The Keystone controller's pass.                                          *)

Attached == {b \in Backends : cache.backend[b].st \in {"live", "deleting"}}
Alone(b) == Attached \intersect Sharing(b) = {b}

\* Mutants: no check that the domain is ready; none that the backend lives.
RenderedUnready ==
  {b \in Attached : cache.backend[b].st = "live" /\ Alone(b) /\ b \notin Broken}
RenderedDeleting ==
  {b \in Attached : cache.backend[b].ready = "true" /\ Alone(b) /\ b \notin Broken}

\* reconcileIdentityBackends: a backend that cannot be projected is pending
\* and never keeps the others, or the pipeline, from going on.
Rendered ==
  {b \in Attached : /\ cache.backend[b].st = "live"
                    /\ cache.backend[b].ready = "true"
                    /\ Alone(b) /\ b \notin Broken}

Config == {DomainOf[b] : b \in Rendered}

ReconcileIdentityBackends ==
  /\ kpc = "idle" /\ "keystone" \in woken
  /\ kpc' = "deployment"
  /\ khand' = cache.keystone
  /\ kdoms' = Config
  /\ kwork' = [cache.keystone EXCEPT !.all =
                 \A b \in Attached : cache.backend[b].st = "live" => b \in Rendered]
  /\ woken' = woken \ {"keystone"}
  /\ UNCHANGED <<backend, domain, keystone, dep, pods, cache, bpass, due, ids,
                 bounds>>

\* updateStatus: an unchanged status is not written, whatever the server has;
\* a conflicting write fails and queues the key again at once.
Persist(status, poll) ==
  LET conflict == status # khand /\ keystone # khand
  IN /\ keystone' = IF status = khand \/ conflict THEN keystone ELSE status
     /\ woken' = IF conflict THEN woken \union {"keystone"} ELSE woken
     /\ due' = IF poll /\ ~ conflict THEN due \union {"keystone"} ELSE due
     /\ kpc' = "idle" /\ khand' = FreshKeystone /\ kwork' = FreshKeystone
     /\ kdoms' = {}

\* Another step waits or fails: the pass ends, and is repeated.
StopEarly ==
  /\ kpc = "deployment"
  /\ Persist(kwork, TRUE)
  /\ UNCHANGED <<backend, domain, dep, pods, cache, bpass, ids, bounds>>

\* The API answers from its pods; a call may fail while the Deployment rolls.
MayAnswer == pods # {}
MayFail == pods # {dep.doms}

\* reconcileDeployment: a pass that changes the template, or finds it not
\* ready, waits and polls.
Applied == dep.up /\ dep.doms = kdoms
ReconcileDeployment ==
  /\ kpc = "deployment" /\ ~ (Applied /\ dep.observed /\ pods # {})
  /\ dep' = IF Applied THEN dep
            ELSE [up |-> TRUE, doms |-> kdoms, observed |-> FALSE]
  /\ Persist(kwork, TRUE)
  /\ UNCHANGED <<backend, domain, pods, cache, bpass, ids, bounds>>

\* reconcileHealthCheck, once the Deployment is ready: an answer, or a cached
\* one while the condition holds, else a poll.
ReconcileHealthCheck ==
  /\ kpc = "deployment" /\ Applied /\ dep.observed /\ pods # {}
  /\ \/ Persist([kwork EXCEPT !.api = TRUE], FALSE)
     \/ MayFail /\ Persist([kwork EXCEPT !.api = FALSE], TRUE)
  /\ UNCHANGED <<backend, domain, dep, pods, cache, bpass, ids, bounds>>

-----------------------------------------------------------------------------
(* The backend controller's pass.                                           *)

Step(b, next, status) ==
  /\ bpc' = [bpc EXCEPT ![b] = next]
  /\ bwork' = [bwork EXCEPT ![b] = status]
  /\ UNCHANGED <<backend, keystone, dep, pods, cache, kpass, bhand, queues, bounds>>

Stop(b) ==
  /\ bpc' = [bpc EXCEPT ![b] = "idle"]
  /\ bhand' = [bhand EXCEPT ![b] = NoBackend]
  /\ bwork' = [bwork EXCEPT ![b] = NoBackend]
  /\ UNCHANGED <<keystone, dep, pods, cache, kpass, bounds>>

Retry(b) == woken' = woken \union {b} /\ UNCHANGED due
Poll(b) == due' = due \union {b} /\ UNCHANGED woken

\* updateStatus for a backend; what follows a failed write is a retry.
Finish(b, status, then) ==
  LET conflict == status # bhand[b] /\ backend[b] # bhand[b]
  IN /\ backend' = IF status = bhand[b] \/ conflict THEN backend
                   ELSE [backend EXCEPT ![b] = status]
     /\ CASE conflict \/ then = "retry" -> Retry(b)
          [] ~ conflict /\ then = "poll" -> Poll(b)
          [] ~ conflict /\ then = "done" -> UNCHANGED queues
     /\ Stop(b)

\* A worker takes a key that none is working on.
Idle(b) == /\ bpc[b] = "idle" /\ b \in woken
           /\ Cardinality({c \in Backends : bpc[c] # "idle"}) < Workers

\* The finalizer is added in a pass of its own, on the copy that was read.
AddFinalizer(b) ==
  /\ Idle(b)
  /\ cache.backend[b].st = "live" /\ ~ cache.backend[b].fin
  /\ backend' = IF backend[b] = cache.backend[b]
                THEN [backend EXCEPT ![b].fin = TRUE] ELSE backend
  /\ UNCHANGED <<domain, keystone, dep, pods, cache, kpass, bpass, queues, ids,
                 bounds>>

\* Reconcile: the pass works on the copy it read.
BeginBackend(b) ==
  /\ Idle(b)
  /\ cache.backend[b].st = "live" => cache.backend[b].fin
  /\ woken' = woken \ {b}
  /\ IF cache.backend[b].st \in {"live", "deleting"}
     THEN /\ bpc' = [bpc EXCEPT ![b] = "domain"]
          /\ bhand' = [bhand EXCEPT ![b] = cache.backend[b]]
          /\ bwork' = [bwork EXCEPT ![b] = cache.backend[b]]
     ELSE UNCHANGED bpass
  /\ UNCHANGED <<backend, domain, keystone, dep, pods, cache, kpass, due, ids,
                 bounds>>

\* Mutant: a failed observation demotes a provisioned domain as well.
DemotedAlways(s) == [s EXCEPT !.ready = "false"]

\* upsertBackendCondition: a condition that holds outlives failed observations.
Demoted(s) == IF s.ready = "true" THEN s ELSE [s EXCEPT !.ready = "false"]

At(b, step) == bpc[b] = step
Live(b) == bhand[b].st = "live"
Found(b) == domain[DomainOf[b]]
Own(b) == Found(b).id # 0 /\ Found(b).id = bwork[b].id
Claimed(b, id) == [bwork[b] EXCEPT !.id = id, !.ready = "true"]

\* resolveKeystone: no timer, the Keystone watch wakes this backend again.
WaitForKeystone(b) ==
  /\ At(b, "domain") /\ Live(b) /\ ~ cache.keystone.api
  /\ Finish(b, Demoted(bwork[b]), "done")
  /\ UNCHANGED <<domain, ids>>

Calls(b) == At(b, "domain") /\ Live(b) /\ cache.keystone.api

CreateIt(b) ==
  /\ domain' = [domain EXCEPT ![DomainOf[b]] = [id |-> ids + 1, by |-> b, on |-> TRUE]]
  /\ ids' = ids + 1

\* Any of ensureDomain's calls may fail; a create may have taken effect.
CallFails(b) ==
  /\ MayFail
  /\ Calls(b) \/ At(b, "create")
  /\ Finish(b, Demoted(bwork[b]), "retry")
  /\ \/ UNCHANGED <<domain, ids>>
     \/ At(b, "create") /\ Found(b) = NoDomain /\ CreateIt(b)

AdoptDomain(b) ==
  /\ Calls(b) /\ MayAnswer /\ b \notin Managed
  /\ IF Found(b) = NoDomain
     THEN Finish(b, [bwork[b] EXCEPT !.ready = "false"], "poll")
     ELSE Step(b, "observe", Claimed(b, Found(b).id))
  /\ UNCHANGED <<domain, ids>>

\* GetDomainByName says there is none; CreateDomain is a second call.
DomainMissing(b) ==
  /\ Calls(b) /\ MayAnswer /\ b \in Managed /\ Found(b) = NoDomain
  /\ Step(b, "create", bwork[b])
  /\ UNCHANGED <<domain, ids>>

CreateDomain(b) ==
  /\ At(b, "create") /\ MayAnswer
  /\ IF Found(b) = NoDomain
     THEN CreateIt(b) /\ Step(b, "observe", Claimed(b, ids + 1))
     ELSE Finish(b, Demoted(bwork[b]), "retry") /\ UNCHANGED <<domain, ids>>

\* Mutant: a domain of that name is taken over.
ForeignSeized(b) ==
  /\ Calls(b) /\ MayAnswer /\ b \in Managed
  /\ Found(b) # NoDomain /\ ~ Own(b)
  /\ Step(b, "observe", Claimed(b, Found(b).id))
  /\ UNCHANGED <<domain, ids>>

\* A domain of that name which the recorded ID does not claim.
ForeignDomain(b) ==
  /\ Calls(b) /\ MayAnswer /\ b \in Managed
  /\ Found(b) # NoDomain /\ ~ Own(b)
  /\ Step(b, "observe", [bwork[b] EXCEPT !.ready = "foreign"])
  /\ UNCHANGED <<domain, ids>>

\* Our domain: kept enabled.
KeepDomain(b) ==
  /\ Calls(b) /\ MayAnswer /\ b \in Managed /\ Own(b)
  /\ domain' = [domain EXCEPT ![DomainOf[b]].on = TRUE]
  /\ Step(b, "observe", Claimed(b, bwork[b].id))
  /\ UNCHANGED ids

Projected(b) == DomainOf[b] \in cache.doms

\* Mutant: no poll, the Keystone watch is trusted to wake the backend.
ObserveConfigOnce(b) ==
  /\ At(b, "observe")
  /\ Finish(b, [bwork[b] EXCEPT !.projected = Projected(b)], "done")
  /\ UNCHANGED <<domain, ids>>

\* observeConfigProjected looks at the Deployment and polls until it is there.
ObserveConfig(b) ==
  /\ At(b, "observe")
  /\ Finish(b, [bwork[b] EXCEPT !.projected = Projected(b)],
            IF Projected(b) THEN "done" ELSE "poll")
  /\ UNCHANGED <<domain, ids>>

EnsureDomain(b) == WaitForKeystone(b) \/ CallFails(b) \/ AdoptDomain(b)
                   \/ DomainMissing(b) \/ CreateDomain(b) \/ ForeignDomain(b)
                   \/ KeepDomain(b)

-----------------------------------------------------------------------------
(* The finalizer: reconcileDelete.                                          *)

\* Only the finalizer keeps a deleted backend: a copy without it is gone.
Tearing(b) == At(b, "domain") /\ bhand[b].st = "deleting"

\* The Deployment still mounts the config: poll until it does not.
WaitForDeprojection(b) ==
  /\ Tearing(b) /\ Projected(b)
  /\ Poll(b) /\ Stop(b)
  /\ UNCHANGED <<backend, domain, ids>>

Disposes(b) == b \in Managed \intersect Delete /\ bhand[b].id # 0

Deprojected(b) ==
  /\ Tearing(b) /\ ~ Projected(b)
  /\ Step(b, IF Disposes(b) THEN "disable" ELSE "release", bwork[b])
  /\ UNCHANGED <<domain, ids>>

\* By its ID: at most the domain this backend created.
Recorded(b) == {d \in Domains : domain[d].id = bhand[b].id}

Disabled(b) == [d \in Domains |-> IF d \in Recorded(b)
                                  THEN [domain[d] EXCEPT !.on = FALSE]
                                  ELSE domain[d]]
Erased(b) == [d \in Domains |-> IF d \in Recorded(b) THEN NoDomain
                                ELSE domain[d]]

\* A domain that is gone already counts as deleted.
DisableDomain(b) ==
  /\ At(b, "disable") /\ MayAnswer
  /\ domain' = Disabled(b)
  /\ Step(b, IF Recorded(b) = {} THEN "release" ELSE "delete", bwork[b])
  /\ UNCHANGED ids

DeleteDomain(b) ==
  /\ At(b, "delete") /\ MayAnswer
  /\ domain' = Erased(b)
  /\ Step(b, "release", bwork[b])
  /\ UNCHANGED ids

\* A failed call is retried by a later pass, whether it took effect or not.
DisposeFails(b) ==
  /\ MayFail
  /\ \/ At(b, "disable") /\ domain' \in {domain, Disabled(b)}
     \/ At(b, "delete") /\ domain' \in {domain, Erased(b)}
  /\ Poll(b) /\ Stop(b)
  /\ UNCHANGED <<backend, ids>>

RemoveFinalizer(b) ==
  /\ At(b, "release")
  /\ IF backend[b] = bhand[b]
     THEN backend' = [backend EXCEPT ![b].st = "gone"] /\ UNCHANGED queues
     ELSE Retry(b) /\ UNCHANGED backend
  /\ Stop(b)
  /\ UNCHANGED <<domain, ids>>

ReconcileDelete(b) ==
  WaitForDeprojection(b) \/ Deprojected(b) \/ DisposeFails(b)
  \/ DisableDomain(b) \/ DeleteDomain(b) \/ RemoveFinalizer(b)

-----------------------------------------------------------------------------
(* The Deployment controller; each of its steps is an event.                *)

Rolling == <<backend, domain, keystone, cache, kpass, bpass, due, ids, bounds>>

ObserveDeployment ==
  /\ dep.up /\ ~ dep.observed
  /\ dep' = [dep EXCEPT !.observed = TRUE]
  /\ woken' = woken \union {"keystone"}
  /\ UNCHANGED <<Rolling, pods>>

StartPods ==
  /\ dep.observed /\ dep.doms \notin pods
  /\ pods' = pods \union {dep.doms}
  /\ woken' = woken \union {"keystone"}
  /\ UNCHANGED <<Rolling, dep>>

StopPods(c) ==
  /\ dep.observed /\ dep.doms \in pods
  /\ c \in pods \ {dep.doms}
  /\ pods' = pods \ {c}
  /\ woken' = woken \union {"keystone"}
  /\ UNCHANGED <<Rolling, dep>>

-----------------------------------------------------------------------------
KeystonePass == ReconcileDeployment \/ ReconcileHealthCheck
BackendPass(b) == AddFinalizer(b) \/ BeginBackend(b) \/ EnsureDomain(b)
                  \/ ObserveConfig(b) \/ ReconcileDelete(b)
Informers == SyncBackends \/ SyncKeystone \/ SyncDeployment
Rollout == ObserveDeployment \/ StartPods \/ \E c \in pods : StopPods(c)
Keys == Backends \union {"keystone"}

Next ==
  \/ \E b \in Backends : CreateBackend(b) \/ EditBackend(b) \/ DeleteBackend(b)
  \/ \E d \in Domains : AdminCreates(d) \/ AdminDeletes(d)
  \/ ReconcileIdentityBackends \/ KeystonePass \/ StopEarly \/ Crash
  \/ \E b \in Backends : BackendPass(b)
  \/ Informers \/ Rollout
  \/ \E k \in Keys : Elapse(k)

Spec == Init /\ [][Next]_vars

\* A queued key is served and its pass goes on; the other steps of a Keystone
\* pass do not end it for ever; informers deliver, Deployments roll, polls end.
Fairness ==
  /\ WF_vars(ReconcileIdentityBackends) /\ SF_vars(KeystonePass)
  /\ \A b \in Backends : WF_vars(BackendPass(b))
  /\ WF_vars(Informers) /\ WF_vars(Rollout)
  /\ \A k \in Keys : WF_vars(Elapse(k))

FairSpec == Spec /\ Fairness

-----------------------------------------------------------------------------
(* Properties.                                                              *)

\* A domain no managed backend created is never disabled or deleted, and none
\* is ever recorded as its own by one that did not create it.
ForeignUntouched ==
  /\ \A d \in Domains : domain[d].id # 0 /\ domain[d].by = Admin => domain[d].on
  /\ \A b \in Managed : backend[b].id # 0 /\ Found(b).id = backend[b].id =>
                          Found(b).by = b

\* Keystone is given the config of a domain only while the domain exists, as
\* long as no one deletes a backend or a domain behind it.
ConfigHasDomain ==
  admins = 0 =>
    \A d \in dep.doms :
      domain[d] # NoDomain \/ \E b \in Backends : /\ DomainOf[b] = d
                                                  /\ backend[b].st \in
                                                       {"deleting", "gone"}

\* A backend left alone is provisioned, projected and reported so: neither
\* controller waits for an event the other has no reason to cause.
Settled(b) ==
  /\ backend[b].st = "live" /\ b \notin Broken
  /\ \A c \in Sharing(b) \ {b} : backend[c].st \in {"absent", "gone"}
  /\ b \in Managed => backend[b].ready # "foreign"
  /\ b \notin Managed => Found(b) # NoDomain

BackendServes ==
  \A b \in Backends :
    <>[]Settled(b) => <>[](/\ backend[b].ready = "true" /\ backend[b].projected
                           /\ \A c \in pods : DomainOf[b] \in c)

\* The Deployment comes to rest: projecting a backend rolls it, which makes
\* API calls fail, which must not take the projection back again.
ConfigSettles == <>[][dep'.doms = dep.doms]_dep

\* A deletion always ends, though each controller waits for the other.
TeardownEnds == \A b \in Backends : backend[b].st = "deleting" ~> backend[b].st = "gone"

-----------------------------------------------------------------------------
(* Two statements of the code's comments that do not hold.                  *)

\* "A same-named domain this CR did not create."
ForeignIsForeign ==
  \A b \in Managed :
    backend[b].ready = "foreign" /\ Found(b) # NoDomain => Found(b).by # b

\* "So keystone never runs with config pointing at a dead domain."
NoDeadDomain == \A c \in pods : \A d \in c : domain[d] # NoDomain
=============================================================================
