# Verification of the CobaltCore Forge operators

TLA+ models of the control logic of this repository: Kubernetes operators, written in Go with
controller-runtime, that run OpenStack services. The modules are checked with TLC on small
instances; the theorems are proved with TLAPS for every instance. Paths below are relative to
the repository; `K/` is `src/operators/keystone/internal/controller/`, `KA/` is
`src/operators/keystone/api/v1alpha1/`, `G/` and `C5/` are the `internal/controller/` of `glance`
and `c5c3`, `CA/` is `src/operators/c5c3/api/v1alpha1/` and `C/` is `src/internal/common/`.

1. [Inventory](#inventory) · 2. [Modules](#modules) · 3. [Runs](#runs) ·
4. [Fairness and timing](#fairness-and-timing) · 5. [Proofs](#proofs) ·
6. [Findings](#findings) · 7. [Not modelled, and the plan](#not-modelled-and-the-plan)

## Inventory

Four operators share one library. Each runs two replicas with leader election and reconciles
up to two objects at a time (`--max-concurrent-reconciles`). No operator keeps state of its own:
everything it knows is in the API server (spec, status, Secrets, Jobs), which it reads through
informer caches that lag, and writes with optimistic concurrency, create-or-update, or patches.
A reconcile pass is a sequence of steps; it ends early when a step waits or fails, and it can be
cut off anywhere by a crash.

| Component | State | Operations | Hard behaviour | Correct when |
| --- | --- | --- | --- | --- |
| Reconcile framework (`C/reconcile`, `C/conditions`) | conditions, status, finalizers | pipeline, parallel group, Ready aggregation, status write | a pass works on an old read; parallel steps merge conditions | a status write never overwrites what the pass did not see; Ready tells the truth about this generation |
| Upgrade machine (`K/reconcile_database.go`, `reconcile_upgrade.go`) | `status.installedRelease`, `targetRelease`, `upgradePhase` | initiate, expand, migrate, roll, contract, abort, one-shot sync | edits under way, lost status writes, leftover Jobs, cached Jobs | migrations in order; pods only on a migrated schema; one release at a time; always escapable |
| Job engine (`C/job`) | Jobs, a pod-spec hash annotation | run, recreate when outdated, record the terminal state | decides on a cached Job, deletes by name | a Job that is taken as done is this Job |
| Workload objects (`C/deployment`, `C/types`, `K/reconcile_deployment.go`) | Deployment, Service, PDB, HPA | build, apply, readiness | rolling pods of two revisions; an autoscaler that owns the replica count | what is admitted can be built, applied and drained; readiness means what its callers take it for |
| Key rotation (`C/rotation`, `K/reconcile_fernet.go`, `reconcile_credential.go`, `K/scripts/`) | production and staging Secret | stage (a CronJob's script), validate, commit, clear | Jobs overlap, PATCH and commit race, retry, crash between update and delete | no rotation lost or undone; tokens and credentials readable on all pods |
| Identity backends (`K/keystoneidentitybackend_controller.go`, `K/reconcile_identitybackends.go`) | backend status, domains of Keystone, the projected config | provision, project, observe, tear down | two controllers meet only through watches; a rollout makes API calls fail | both reach rest; foreign domains untouched; deletion ends |
| Federation (`K/reconcile_federation*.go`) | Apache Secret, provider metadata, identity providers, mappings, protocols | fetch, render, upsert, delete in order | caches of metadata and of rendering; calls that fail half-way | what is mounted is of one projection; one broken backend is dropped alone |
| Health probe (`C/healthcheck`) | KeystoneAPIReady | probe, cached answer | stale answers; cancelled contexts | a dead API is seen within the interval |
| Config objects (`C/config`) | immutable ConfigMaps and Secrets by content hash | create, prune | pruning beside pods of older templates | the workload mounts one rendering |
| Secrets gates (`C/secrets`) | ExternalSecrets, PushSecrets, stores | gate | external controllers' caches | no step runs on an unsynced credential |
| Database (`C/database`) | MariaDB CRs, connection Secret | provision, sync, finalize | teardown against re-creation | data survives, users do not leak |
| Password rotation, bootstrap (`K/reconcile_passwordrotation.go`, `reconcile_bootstrap.go`) | staging, push source, OpenBao, bootstrap Job | commit, push, re-run | five stores change one after the other | they end up equal |
| Keystone deletion (`K/keystone_controller.go`) | finalizers, ExternalSecret ownership | adopt, wait, release | crash between steps, names used again | nothing leaks, nothing wedges |
| Glance (`src/operators/glance`) | backends, config, Secret, migration Job, Deployment | gate, project, migrate, roll, tear down | two controllers and a workload that must not run ahead of the schema | one rendering mounted; Ready is true; all backends converge |
| Horizon (`src/operators/horizon`) | config, Deployment | project | as the shared flow | as the shared flow |
| c5c3 projection (`C5/controlplane_controller.go`, `reconcile_keystone.go`, `reconcile_horizon.go`) | child CRs, conditions | park, project, mirror readiness, drop | ownership without owner references; a child whose API refuses | one ControlPlane per namespace; children converge; keys are not lost |
| c5c3 teardown (`C5/reconcile_delete.go`, `reconcile_namespaces.go`) | K-ORC objects, namespaces, stores, PushSecrets | delete in order, force after a stall, sweep | everything it waits for may be gone already | deletion ends; what it leaves is named; nothing of others is touched |
| c5c3 credentials (`C5/reconcile_serviceaccounts.go`, `reconcile_admincredential.go`, `reconcile_credentialrotation.go`) | application credentials, ExternalSecrets | create, rotate, re-sync | forced re-sync against a store being written | one credential everywhere |
| Webhooks (`*/api/v1alpha1/*_webhook.go`) | none | default, validate | a list before a write; rules on old and new | rules hold at rest; what is stored stays admissible |
| Bootstrap, metrics, rendering, charts, images, tests | – | – | – | not state machines |

Interaction: the Keystone controller owns Deployment, Jobs, CronJobs and Secrets and is woken by
them; Jobs write to the staging Secrets with a PATCH; the backend controller reads the Keystone CR
and its Deployment and writes only backend status and finalizers; the Keystone controller reads
backend status and writes only the Deployment and its own status. Glance and its backends meet in the
same way. The c5c3 operator writes the Keystone and Horizon CRs and reads their conditions; its teardown
waits for K-ORC, External Secrets and the service operators, who in turn need Keystone and the
tenant stores.

`PROJECT.json` lists the components with their status, the hazards at their lines with the
properties that watch them, and the source lines of each definition.

## Modules

Libraries (no state): `Release`, `ReconcileFlow`, `Workload`, `Admission`. State machines: `KeystoneUpgrade`,
`KeyRotation`, `IdentityBackends`, `Federation`, `Glance` (on ReconcileFlow), `Services` (on Workload),
`ControlPlane` (on Admission, ReconcileFlow), `Teardown`. Abstract specification: `MigrationPromise`. `MC…`
modules hold the instances, `…Proofs` the theorems.

### Release
`C/release/release.go`: a release is the record `ParseRelease` returns, without the raw string.

### KeystoneUpgrade, KeystoneUpgradeProofs
One Keystone CR. State: the CR (`cr`: the tag and the four status fields that drive upgrades), its
cached copy `seen`, the pass (`pc`, `hand` as read, `work` as computed), Jobs and their cached
copy, pods of deleted Jobs (`orphans`), how far the database is expanded, migrated and contracted
(`schema`), the Deployment and its ready pods by tag.

| Code | Model |
| --- | --- |
| `Reconcile`: Get from the cache | `BeginPass` |
| `reconcileDatabase`, one action per branch | `ProvisionWait`, `AbortUpgrade`, `AbortInterrupted`, `TargetChanged`, `InitiateUpgrade`, `ReconcileExpand` / `CompleteExpand`, …, `SyncPending`, `SchemaCheckPending`, `SyncComplete` |
| `RunJobWithRerunKey`, `recreateStaleJob` | `RunJob` and its parts, on `jobsSeen` |
| `RecordJobTerminalState` | `RecordTerminalState`: its patch refreshes the version the pass writes at |
| `reconcileDeployment` | `ApplyDeployment`, `DeploymentWait`, `DeploymentIsReady` |
| a step before these two that waits or fails | `StopEarly` |
| `UpdateStatus` | `UpdateStatus`: no write when nothing changed, a conflict when overtaken |
| resourceVersion | `stale`: which copies a later write has overtaken. A comparison of versions only asks whether they differ, so the numbers are not kept |

`Level` gives the schema revision the code of a tag needs; a `db_sync` variant raises the
matching part of `schema`. Failing Jobs may have taken effect or not.

### MigrationPromise
The upgrade without passes, Jobs, caches and retries: the database, the status a user reads and the
releases that serve. A step is a migration that has its predecessors behind it, a status that is replaced by one
`True` of the database, or a rollout of releases that are prepared. `KeepsPromise` in KeystoneUpgrade
instantiates it: `status` is `cr.status`, `serving` the tags of the template and of ready pods, `schema` itself.
It does not promise what finding 1 refutes, that contraction waits for the old pods.

### KeyRotation, KeyRotationProofs
A key repository with several operator replicas; `repo` says which one a behaviour is about (Fernet or
credential keys, how many Jobs and pods, what may fail). `ReadKeys` … `DeleteStaging` are the steps of `reconcileFernetKeys` /
`CommitStaged`, each with the copies the pass holds; `StartRun`, `RotateRun`, `MigrateRun`,
`PatchRun` are the script; `PatchFails` is a failed PATCH followed by the container's restart on the
same emptyDir; `Project` is the kubelet's refresh of the mounted Secret in one pod. A
repository is a function from index to key, so the purge of old keys is computed, not assumed.

### IdentityBackends, IdentityBackendsProofs
Both controllers, their work queues (`woken`), their pending polls (`due`) and one cache. Nothing
runs that was not woken: `CRUpdatePredicate`, the backend-to-Keystone mapper and the
Keystone-to-backends mapper are in `SyncBackends`, `SyncKeystone`, `SyncDeployment`. The backend's
pass is cut at every call to the Keystone API (`DomainMissing`/`CreateDomain`,
`DisableDomain`/`DeleteDomain`); any call may fail while the Deployment rolls, a create or
delete also after it took effect. `pods` is the set of configs that running pods were started with.
The teardown waits in `WaitForDeprojection` as `reconcileDelete` does, and is not refused by the webhook.

### Federation, FederationProofs
The same backends where they are federated, from the other side: `ValidateCreate` / `ValidateUpdate` / `Persist` are a request
whose look at its siblings (`validateSiblingBackends`) and whose write are two steps;
`ReconcileIdentityBackends` renders LDAP, OIDC and SAML backends into immutable Secrets and
keystone.conf, with the two caches of the code: provider metadata by backend and generation (`documents`, lost
in a crash), and the rendered config under `ConfigKey` (`memo`). `ensureFederation` and `Teardown` are the calls of
`reconcile_federation_objects.go`; of each sequence a prefix takes effect when a call fails. The Keystone pass is
one step here: what can come between its steps is IdentityBackends' subject. Most faults drop their own backend (`Renders`: a missing
Secret, unusable metadata, a rendering over its size budget). Two do not: a service-provider keypair that does not parse
(`K/reconcile_federation_saml.go:206`, `:218`) and a passphrase Secret without its key (`K/reconcile_federation.go:985`) are errors of the
pass (`K/reconcile_identitybackends.go:292`, `:397`), which projects and withdraws nothing and is tried again (`ReconcileFails`); the
Secret may be mended or not (`Mend`).

### ReconcileFlow
What a pass is built from: `SetCondition`, the aggregate with its generation, `MergeGroup` and `ShortestRequeue` of the parallel
group, immutable objects with `PruneImmutable`, and the shared flows of HTTPRoute, HPA, NetworkPolicy and the API probe
with its cached success. Glance instantiates all of it.

### Glance, GlanceProofs
One Glance with its backends. `Reconcile`, `reconcileSecrets`, `reconcileBackends`, `reconcileConfig`,
`reconcileDatabase`, `reconcileDeployment`, `reconcileParallelGroup` are the steps of a pass, on the conditions the pass
carries; `StepFails` ends it with an error, `Crash` with nothing. `configs` and `sections` are the immutable objects in
creation order, `dep` mounts one of each, `job` the migration with its ConfigMap. `ReconcileBackend` is the
backend controller, `reconcileDelete` the finalizer. Users move the default, add and remove backends, change the
release and delete the Glance.

### Workload, Services, ServicesProofs
`Workload` holds the shared parts of a spec (optional fields are sets of at most one value), what the CRD schema
and the webhooks admit of them, and the builders of `C/deployment`. `Services` takes a CR of each operator from a request
(`Default`, `Schema`, `Valid` — also on update, against the stored one) to its objects. A pass reads the live Deployment, then applies Deployment, Service, PDB and
HPA in separate steps; the autoscaler, the PriorityClasses and users move in between. `DeploymentAccepted` and `HPAAccepted` are
the API server's own rules, and external.

### Admission, ControlPlane, ControlPlaneProofs
`Admission` is `controlplane_types.go` and `controlplane_webhook.go` as operators, one per rule, and the Keystone child a spec
projects to (`keystoneChild`) with what the child's API freezes (`KeystoneFrozen`). `ControlPlane` has several ControlPlanes in several
namespaces: `StoreCreate` stores a creation some time after it was admitted, so two lists can miss each other (`raced`
remembers the pairs); `duplicateControlPlaneIncumbent` and `parkDuplicateControlPlane` leave one in charge; a pass projects Keystone and
Horizon through `ProjectChild`, stops at the first step that does not succeed and mirrors readiness. Ownership is by owner
reference at home and by labels elsewhere; garbage collection knows only the first.

### Teardown, TeardownProofs
One ControlPlane from its first pass to its garbage collection. A live pass (`LivePass`) places namespaces, stores, services, K-ORC
objects and PushSecrets stage by stage with the spec it read; `DeletionPass` is `reconcileDelete` with every branch: ordered K-ORC deletion, the import
shortcut, `Stall` and `Escape` with the forced finalizers, PushSecret waits, `teardownDedicatedNamespaces`. `rows` and `bao` are what
exists in OpenStack and OpenBao, `named` what a warning or condition has named. The sweep of a namespace that stays is
best-effort, as in the code: it visits the accounts the spec still declares, and what it cannot read or delete it logs (`logged`) and leaves.
K-ORC, External Secrets, the service operators and Kubernetes act when what they need is there, and nothing obliges them to.

KeystoneUpgrade, IdentityBackends and Services each model the Deployment step with what they need of the template; a product of
the three would multiply states and add no interaction the code has.

## Runs

| Run | Instance | Checks | Shows |
| --- | --- | --- | --- |
| `KeystoneUpgrade_safety` | 3 consecutive releases, a patch of the first and a tag that is no release, 2 edits or 1 edit and 1 crash (`FewDisturbances`), 1 replica; 2.4 M states | TypeOK, PodsHaveSchema, MigrationsInOrder, InstalledIsMigrated, PhaseJobsBelong, NoReleaseSkipped, PhasesAdvance | Jobs, pods and status never run ahead of the database, releases move one step, phases neither restart nor skip |
| `KeystoneUpgrade_liveness` | 2 releases, 2 edits, Jobs may fail for good | AbortEscapes, UpgradeCompletes, KeepsPromise | an upgrade left alone completes; a revert ends any upgrade; the upgrade implements MigrationPromise |
| `KeystoneUpgrade_rollout` | 2 releases, 1 edit | ContractAfterRollout (violated) | finding 1 |
| `KeyRotation_rotates` | 2 replicas; either Fernet keys with 2 overlapping Jobs, 1 failed PATCH, 1 crash or failover, or credential keys with 3 scheduled Jobs, 2 API pods, 1 crash; 1.0 M states | TokensValidEverywhere, CredentialsReadable, NothingLost, CommitsInOrder, StagingRecovers | the commit protocol, and what the keys are for |
| `IdentityBackends_foreign` | one domain: with a crash, a second backend takes over one that is kept from the first, or an administrator replaces it behind a backend that is torn down; or one creates and deletes it under a backend from creation to deletion; 2.2 M states | ForeignUntouched | a domain changes hands, and foreign ones are left alone |
| `IdentityBackends_serves` | one backend: managed, created before the first Deployment; managed and torn down, with a crash; or adopting; 0.2 M states | ConfigHasDomain, BackendServes, ConfigSettles, TeardownEnds | the two controllers meet, come to rest, and part |
| `Federation_settle` | an OIDC backend at rest or waiting for its Secret; a second one written as LDAP or SAML, or as OIDC with a clashing name; 1 fault (an outage, a malformed keypair or passphrase, an oversized rendering, …), or the missing Secret; 0.13 M states | ProjectionSound, FaultIsolated, FederationSettles | what is mounted is one projection, a fault withdraws its own backend only, provisioning completes unless a fault stops every pass |
| `Glance_converges` | 2 backends, 2 releases, from the creation or the steady state, 2 changes, 1 fault; 0.28 M states | EnabledHaveSections, WorkloadIsMigrated, ReadyIsConverged, BackendsConverge, TeardownEnds | Glance and its backends meet, Ready means what it says, deletion ends |
| `Services_settle` | each of the three CRs with the values on and beside every boundary, 4 requests (one from the minimal CR); 0.24 M states | AdmittedBuilds, StoredReadmits, ServiceSettles | what is admitted builds, stays admissible, and is built in the end |
| `ControlPlane_settle` | 3 ControlPlanes in 2 namespaces, a third namespace to claim, 2 creations, 2 changes; 0.26 M states | OnlyRacesCollide, OnlyEndpointRejected, KeysKept, PlaneSettles | claims, projection and parking |
| `Teardown_release` | a service account, Keystone at home or in a dedicated namespace, a dashboard elsewhere, every lifecycle; 2 troubles (users, outages, refused updates, deletes that fail); 0.75 M states | Accounted, OrderlyIsClean, StoreOutlivesChild, ForeignKept, DeletionEnds | a deletion ends, in order, and says what it leaves |
| `Teardown_stranded` | the same | NothingStranded (violated) | finding 2 |

Why the bounds are enough. Three consecutive releases are what a skip, a downgrade and a leftover
Job of an earlier upgrade need; two edits suffice for upgrade–revert, for a second upgrade over the first's Jobs,
and for a third tag mid-upgrade; a crash loses what one pass computed and keeps what it
wrote, whichever pass it is, and a second one does nothing a later pass has not made good. The patch and the tag that
does not parse take the paths that skip the phases, or refuse the upgrade. Two Jobs are what an overlap needs, and `MaxActive = 3` (the
smallest the code accepts) is where the purge reaches the primary key soonest; the third scheduled Job sends a key through its whole
life. Two backends on one domain are what a handover needs; domains do not interact otherwise. In Federation the second
backend's drafts are the pairs that clash: in case-folded domain, in provider, in metadata file. In Glance two backends are what a default that moves
needs, and `Retain` of three revisions is the code's. Two ControlPlanes meet in one namespace, the third lets a
parked one be overtaken. In Teardown two troubles let an outage and a refused
update, or a stranger's object and a stall, coincide; a second account or namespace repeats the first.

Deadlock is checked in KeystoneUpgrade and KeyRotation. The other systems are quiescent when they have converged: no key
woken and no poll due. Their configurations switch the check off; one that stops too early violates its
liveness properties.

Each property of a passing run is also checked against a mutation of the code it is about (the
definitions marked "Mutant"): the run finds it violated.

Some definitions state what no run checks: type invariants (`SvcTypeOK`, `FedTypeOK`, `TypeOK` of KeyRotation,
IdentityBackends and Glance, which hold), and the statements under "Findings". Naming one in a configuration checks it.

## Fairness and timing

- **Passes.** controller-runtime requeues an object that changed, failed or asked for it, so a pass
  begins and goes on (weak fairness). Other steps may end it early again and again, not for ever (strong
  fairness on the modelled steps), and the API server does not refuse an abort's deletes for ever.
- **Federation**: a Keystone pass that fails is retried as one that succeeds is (one fairness over `KeystonePass`); nothing makes anyone mend a
  malformed Secret. While it fails the pass, `FederationSettles` asks for nothing (`PassFails`), because the code gives nothing: no sibling is
  projected and no deleted one is de-projected. It asks again from the repair on.
- **Informers** deliver. **Jobs** end, **Deployments** roll (weak fairness on "some step of it"), an admitted write is stored.
  Nothing makes a user, an administrator, a rotation Job, a crash or a deposed leader act.
- **Teardown** asks for two things only: the queue retries the pass, and time passes (`Stall`). Keystone, OpenBao, K-ORC and
  the service operators may never answer; `DeletionEnds` holds all the same. In ControlPlane the services' operators are fair, since a
  service that never gets ready must not be reported Ready.
- **KeystoneUpgrade, `OperatorKeptUp`**: a Job pod takes longer to start and end than the informer
  of the CR lags and a pass lasts. The assumption is needed, and TLC says for what: without it
  `NoReleaseSkipped` fails. `RecordJobTerminalState` (`C/job/terminal.go:148`) patches the CR
  without a resourceVersion and moves the pass to the version the patch returned; a pass that
  began on an old copy of the CR can then write its old status over a newer one without a conflict.
  With a cache that lags by several passes and one Job, or with a deposed leader still in a pass, that can happen.
  The theorems about the order of upgrades use it, the others do not.
- **IdentityBackends, `Elapse`**: a poll interval (ten seconds or more) outlasts an informer's lag.
- **KeyRotation, `quiet`**: scheduled rotations start when the last has been
  committed and projected; the schedule is days, the rest minutes. The overlapping Jobs do without it.
- **ControlPlane, `NotYet`**: the API server stores an admitted creation before a new platform (MariaDB, memcached) is up,
  which takes minutes. Without it two racing creations could both be projected before either is parked.

## Proofs

`KeystoneUpgradeProofs` proves, for every set of tags, every assignment of releases and of schema levels to them, any number of replicas, edits and crashes:

| Theorem | Says |
| --- | --- |
| `TypeCorrect` | `Spec => []TypeOK` |
| `PodsAlwaysHaveSchema` | `Spec => []PodsHaveSchema` |
| `MigrationsAlwaysInOrder` | `Spec => []MigrationsInOrder` |
| `InstalledAlwaysMigrated` | `Spec => []InstalledIsMigrated` |
| `UpgradeAlwaysVisible` | `Spec => []UpgradeIsVisible`: DatabaseReady is never True beside a phase, phase and target come and go together |
| `UpgradeKeepsPromise` | `Spec => KeepsPromise`: the refinement of MigrationPromise |

None of these but the first is inductive: the Deployment step acts on what the Database step of the same pass
decided, from a status that another pass wrote, from Jobs that a cache showed. The inductive
invariant is `IInv == TypeOK /\ CopiesSafe /\ JobsSafe /\ PodsSafe`:

- `CopiesSafe`: the persisted status, its cached copy, the copy the pass read and the status it is
  computing all claim only what the database has (`StatusSafe`, phase by phase);
- `JobsSafe`: so do the Jobs, in the API server and in the cache: a completed one has left its
  revision behind, and one that exists had its predecessor's;
- `PodsSafe`: the tag of a pass that has reached the Deployment step, the template and every ready
  pod have their schema.

All of it is stable because schema revisions only grow (`HasMonotone`, `StatusMonotone`, …), so an
old claim stays true however late it is used; this is why stale reads and lost writes
cannot hurt these properties. The proof has one step per action.

The refinement needs one thing more, `OrphansSafe`: a pod that outlived its deleted Job was started under the
same conditions (`PodsOfSafe`). With it (`PromiseInv`) each concrete step maps: the end of a Job or of an orphan to the
promise's `Expand`, `Migrate`, `Contract` or `SyncAtOnce` or a stutter (`MigrationStep`), an edit or a status write to `Record`
(`RecordStep`), whatever touches template and pods to `Roll` (`RollStep`).

Its last part proves the order of upgrades, which `IInv` cannot give, for here a stale read and a lost write do matter:

| Theorem | Says |
| --- | --- |
| `PhasesAlwaysAdvance` | `Spec => PhasesAdvance`: within an upgrade phases neither restart nor skip |
| `ReleaseNeverSkipped` | `Spec => NoReleaseSkipped`: `installedRelease` moves one release forward, or a patch |
| `PhaseJobsAlwaysBelong` | `Spec => []PhaseJobsBelong` |

A pass from an outdated copy of the CR can overwrite a status it has not read: recording a terminal Job moves it to the version
the patch returned. The invariant `OInv == TypeOK /\ Order` says why no upgrade is lost by it. What such a pass has computed is
either what the CR says already or the same step made again (`Behind`, `Remade`): the Job that
justified the step the first time is still there, terminal, for the same tag (`Kept`), because only a pass that has seen the CR
move on replaces it. `Fits` says which Jobs can be met at a status: those of the target, and of the release installed; `Writable`
collects what must hold of the status a pass is about to write, against the CR and against the cache. The one thing taken from outside is
`OperatorKeptUp`: a Job that was started by a pass does not end before the cache shows what that pass wrote.

The assumptions are `TagsAssumption`, `LevelAssumption`, `ParseAssumption` and `BoundsAssumption`.

The same module proves the comparisons of `release.go` equal to the order on one number, the
place in the twice-yearly series, and that a sequential upgrade is neither a patch nor a downgrade.

`GlanceProofs` proves three properties of the Glance pass for every set of backends, releases and configurations and any
number of changes, faults and crashes, from `GlanceAssumption`:

| Theorem | Says |
| --- | --- |
| `EnabledAlwaysHaveSections` | `Spec => []EnabledHaveSections`: ConfigMap and Secret of the Deployment are of one rendering |
| `WorkloadAlwaysMigrated` | `Spec => []WorkloadIsMigrated`: no release before its migration |
| `ReadyAlwaysConverged` | `Spec => []ReadyIsConverged`: a Ready at the CR's generation that no pass is due to revise is true of the children |

The last is the subject of the invariant. The aggregate looks at no generation, so a pass that is cut short at a later step does write
Ready=True at the new generation over old conditions; what the code relies on is that such a pass always comes back. `PassSafe` says, for every point of
a pass, what it has found out so far and may still count on (`ReadSafe`: the CR is the one read, as long as the generation
is; `BackendsDone`, `ConfigDone`, `DatabaseDone`, `DeploymentDone`); `JobSafe` that a completed Job has migrated the database;
`Paired` that the two names come and go together, in a pass and on the Deployment. Three lemmas carry every step: `AroundSafe`
(the world changes around a pass), `HandsSafe` (a step hands on), `EndsSafe` (a pass ends and is due again); the
parallel group is the one step that may end a pass for good (`GroupKeeps`).

`KeyRotationProofs` proves, for any number of replicas, rotation Jobs, failed patches, crashes and changes of leader:

| Theorem | Says |
| --- | --- |
| `CommitsAlwaysInOrder` | `Spec => CommitsInOrder`: production only moves to a payload that was completed later |
| `NothingEverLost` | `Spec => NothingLost`: what leaves the staging Secret is in production, or was invalid |
| `TokensAlwaysValid` | `Spec => []TokensValidEverywhere`, for undisturbed repositories |
| `CredentialsAlwaysReadable` | `Spec => []CredentialsReadable`, for undisturbed repositories |

For the first two, the invariant is about every copy of the two Secrets there is, in the API server, in a replica's cache, in a pass: a stamp names one
payload wherever it is met (`Agree`), and a replica's copies are ordered (`OrderOf`): a pass reads production first and staging after,
so the payload it holds is never older than the keys it would replace. `CommitIsNewer` draws the conclusion for a commit
from copies that are both stale, which the resourceVersion of one Secret alone would not give.

The last two take a hypothesis: a repository with pods starts its Jobs in the steady state and none of its PATCHes fails
(`r.pods # {} => r.quiet /\ r.failures = 0`), which is what the run gives the repository with pods. Without the first, two rotations can
pass between two refreshes of a kubelet; without the second, a restarted script rotates its copy twice (`OldPrimaryRetained` below).
Crashes, changes of leader and dead Jobs stay arbitrary. The invariant is `SInv`: a Job works alone, from the keys that every pod
knows (`WorksAlone`); what it offers is the next rotation of them and no other valid payload is newer than production, in any copy
(`OfferIsNext`, which needs `IInv`: the commit is of that payload only); and a rotation, whatever it purges,
keeps the two keys in use, the primary one and the staged one that becomes primary (`RotatedIs`, where `MaxActive >= 3` is needed). So what two
pods know is never more than one rotation apart (`CommitSteady`), and rows are only under keys that both have.

`IdentityBackendsProofs` proves, for any number of backends, domains, workers, crashes and changes by an administrator, from
`BackendAssumption`:

| Theorem | Says |
| --- | --- |
| `ForeignAlwaysUntouched` | `Spec => []ForeignUntouched`: foreign domains are neither disabled, deleted nor taken over |
| `ConfigAlwaysHasDomain` | `Spec => []ConfigHasDomain`: a config is mounted only for a domain that exists or is on its way out |

A backend disposes of a domain by an ID read long before. What keeps
that safe is `ClaimsSafe`: every copy of a managed backend's status, in the API server, the cache and a pass, holds no ID
but one that was given to this backend (`Mine`), and the identity service gives out an ID once (`Moved`: how any step may change the domains).
`StepKeeps` and `FinishKeeps` carry the steps that hand on and those that end a pass.
For the second theorem the invariant `CInv` says of a domain that it is `Served`: it exists, the deletion of a backend of it has begun, or
an administrator was at it. Whoever holds an old Ready, in a cache, a pass or a rendered config, holds it of a served domain
(`ReadyServed`, `ConfigServed`), and a domain leaves, without the administrator, only behind a backend whose deletion has begun, which
no status written from an older copy takes back (`BackendGoes`).

`TeardownProofs` proves, for any namespaces, accounts and placements of the services, and any number of outages, refused updates
and moves of other tenants, from `TeardownAssumption`:

| Theorem | Says |
| --- | --- |
| `LeftoversAlwaysNamed` | `Spec => []Accounted`: what is left in OpenStack and OpenBao was named |
| `OrderlyAlwaysClean` | `Spec => []OrderlyIsClean`: what an orderly release leaves in the dedicated namespaces is in a leaving one, named, logged, or the credential of an undeclared account |
| `StoreAlwaysOutlivesChild` | `Spec => StoreOutlivesChild`: no store is taken from a service that purges its keys through it |
| `ForeignAlwaysKept` | `Spec => ForeignKept`: nothing of others is deleted |

The first two are about the moment of the release, but who else is still at work then decides. The invariant `TInv` has `Backed`: whatever exists in
OpenStack or OpenBao is held by an object or was named when its finalizer was forced; `Quiet`: after the release no live pass is under way and no object is left from
which K-ORC or External Secrets would make anything again; `Fresh`: without the finalizer, when a deletion ends at once, there is nothing
yet; `Housed` and `KeysHeld`: objects need their namespace, keys their Keystone; `Delivery`: an account's credentials are where the
sweep looks for them. What one sweep leaves is in the log it writes in the same step (`SweepIs`, `ReleaseIsClean`). The last two theorems say what a step may do (`NamespaceMoves`,
`ObjectMoves`).

`ControlPlaneProofs` proves, for any number of ControlPlanes, namespaces, edits, troubles and foreign objects, from
`ControlPlaneAssumption`:

| Theorem | Says |
| --- | --- |
| `OnlyRacesEverCollide` | `Spec => []OnlyRacesCollide`: two ControlPlanes meet in a namespace only through a race of their admissions |
| `KeysAlwaysKept` | `Spec => KeysKept`: a Keystone child goes only when that was asked for |
| `OnlyEndpointEverRejected` | `Spec => []OnlyEndpointRejected`, when users submit specs (`Requests`) |

The first rests on `PendingApart`: what is admitted and not stored yet is apart from all that is stored, or has raced it; an edit keeps
the claims (`EditKeepsClaims`). For the second, a pass leaves a child as it is unless it was asked (`PassIs`).
The third needs the most, for the child outlives the block that it was projected from, and may outlive its ControlPlane: `ChildrenFrozen`
holds of a spec without the block too; the webhook's rules together freeze the database that is projected, whether it is shared or
dedicated, though no single rule does (`EditKeepsDatabase`), and the place of the child (`EditKeepsPlace`); a new ControlPlane of an old
name owns nothing (`Numbered`: UIDs are given out once; `LabelsHeld`: what is known by its labels alone is held by a finalizer). `Requests` says
that an optional field of what a user submits holds at most one value; `DefaultIsSpec` that defaulting keeps it so.

`ServicesProofs` proves the two invariants of the service CRs for any specs, edits and PriorityClasses and any number of requests, from
`ServicesAssumption`, which says what the API server can read into a spec (`ServiceSpec`: each block has the fields of its Go type, and
whole numbers where the CRD has integers):

| Theorem | Says |
| --- | --- |
| `AdmittedAlwaysBuilds` | `SvcSpec => []AdmittedBuilds`: what was admitted builds, drains and is reachable |
| `StoredAlwaysReadmits` | `SvcSpec => []StoredReadmits`: what is stored is admitted again unchanged |

Defaulting is shown idempotent block by block and then by kind (`DefaultSettles`): a second default finds nothing to do, also where the
first has added to a list (`WebSSOSettles`). Validation is split in what depends on the cluster, the PriorityClass alone (`ValidStays`), and what
a copy of the spec keeps for good (`Buildable`); from the second the objects follow field by field (`BuildableBuilds`), for a pass that
works on an outdated spec, on a class that has gone, and with or without the federation proxy.

`FederationProofs` proves, for any backends, drafts, issuers, names and bounds, from `FederationAssumption` and `DraftsAssumption`
(what users write has the fields and the enumerations of the CRD):

| Theorem | Says |
| --- | --- |
| `ProjectionAlwaysSound` | `Spec => []ProjectionSound`: what is mounted is unambiguous, and keystone.conf is of the projection beside it |
| `FaultsStayIsolated` | `Spec => FaultIsolated`: a pass withdraws a backend only for a reason of its own |

Admissions race, so the webhook's rules on siblings cannot be relied on: the first theorem rests on the gates of the pass alone (`Reached`),
which drop both of two backends that claim one name (`ItemsDistinct`, `OneSAMLRender`, `DomainsDistinct`), and on the render cache (`MemoOK`).
The second needs what the webhook decided about the spec alone, which every attached backend still satisfies (`AdmittedSpec`); a pass that
fails leaves the Deployment as it is (`FailureKeeps`, `DeploymentChangesInAPass`). A backend's own reasons include metadata, given inline or
in a Secret, that names another entity than the spec (`Misnamed`, `K/reconcile_federation_saml.go:395`), and remembered metadata whose
introspection endpoint is no https (`Plaintext`): what stood in during an outage may be, and a pass that failed may have remembered it
beside a backend that is still mounted. The runs start at rest, in states of the same invariant.

Model-checked only: every liveness property. Liveness under fairness, ENABLED and induction over data are out of the prover's reach.

## Findings

With a run:

1. **Contract before the rollout is complete.** `IsDeploymentReady` (`C/deployment/deployment.go:166`)
   counts ready pods of any revision. With maxSurge 1 and maxUnavailable 0 the old pods keep
   the count up, and `K/reconcile_deployment.go:134` enters Contracting as soon as the new spec is observed.
   `docs/reference/keystone/keystone-upgrade-flow.md:142` says "rollout complete". The prune step
   (`K/keystone_controller.go:498-522`) relies on the same readiness.
2. **Services stranded by the stall branch.** Once a deletion has stalled, `reconcileDelete` forces the K-ORC finalizers and
   releases its own (`C5/reconcile_delete.go:581`) without `teardownDedicatedNamespaces`, of which the orderly branch says
   that "releasing first would strand every one of them" (`:441`).

Statements of the repository that a run would refute (the definition, when there is one, can be checked by naming it):

| Where | What | Definition |
| --- | --- | --- |
| `C/database/flow.go:296` | `installedRelease` lives in memory until the end of a pass that has deployed it; when that write conflicts, the next pass sees a first deployment and syncs another release in one shot | `OneShotSyncOnlyWhenFresh` |
| `K/scripts/fernet_rotate.sh:6` | a failed PATCH restarts the script on the same emptyDir, which is rotated twice; with three active keys the primary is purged at once, and for credential keys plaintext survives (`docs/guides/keystone-key-rotation.md:273`) | `OldPrimaryRetained`, `SwapKeepsRows` |
| `K/keystoneidentitybackend_controller.go:262` | the ID of a created domain is lost with its status write; the domain is then reported foreign for ever and `deletionPolicy: Delete` leaks it | `ForeignIsForeign` |
| `K/keystoneidentitybackend_controller.go:419` | the finalizer waits for the template, not for the pods that still serve the domain | `NoDeadDomain` |
| `G/reconcile_backends.go:37`, `:48` | the exactly-one-default rule counts a default by its reported CredentialsReady (`:121`); when its Secret is gone by then, its section is skipped for a per-backend fault (`:165`-`:180`) and glance-api.conf names a default that is not among its enabled_backends | `DefaultIsEnabled` |
| `G/reconcile_database.go:26`, `:86` | when the pass that rolled out a newer release loses its status write (the spec was edited back meanwhile), `installedRelease` still names the older one: going back is then no transition (`:72`), and the older release runs on the newer schema | `NeverDowngraded` |
| `C/deployment/builders.go:58` | the budget is chosen by `spec.replicas` "to avoid drain deadlock"; an autoscaler at its minimum of one replica still blocks a drain | `DrainNeverBlocked` |
| `KA/keystoneidentitybackend_webhook.go:784` | a terminating backend that was replaced meanwhile is refused the update that would release its finalizer | `ReplacedGoes` |
| `K/reconcile_identitybackends.go:366` | an aggregate Secret over the limit "is otherwise the one place a single backend CR is not fault-isolated"; a SAML backend's own certificate that does not parse fails the pass for every sibling, too (`K/reconcile_federation_saml.go:206`) | `SiblingsServe` |
| `K/reconcile_identitybackends.go:141` | "Wake-ups are watch-driven" (`:149`): a backend dropped for an unreachable metadata endpoint waits for no event | `OutageEnds` |
| `CA/controlplane_types.go:1082` | Ready at the current generation may mirror the child's readiness from before the apply (`C/reconcile/project.go:70`) | `ReadyIsCurrent` |
| `C5/reconcile_namespaces.go:163` | an object found under a child's name at home is adopted by the apply, though an externally-provisioned one is "never reshaped and never deleted" | ControlPlane's `ForeignKept` |
| `C5/reconcile_delete.go:107`, `:1041` | a refused update in the middle of a force-removal: the objects already freed are in no later warning | `AllNamed` |
| `C5/reconcile_delete.go:246` | a K-ORC object is left to a garbage collector that cannot finish it | `NoOrphanCR` |
| `C5/reconcile_delete.go:829` | "Any service-account credential delivered into this namespace" is swept; the loop visits the accounts still declared (`:835`), and one that was undeclared and not yet pruned when the deletion began keeps its Secret | `CredentialsSwept` |
| `C5/reconcile_delete.go:596`, `:412` | at home the collector takes the tenant store before Keystone has purged its keys through it | `StoreOutlivesKeys` |

Seen on the way, in parts that a model leaves out or takes as given:

- Upgrade and rotation: the version refresh of `RecordJobTerminalState` (above); a pass that reads an old CR and newer Jobs starts the
  contract Job of the upgrade that just ended again, and it may still run when a patch is installed (which is why `PhaseJobsBelong` allows the
  release installed up to its patch); a rejected staging payload is cleared although
  `docs/reference/keystone/keystone-reconciler.md` says it is retained for inspection; `K/database_jobs.go:120-121` says expand and
  migrate use the old release, the Jobs use the new image; rotation CronJobs leave `concurrencyPolicy` at Allow.
- Identity: KeystoneAPIReady may stay False after a pass on an old copy found nothing to write, until the poll; tearing down a
  Manage/Delete backend deletes a domain that a successor has adopted meanwhile, or its identity provider of the same name; an OIDC
  backend called "proxy" overwrites the key `proxy.conf` (`K/reconcile_federation.go:1030`); a changed `identityProviderName` or `protocolID`
  leaves the old objects behind; one `remoteIDAttribute` for all backends is a rule of the webhook only; the last-good
  Secret is sought by creation time and misses one that is used again.
- c5c3: `ensureMemcached` tests ownership by owner reference only (`C5/reconcile_infrastructure.go:484`); `deleteORCResources` deletes by
  derived name without that test; two ControlPlanes of one namespace created within a second exchange the incumbency; the
  public endpoint is not compared with the gateway, as `KA/keystone_webhook.go:755` will; an account called `probe-x` shares a name with a probe
  CR (`C5/reconcile_serviceaccounts.go:112`); a lookup error in `reconcile_dbcredentials.go:395` and `reconcile_adminpassword.go:207` leaves
  the condition as it was; `docs/reference/c5c3/controlplane-reconciler.md` omits NamespacesReady from the aggregate.

## Not modelled, and the plan

Components without a module, and why, are in `PROJECT.json`. Left out on purpose: rendering of text, charts, images; rules of a
webhook that look at the text or range of one field; metrics, events and wording; the timing of External
Secrets and OpenBao, of which the code states little. Abstractions to know of:

- ControlPlane's liveness excuses a ControlPlane that met another in a service namespace through a race of admissions (`Excused`): the code
  has no way out of that.
- Federation's three upserts run as one step with a failing prefix, and its Keystone pass as one step.
- Federation's Secrets are missing, malformed or too large as a whole: one flag for a backend's bind, client, certificate and metadata
  Secrets, and one for the stable keypair, which may be malformed once it is there. Errors of the API server are retried passes.
- In Teardown the source Secret and the ExternalSecret of an account are one object, which at home is left to the garbage collector; the
  backing services and their credentials are one object too.
- Teardown's live pass reads once; a namespace replaced under it is among the troubles, and so is an update that the API server refuses, the one
  that releases the ControlPlane included.
- Readiness of infrastructure, and the catalog, K-ORC and credential steps of a ControlPlane pass, are one outcome in ControlPlane and
  only what they leave behind in Teardown.

Next, by what they would add:

1. `ServiceAccounts`: creation order, rotation once per generation, forced re-sync of ExternalSecrets.
2. `PasswordRotation`: staging, push source, OpenBao, ExternalSecret, bootstrap Job; on the commit protocol of KeyRotation.
3. Two operator replicas in KeystoneUpgrade, with the version refresh under failover.
4. Keystone's deletion: adoption of ExternalSecrets and the wait for PushSecrets, which Teardown takes as one outcome.
5. Pods that restart on a pruned config revision; TLS modes and the connection Secret of `Database`.
