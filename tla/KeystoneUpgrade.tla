--------------------------- MODULE KeystoneUpgrade ---------------------------
(***************************************************************************)
(* The expand-migrate-contract upgrade of one Keystone CR: the operator's  *)
(* reconcile passes, the migration Jobs, the API Deployment and the user   *)
(* who edits spec.image.tag, interleaved.                                  *)
(*                                                                         *)
(* A pass reads the CR from the informer cache, runs the Database step,    *)
(* then (when that returns a zero result) the Deployment step, and writes  *)
(* the status it computed with an optimistic-concurrency update.  Each of  *)
(* these is an action, so an edit, a Job event or a crash can fall between *)
(* any two.  Jobs too are read from a cache that lags the API server.      *)
(*                                                                         *)
(* Abstracted: a tag stands for the whole pod template of a migration Job  *)
(* (image, ConfigMap, volumes), so the re-run key is the tag; condition    *)
(* reasons and messages; digest-pinned images, which switch release        *)
(* tracking off; the steps before and after the two modelled ones, which   *)
(* may end a pass early (StopEarly) and touch none of this state; status   *)
(* writes that change conditions only, which cost a later pass at most a   *)
(* conflict, that is, what Crash costs it.                                 *)
(***************************************************************************)
EXTENDS Integers, FiniteSets

LOCAL INSTANCE Functions

CONSTANTS
  Tags,         \* the image tags a user may put in spec.image.tag
  NoTag,        \* the empty string, in status and in an absent Job
  Patches,      \* patch suffixes of releases
  Parse,        \* release.ParseRelease: the release of each tag that parses
  Level,        \* [Tags -> Nat], the schema revision the image's code needs
  Replicas,     \* spec.replicas of the Deployment
  MaxEdits,     \* bound: how often the user edits the tag
  MaxCrashes,   \* bound: how often the operator process dies in a pass
  JobsMayFail   \* whether a migration Job may exhaust its backoffLimit

Rel == INSTANCE Release

ASSUME TagsAssumption == NoTag \notin Tags
ASSUME LevelAssumption == Level \in [Tags -> Nat]
ASSUME ParseAssumption == Parse \in [DOMAIN Parse -> Rel!Releases]
ASSUME BoundsAssumption ==
  /\ Replicas \in Nat \ {0}
  /\ MaxEdits \in Nat /\ MaxCrashes \in Nat
  /\ JobsMayFail \in BOOLEAN

PhaseJobs == {"db-expand", "db-migrate", "db-contract"}
Jobs == PhaseJobs \union {"db-sync", "schema-check"}
Phases == {"none", "Expanding", "Migrating", "RollingUpdate", "Contracting"}

Statuses == [installed : Tags \union {NoTag}, target : Tags \union {NoTag},
             phase : Phases, dbReady : BOOLEAN]
CRs == [tag : Tags, status : Statuses]

FreshStatus == [installed |-> NoTag, target |-> NoTag, phase |-> "none",
                dbReady |-> FALSE]
NoPass == [tag |-> NoTag, status |-> FreshStatus]

Absent == [st |-> "absent", tag |-> NoTag]
JobStates == [st : {"running", "complete", "failed"}, tag : Tags]
             \union {Absent}
Pods == [job : Jobs, tag : Tags]
NoDeployment == [tag |-> NoTag, observed |-> FALSE]

VARIABLES
  cr,        \* the Keystone CR in the API server
  seen,      \* the operator's cached copy of it
  stale,     \* which copies ("cache", "pass") a later write has overtaken
  pc,        \* where the current reconcile pass stands
  hand,      \* the CR as this pass read it
  work,      \* the status this pass is computing
  jobs,      \* the migration Jobs in the API server
  jobsSeen,  \* the operator's cached copy of them
  orphans,   \* Job pods still running after their Job was deleted
  schema,    \* how far each migration tree of the database has advanced
  dep,       \* the Deployment: its image tag, and whether it was observed
  ready,     \* the ready API pods, by tag
  edits,     \* how often the user has edited the tag
  crashes    \* how often the operator has died in a pass

operator == <<pc, hand, work>>
bounds == <<edits, crashes>>
cluster == <<jobs, orphans, schema, dep, ready>>
vars == <<cr, seen, stale, pc, hand, work, jobs, jobsSeen, orphans, schema,
          dep, ready, edits, crashes>>

TypeOK ==
  /\ cr \in CRs /\ seen \in CRs
  /\ IF pc = "idle" THEN hand = NoPass ELSE hand \in CRs
  /\ work \in Statuses
  /\ stale \subseteq {"cache", "pass"}
  /\ pc \in {"idle", "database", "deployment", "status"}
  /\ jobs \in [Jobs -> JobStates] /\ jobsSeen \in [Jobs -> JobStates]
  /\ orphans \subseteq Pods
  /\ schema \in [expand : Nat, migrate : Nat, contract : Nat]
  /\ dep \in [tag : Tags, observed : BOOLEAN] \union {NoDeployment}
  /\ ready \in [Tags -> Nat]
  /\ edits \in Nat /\ crashes \in Nat

Init ==
  /\ cr \in {[tag |-> t, status |-> FreshStatus] : t \in Tags}
  /\ seen = cr /\ hand = NoPass
  /\ work = FreshStatus
  /\ stale = {}
  /\ pc = "idle"
  /\ jobs = [j \in Jobs |-> Absent] /\ jobsSeen = jobs
  /\ orphans = {}
  /\ schema = [expand |-> 0, migrate |-> 0, contract |-> 0]
  /\ dep = NoDeployment
  /\ ready = [t \in Tags |-> 0]
  /\ edits = 0 /\ crashes = 0

-----------------------------------------------------------------------------
(* The user, the informers, and the operator process around a pass.        *)

EditTag(t) ==
  /\ edits < MaxEdits
  /\ t # cr.tag
  /\ cr' = [cr EXCEPT !.tag = t]
  /\ stale' = IF pc = "idle" THEN {"cache"} ELSE {"cache", "pass"}
  /\ edits' = edits + 1
  /\ UNCHANGED <<seen, operator, cluster, jobsSeen, crashes>>

SyncCR ==
  /\ "cache" \in stale
  /\ seen' = cr
  /\ stale' = stale \ {"cache"}
  /\ UNCHANGED <<cr, operator, cluster, jobsSeen, bounds>>

\* One informer watches all Jobs: its copies are of the same moment.
SyncJobs ==
  /\ jobsSeen # jobs
  /\ jobsSeen' = jobs
  /\ UNCHANGED <<cr, seen, stale, operator, cluster, bounds>>

BeginPass ==
  /\ pc = "idle"
  /\ pc' = "database"
  /\ hand' = seen
  /\ work' = seen.status
  /\ stale' = IF "cache" \in stale THEN {"cache", "pass"} ELSE {}
  /\ UNCHANGED <<cr, seen, cluster, jobsSeen, bounds>>

EndPass == pc' = "idle" /\ hand' = NoPass /\ work' = FreshStatus

\* The process dies: what the pass computed is lost, what it wrote is not.
Crash ==
  /\ crashes < MaxCrashes
  /\ pc # "idle"
  /\ EndPass
  /\ stale' = stale \ {"pass"}
  /\ crashes' = crashes + 1
  /\ UNCHANGED <<cr, seen, cluster, jobsSeen, edits>>

\* Another step ends the pass before the Database or the Deployment step.
StopEarly ==
  /\ pc \in {"database", "deployment"}
  /\ pc' = "status"
  /\ UNCHANGED <<cr, seen, stale, hand, work, cluster, jobsSeen, bounds>>

\* Mutant: a status write that ignores the resourceVersion it was read at.
UpdateStatusUnlocked ==
  /\ pc = "status"
  /\ EndPass
  /\ cr' = [cr EXCEPT !.status = work]
  /\ stale' = {"cache"}
  /\ UNCHANGED <<seen, cluster, jobsSeen, bounds>>

\* A status equal to the one read is not written; an overtaken one conflicts.
UpdateStatus ==
  /\ pc = "status"
  /\ EndPass
  /\ IF work = hand.status \/ "pass" \in stale
     THEN /\ stale' = stale \ {"pass"}
          /\ UNCHANGED cr
     ELSE /\ cr' = [cr EXCEPT !.status = work]
          /\ stale' = {"cache"}
  /\ UNCHANGED <<seen, cluster, jobsSeen, bounds>>

-----------------------------------------------------------------------------
(* job.RunJob: what it reports, from the cached Job, and what it does.      *)

Done(j, t) == jobsSeen[j] = [st |-> "complete", tag |-> t]
Terminal(js) == js.st \in {"complete", "failed"}
Outdated(j, t) == Terminal(jobsSeen[j]) /\ jobsSeen[j].tag # t

\* AlreadyExists is swallowed: an existing Job is left alone.
CreateJob(j, t) ==
  /\ jobs' = IF jobs[j] = Absent
             THEN [jobs EXCEPT ![j] = [st |-> "running", tag |-> t]]
             ELSE jobs
  /\ UNCHANGED orphans

\* The pod of a deleted running Job outlives it (Background propagation).
PodsOf(S) == {[job |-> j, tag |-> jobs[j].tag] :
                j \in {k \in S : jobs[k].st = "running"}}

\* Delete is by name: it removes whatever Job the API server now holds.  It
\* fails when there is none, and the Create that follows may fail too.
RecreateStaleJob(j, t) ==
  /\ orphans' = orphans \union PodsOf({j})
  /\ \E created \in BOOLEAN :
       jobs' = [jobs EXCEPT ![j] = IF created /\ jobs[j] # Absent
                                   THEN [st |-> "running", tag |-> t]
                                   ELSE Absent]

RunJob(j, t) ==
  IF Outdated(j, t) THEN RecreateStaleJob(j, t)
  ELSE IF jobsSeen[j] = Absent THEN CreateJob(j, t)
  ELSE UNCHANGED <<jobs, orphans>>

-----------------------------------------------------------------------------
(* reconcileDatabase.  Every action below needs the pass at that step.      *)

\* recordDBJobTerminalState: a terminal Job's UID is noted on the CR by a patch
\* without resourceVersion, which may fail or have been made before.  The pass
\* goes on at the version the patch returned: an edit, or a status write that it
\* did not see, no longer makes its own status write a conflict.
RecordTerminalState(observed) ==
  \/ UNCHANGED stale
  \/ /\ \E j \in observed : Terminal(jobsSeen[j])
     /\ stale' = stale \ {"pass"}

ReturnAfter(observed, next, status) ==
  /\ pc = "database"
  /\ pc' = next
  /\ work' = status
  /\ RecordTerminalState(observed)
  /\ UNCHANGED <<cr, seen, hand, jobsSeen, schema, dep, ready, bounds>>

Return(next, status) == ReturnAfter({}, next, status)

NotReady == [work EXCEPT !.dbReady = FALSE]
\* Mutant: no check that the tag is still the upgrade's target.
OnAnyTag == work.phase # "none" /\ hand.tag # work.installed

OnTarget == work.phase # "none" /\ hand.tag = work.target
                                /\ hand.tag # work.installed

\* ReconcileProvision: the MariaDB cluster or its Database CR is not ready.
ProvisionWait ==
  /\ Return("status", NotReady)
  /\ UNCHANGED <<jobs, orphans>>

\* Mutant: an abort only before the migrate phase.
RevertedWhileExpanding ==
  work.phase = "Expanding" /\ hand.tag = work.installed

Reverted == work.phase # "none" /\ hand.tag = work.installed

DeleteUpgradeJobs(deleted) ==
  /\ jobs' = [j \in Jobs |-> IF j \in deleted THEN Absent ELSE jobs[j]]
  /\ orphans' = orphans \union PodsOf(deleted)

AbortUpgrade ==
  /\ Reverted
  /\ DeleteUpgradeJobs(PhaseJobs)
  /\ Return("status", [work EXCEPT !.phase = "none", !.target = NoTag])

\* Mutant: the status is cleared although a delete failed.
AbortAnyway ==
  /\ Reverted
  /\ \E deleted \in {{}, {"db-expand"}, {"db-expand", "db-migrate"}} :
       DeleteUpgradeJobs(deleted)
  /\ Return("status", [work EXCEPT !.phase = "none", !.target = NoTag])

\* The phase Jobs are deleted one after the other.  A failing delete returns
\* before the status is cleared, so that the next pass retries the abort.
AbortInterrupted ==
  /\ Reverted
  /\ \E deleted \in {{}, {"db-expand"}, {"db-expand", "db-migrate"}} :
       DeleteUpgradeJobs(deleted)
  /\ Return("status", work)

TargetChanged ==
  /\ work.phase # "none"
  /\ hand.tag \notin {work.installed, work.target}
  /\ Return("status", NotReady)
  /\ UNCHANGED <<jobs, orphans>>

\* runUpgradePhase while the phase Job is not done, or has failed.
PhaseJobPending(phase, j) ==
  /\ OnTarget /\ work.phase = phase
  /\ ~ Done(j, hand.tag)
  /\ RunJob(j, hand.tag)
  /\ ReturnAfter({j}, "status", NotReady)

ReconcileExpand == PhaseJobPending("Expanding", "db-expand")
ReconcileMigrate == PhaseJobPending("Migrating", "db-migrate")
ReconcileContract == PhaseJobPending("Contracting", "db-contract")

\* Mutants: a Job that still runs is taken as done; so is an expand Job left by
\* an earlier upgrade; the phase is given the name of its Job step.
CompleteExpandRunning ==
  /\ OnTarget /\ work.phase = "Expanding"
  /\ jobsSeen["db-expand"].tag = hand.tag
  /\ ReturnAfter({"db-expand"}, "status",
                 [NotReady EXCEPT !.phase = "Migrating"])
  /\ UNCHANGED <<jobs, orphans>>

CompleteExpandLeftover ==
  /\ OnTarget /\ work.phase = "Expanding"
  /\ jobsSeen["db-expand"].st = "complete"
  /\ ReturnAfter({"db-expand"}, "status",
                 [NotReady EXCEPT !.phase = "Migrating"])
  /\ UNCHANGED <<jobs, orphans>>

CompleteExpandMisnamed ==
  /\ OnTarget /\ work.phase = "Expanding"
  /\ Done("db-expand", hand.tag)
  /\ ReturnAfter({"db-expand"}, "status",
                 [NotReady EXCEPT !.phase = "Migrate"])
  /\ UNCHANGED <<jobs, orphans>>

CompleteExpand ==
  /\ OnTarget /\ work.phase = "Expanding"
  /\ Done("db-expand", hand.tag)
  /\ ReturnAfter({"db-expand"}, "status",
                 [NotReady EXCEPT !.phase = "Migrating"])
  /\ UNCHANGED <<jobs, orphans>>

CompleteMigrate ==
  /\ OnTarget /\ work.phase = "Migrating"
  /\ Done("db-migrate", hand.tag)
  /\ ReturnAfter({"db-migrate"}, "status",
                 [NotReady EXCEPT !.phase = "RollingUpdate"])
  /\ UNCHANGED <<jobs, orphans>>

\* Mutant: like the other phases, it ends the pass and requeues.
RollingUpdateRequeues ==
  /\ OnTarget /\ work.phase = "RollingUpdate"
  /\ Return("status", NotReady)
  /\ UNCHANGED <<jobs, orphans>>

\* The only phase that lets the pass go on to the Deployment step.
ReconcileRollingUpdate ==
  /\ OnTarget /\ work.phase = "RollingUpdate"
  /\ Return("deployment", NotReady)
  /\ UNCHANGED <<jobs, orphans>>

CompleteContract ==
  /\ OnTarget /\ work.phase = "Contracting"
  /\ Done("db-contract", hand.tag)
  /\ ReturnAfter({"db-contract"}, "deployment",
                 [installed |-> work.target, target |-> NoTag,
                  phase |-> "none", dbReady |-> TRUE])
  /\ UNCHANGED <<jobs, orphans>>

Parsed(S) == S \subseteq DOMAIN Parse

IsUpgrade(from, to) ==
  /\ from \notin {NoTag, to}
  /\ Parsed({from, to}) => ~ Rel!IsPatchOnly(Parse[from], Parse[to])

ValidPath(from, to) ==
  /\ Parsed({from, to})
  /\ ~ Rel!IsDowngrade(Parse[from], Parse[to])
  /\ Rel!IsSequentialUpgrade(Parse[from], Parse[to])

\* Mutants: the path is only checked for downgrades; DatabaseReady is kept.
InitiateAnyUpgrade ==
  /\ work.phase = "none" /\ IsUpgrade(work.installed, hand.tag)
  /\ Return("status",
            IF /\ Parsed({work.installed, hand.tag})
               /\ ~ Rel!IsDowngrade(Parse[work.installed], Parse[hand.tag])
            THEN [NotReady EXCEPT !.target = hand.tag, !.phase = "Expanding"]
            ELSE NotReady)
  /\ UNCHANGED <<jobs, orphans>>

InitiateStillReady ==
  /\ work.phase = "none" /\ IsUpgrade(work.installed, hand.tag)
  /\ Return("status",
            IF ValidPath(work.installed, hand.tag)
            THEN [work EXCEPT !.target = hand.tag, !.phase = "Expanding"]
            ELSE NotReady)
  /\ UNCHANGED <<jobs, orphans>>

InitiateUpgrade ==
  /\ work.phase = "none" /\ IsUpgrade(work.installed, hand.tag)
  /\ Return("status",
            IF ValidPath(work.installed, hand.tag)
            THEN [NotReady EXCEPT !.target = hand.tag, !.phase = "Expanding"]
            ELSE NotReady)
  /\ UNCHANGED <<jobs, orphans>>

SteadyState == work.phase = "none" /\ ~ IsUpgrade(work.installed, hand.tag)

\* ReconcileSyncJobs: db-sync, then schema-check, then the installed marker.
SyncPending ==
  /\ SteadyState /\ ~ Done("db-sync", hand.tag)
  /\ RunJob("db-sync", hand.tag)
  /\ ReturnAfter({"db-sync"}, "status", NotReady)

SchemaCheckPending ==
  /\ SteadyState /\ Done("db-sync", hand.tag)
  /\ ~ Done("schema-check", hand.tag)
  /\ RunJob("schema-check", hand.tag)
  /\ ReturnAfter({"db-sync", "schema-check"}, "status", NotReady)

\* Mutant: the release is recorded without waiting for db-sync.
SyncAssumed ==
  /\ SteadyState
  /\ ReturnAfter({"db-sync", "schema-check"}, "deployment",
                 [work EXCEPT !.installed = hand.tag, !.dbReady = TRUE])
  /\ UNCHANGED <<jobs, orphans>>

SyncComplete ==
  /\ SteadyState /\ Done("db-sync", hand.tag) /\ Done("schema-check", hand.tag)
  /\ ReturnAfter({"db-sync", "schema-check"}, "deployment",
                 [work EXCEPT !.installed = hand.tag, !.dbReady = TRUE])
  /\ UNCHANGED <<jobs, orphans>>

DatabaseWork ==
  \/ AbortUpgrade \/ AbortInterrupted \/ TargetChanged \/ InitiateUpgrade
  \/ ReconcileExpand \/ CompleteExpand \/ ReconcileMigrate \/ CompleteMigrate
  \/ ReconcileRollingUpdate \/ ReconcileContract \/ CompleteContract
  \/ SyncPending \/ SchemaCheckPending \/ SyncComplete

ReconcileDatabase == ProvisionWait \/ DatabaseWork

-----------------------------------------------------------------------------
(* reconcileDeployment.                                                     *)

\* IsDeploymentReady: the spec is observed and enough pods are ready.  The
\* count does not ask which revision the pods run.
DeploymentReady ==
  /\ dep.tag = hand.tag /\ dep.observed
  /\ SumFunction(ready) >= Replicas

ReturnDeployment(status) ==
  /\ pc = "deployment"
  /\ pc' = "status"
  /\ work' = status
  /\ UNCHANGED <<cr, seen, stale, hand, jobs, jobsSeen, orphans, schema,
                 ready, bounds>>

\* EnsureDeployment changed the pod template: not ready in this pass.
ApplyDeployment ==
  /\ dep.tag # hand.tag
  /\ ReturnDeployment(work)
  /\ dep' = [tag |-> hand.tag, observed |-> FALSE]

DeploymentWait ==
  /\ dep.tag = hand.tag /\ ~ DeploymentReady
  /\ ReturnDeployment(work)
  /\ UNCHANGED dep

DeploymentIsReady ==
  /\ DeploymentReady
  /\ ReturnDeployment(IF work.phase = "RollingUpdate"
                      THEN [work EXCEPT !.phase = "Contracting"]
                      ELSE work)
  /\ UNCHANGED dep

ReconcileDeployment == ApplyDeployment \/ DeploymentWait \/ DeploymentIsReady

-----------------------------------------------------------------------------
(* The cluster: Job pods and the Deployment controller.                     *)

Raise(head, l) == IF head < l THEN l ELSE head

\* What a finished keystone-manage db_sync variant leaves in the database.
SchemaAfter(j, t) ==
  LET l == Level[t] IN
  CASE j = "db-sync"     -> [expand   |-> Raise(schema.expand, l),
                             migrate  |-> Raise(schema.migrate, l),
                             contract |-> Raise(schema.contract, l)]
    [] j = "db-expand"   -> [schema EXCEPT !.expand = Raise(@, l)]
    [] j = "db-migrate"  -> [schema EXCEPT !.migrate = Raise(@, l)]
    [] j = "db-contract" -> [schema EXCEPT !.contract = Raise(@, l)]
    [] OTHER             -> schema

UpToDate(t) ==
  /\ schema.expand >= Level[t]
  /\ schema.migrate >= Level[t]
  /\ schema.contract >= Level[t]

\* Timing: a Job's pod takes longer to start and end than the informer of the
\* Keystone CR lags and a pass that read the CR before lasts.
OperatorKeptUp == stale = {}

JobSucceeds(j) ==
  /\ jobs[j].st = "running" /\ OperatorKeptUp
  /\ j = "schema-check" => UpToDate(jobs[j].tag)
  /\ schema' = SchemaAfter(j, jobs[j].tag)
  /\ jobs' = [jobs EXCEPT ![j].st = "complete"]
  /\ UNCHANGED <<cr, seen, stale, operator, jobsSeen, orphans, dep, ready,
                 bounds>>

\* backoffLimit is exhausted, perhaps after the migration had taken effect.
JobFails(j) ==
  /\ jobs[j].st = "running" /\ OperatorKeptUp
  /\ JobsMayFail \/ (j = "schema-check" /\ ~ UpToDate(jobs[j].tag))
  /\ schema' \in {schema, SchemaAfter(j, jobs[j].tag)}
  /\ jobs' = [jobs EXCEPT ![j].st = "failed"]
  /\ UNCHANGED <<cr, seen, stale, operator, jobsSeen, orphans, dep, ready,
                 bounds>>

\* The pod of a deleted Job is killed, before or after its migration landed.
OrphanEnds(o) ==
  /\ o \in orphans
  /\ orphans' = orphans \ {o}
  /\ schema' \in {schema, SchemaAfter(o.job, o.tag)}
  /\ UNCHANGED <<cr, seen, stale, operator, jobs, jobsSeen, dep, ready, bounds>>

ObserveDeployment ==
  /\ dep.tag # NoTag /\ ~ dep.observed
  /\ dep' = [dep EXCEPT !.observed = TRUE]
  /\ UNCHANGED <<cr, seen, stale, operator, jobs, jobsSeen, orphans, schema,
                 ready, bounds>>

\* MaxSurge = 1: one pod more than Replicas while rolling.
StartPod ==
  /\ dep.observed
  /\ ready[dep.tag] < Replicas
  /\ SumFunction(ready) <= Replicas
  /\ ready' = [ready EXCEPT ![dep.tag] = @ + 1]
  /\ UNCHANGED <<cr, seen, stale, operator, jobs, jobsSeen, orphans, schema,
                 dep, bounds>>

\* MaxUnavailable = 0: an old pod goes only when it is one too many.
StopPod(t) ==
  /\ dep.observed
  /\ t # dep.tag /\ ready[t] > 0
  /\ SumFunction(ready) > Replicas
  /\ ready' = [ready EXCEPT ![t] = @ - 1]
  /\ UNCHANGED <<cr, seen, stale, operator, jobs, jobsSeen, orphans, schema,
                 dep, bounds>>

-----------------------------------------------------------------------------
Pass == BeginPass \/ ReconcileDatabase \/ ReconcileDeployment \/ UpdateStatus

JobEnds == \E j \in Jobs : JobSucceeds(j) \/ JobFails(j)
Rollout == ObserveDeployment \/ StartPod \/ \E t \in Tags : StopPod(t)

Next ==
  \/ \E t \in Tags : EditTag(t)
  \/ SyncCR \/ SyncJobs
  \/ JobEnds
  \/ \E o \in orphans : OrphanEnds(o)
  \/ Pass \/ Crash \/ StopEarly
  \/ Rollout

Spec == Init /\ [][Next]_vars

(***************************************************************************)
(* Fairness.  controller-runtime re-runs a CR that was requeued, changed   *)
(* or errored, so a pass always begins and always goes on to its next      *)
(* step; other steps may cut it short again and again, but not for ever,    *)
(* hence strong fairness on the two steps; and the API server does not     *)
(* refuse the deletes of an abort for ever.  MaxCrashes bounds crashes.    *)
(* Informers deliver, running Jobs end one after the other, and the        *)
(* Deployment controller takes some step of a rollout while it can.        *)
(***************************************************************************)
Fairness ==
  /\ WF_vars(BeginPass)
  /\ SF_vars(DatabaseWork)
  /\ SF_vars(AbortUpgrade)
  /\ SF_vars(ReconcileDeployment)
  /\ WF_vars(UpdateStatus)
  /\ WF_vars(SyncCR) /\ WF_vars(SyncJobs)
  /\ WF_vars(JobEnds)
  /\ WF_vars(Rollout)

FairSpec == Spec /\ Fairness

-----------------------------------------------------------------------------
(* Properties.                                                              *)

Migrated(t) == schema.expand >= Level[t] /\ schema.migrate >= Level[t]

\* An API pod only ever runs a release whose expand and migrate migrations the
\* database has: the Database step of a pass gates its Deployment step for the
\* tag that pass read, whatever was edited, cached, retried or lost meanwhile.
PodsHaveSchema ==
  \A t \in Tags : ready[t] > 0 \/ dep.tag = t => Migrated(t)

\* The migrations of one upgrade start in order: there is a migrate Job for a
\* tag only once the database is expanded for it, a contract Job only once it
\* is migrated.  A Job left over from an earlier upgrade, still in the cache,
\* must not pass for this upgrade's (RunJob's re-run key).
MigrationsInOrder ==
  /\ jobs["db-migrate"] # Absent =>
       schema.expand >= Level[jobs["db-migrate"].tag]
  /\ jobs["db-contract"] # Absent => Migrated(jobs["db-contract"].tag)

\* status.installedRelease names a release the database really carries.
InstalledIsMigrated ==
  cr.status.installed # NoTag => Migrated(cr.status.installed)

\* An unfinished upgrade always shows: DatabaseReady is never True beside an
\* upgradePhase, and phase and target come and go together.
UpgradeIsVisible ==
  /\ cr.status.phase # "none" => ~ cr.status.dbReady
  /\ (cr.status.phase = "none") <=> (cr.status.target = NoTag)

\* A phase Job that runs is one of the target of the upgrade in flight, or of
\* the release installed (whose contract Job a pass on an old copy may start
\* again): an abort leaves no Job behind, even when its first attempt lost the
\* status write and an edit came between.
PhaseJobsBelong ==
  \A j \in PhaseJobs :
    jobs[j].st = "running" /\ jobs[j].tag # cr.status.target =>
      /\ cr.status.installed # NoTag
      /\ ~ IsUpgrade(cr.status.installed, jobs[j].tag)

\* Once recorded, the installed release moves only to a patch of itself or to
\* the next release, however edits, aborts and lost status writes interleave.
NoReleaseSkipped ==
  [][cr.status.installed \notin {NoTag, cr'.status.installed} =>
       /\ cr'.status.installed # NoTag
       /\ ~ IsUpgrade(cr.status.installed, cr'.status.installed)
          \/ ValidPath(cr.status.installed, cr'.status.installed)]_cr

\* A phase never restarts or is skipped: an upgrade in flight keeps its target
\* and only moves to the next phase, until it completes or is aborted.
NextPhase == {<<"Expanding", "Migrating">>, <<"Migrating", "RollingUpdate">>,
              <<"RollingUpdate", "Contracting">>}
PhasesAdvance ==
  [][LET now == cr.status  then == cr'.status IN
     now.phase # "none" /\ then.phase # "none" /\ now # then =>
       /\ then.target = now.target /\ then.installed = now.installed
       /\ now.phase = then.phase \/ <<now.phase, then.phase>> \in NextPhase]_cr

\* The upgrade implements MigrationPromise: whatever is cached, retried, deleted
\* or lost, every migration that takes effect (also in a pod whose Job is gone)
\* has its predecessors behind it, every status written is true of the database,
\* and no release is rolled out before its schema.
Promise == INSTANCE MigrationPromise WITH
  status <- cr.status,
  serving <- {t \in Tags : ready[t] > 0 \/ dep.tag = t}
KeepsPromise == Promise!Spec

\* Reverting the tag to the installed release always ends the upgrade, even one
\* wedged on a permanently failed Job or on a tag changed under way.
AbortEscapes ==
  <>[](cr.tag = cr.status.installed) => <>[](cr.status.phase = "none")

\* An upgrade the user leaves alone completes, unless one of its Jobs fails
\* for good: the release is recorded and reported ready (again after every
\* wait for the MariaDB cluster), and only its pods serve.
Wanted(t) ==
  /\ cr.tag = t
  /\ \/ cr.status.phase # "none" /\ t = cr.status.target
     \/ cr.status.phase = "none" /\
        \/ cr.status.installed \in {NoTag, t}
        \/ ValidPath(cr.status.installed, t)
     \/ cr.status.phase = "none" /\ ~ IsUpgrade(cr.status.installed, t)

Served(t) ==
  /\ cr.status.installed = t /\ cr.status.phase = "none"
  /\ dep.tag = t /\ ready[t] = Replicas
  /\ \A u \in Tags \ {t} : ready[u] = 0

UpgradeCompletes ==
  \A t \in Tags :
    <>[](Wanted(t) /\ \A j \in Jobs : jobs[j].st # "failed") =>
      <>[]Served(t) /\ []<>cr.status.dbReady

-----------------------------------------------------------------------------
(* Two statements of the documentation the code does not live up to.        *)

\* The contract Job starts only after the rollout: no pod of an older release
\* is left when it runs (keystone-upgrade-flow.md, "Phase Transitions").
ContractAfterRollout ==
  jobs["db-contract"].st = "running" =>
    \A t \in Tags : ready[t] > 0 => Level[t] >= Level[jobs["db-contract"].tag]

\* The one-shot db_sync is for first deployments and patches: it never takes
\* the database to another release under pods that serve the old one.
OneShotSyncOnlyWhenFresh ==
  jobs["db-sync"].st = "running" =>
    \A t \in Tags : ready[t] > 0 => ~ IsUpgrade(t, jobs["db-sync"].tag)
=============================================================================
