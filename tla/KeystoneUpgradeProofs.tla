------------------------ MODULE KeystoneUpgradeProofs ------------------------
(***************************************************************************)
(* Theorems about KeystoneUpgrade, for every set of tags, every assignment *)
(* of releases and schema levels to them, and every bound.                 *)
(***************************************************************************)
EXTENDS KeystoneUpgrade, TLAPS

USE DEF PhaseJobs, Jobs

Schemas == [expand : Nat, migrate : Nat, contract : Nat]

LEMMA RunJobTypes ==
  ASSUME TypeOK, NEW j \in Jobs, NEW t \in Tags, RunJob(j, t)
  PROVE  /\ jobs' \in [Jobs -> JobStates]
         /\ orphans' \subseteq Pods
<1>. USE DEF TypeOK, JobStates, Absent, Pods
<1>1. CASE Outdated(j, t)
  <2>1. RecreateStaleJob(j, t)
    BY <1>1 DEF RunJob
  <2>2. jobs' \in [Jobs -> JobStates]
    BY <2>1 DEF RecreateStaleJob
  <2>3. PodsOf({j}) \subseteq Pods
    BY DEF PodsOf
  <2>. QED
    BY <2>1, <2>2, <2>3 DEF RecreateStaleJob
<1>2. CASE ~ Outdated(j, t) /\ jobsSeen[j] = Absent
  BY <1>2 DEF RunJob, CreateJob
<1>3. CASE ~ Outdated(j, t) /\ jobsSeen[j] # Absent
  BY <1>3 DEF RunJob
<1>. QED
  BY <1>1, <1>2, <1>3

LEMMA SchemaAfterType ==
  ASSUME TypeOK, NEW j \in Jobs, NEW t \in Tags
  PROVE  SchemaAfter(j, t) \in Schemas
<1>1. Level[t] \in Nat
  BY LevelAssumption
<1>. QED
  BY <1>1 DEF TypeOK, SchemaAfter, Raise, Schemas

LEMMA TypeInitially ==
  ASSUME Init
  PROVE  TypeOK
<1>1. PICK t \in Tags : cr = [tag |-> t, status |-> FreshStatus]
  BY DEF Init
<1>2. FreshStatus \in Statuses
  BY DEF FreshStatus, Statuses, Phases
<1>3. cr \in CRs /\ seen \in CRs
  BY <1>1, <1>2 DEF CRs, Init
<1>4. jobs \in [Jobs -> JobStates] /\ jobsSeen = jobs
  BY DEF Init, JobStates
<1>. QED
  BY <1>2, <1>3, <1>4 DEF Init, TypeOK

\* The Database step hands on a typed status and, if it ran a Job, typed Jobs.
LEMMA DatabaseTypes ==
  ASSUME TypeOK, ReconcileDatabase
  PROVE  TypeOK'
<1>. USE DEF TypeOK
<1>1. pc = "database" /\ hand \in CRs
  BY DEF ReconcileDatabase, DatabaseWork, ProvisionWait, AbortUpgrade,
         AbortInterrupted, TargetChanged, InitiateUpgrade, ReconcileExpand,
         ReconcileMigrate, ReconcileContract, PhaseJobPending, CompleteExpand,
         CompleteMigrate, ReconcileRollingUpdate, CompleteContract,
         SyncPending, SchemaCheckPending, SyncComplete, Return, ReturnAfter
<1>2. NotReady \in Statuses /\ hand.tag \in Tags
  BY <1>1 DEF NotReady, Statuses, CRs
<1>3. SUFFICES /\ work' \in Statuses
               /\ pc' \in {"deployment", "status"}
               /\ jobs' \in [Jobs -> JobStates]
               /\ orphans' \subseteq Pods
               /\ stale' \subseteq stale
               /\ UNCHANGED <<cr, seen, hand, jobsSeen, schema, dep, ready,
                              edits, crashes>>
  BY <1>1
<1>4. ASSUME NEW next \in {"deployment", "status"}, NEW status \in Statuses,
             NEW observed, ReturnAfter(observed, next, status)
      PROVE  /\ work' \in Statuses
             /\ pc' \in {"deployment", "status"}
             /\ stale' \subseteq stale
             /\ UNCHANGED <<cr, seen, hand, jobsSeen, schema, dep, ready,
                            edits, crashes>>
  BY <1>4 DEF ReturnAfter, RecordTerminalState, bounds
<1>5. CASE ProvisionWait
  BY <1>2, <1>4, <1>5 DEF ProvisionWait, Return
<1>6. ASSUME NEW S \in SUBSET PhaseJobs, DeleteUpgradeJobs(S)
      PROVE  jobs' \in [Jobs -> JobStates] /\ orphans' \subseteq Pods
  <2>1. PodsOf(S) \subseteq Pods
    BY DEF PodsOf, Pods, JobStates, Absent
  <2>. QED
    BY <1>6, <2>1 DEF DeleteUpgradeJobs, JobStates
<1>7. CASE AbortUpgrade
  <2>1. [work EXCEPT !.phase = "none", !.target = NoTag] \in Statuses
    BY DEF Statuses, Phases
  <2>. QED
    BY <1>4, <1>6, <1>7, <2>1 DEF AbortUpgrade, Return
<1>8. CASE AbortInterrupted
  BY <1>4, <1>6, <1>8 DEF AbortInterrupted, Return
<1>9. CASE TargetChanged
  BY <1>2, <1>4, <1>9 DEF TargetChanged, Return
<1>10. CASE InitiateUpgrade
  <2>1. [NotReady EXCEPT !.target = hand.tag, !.phase = "Expanding"] \in Statuses
    BY <1>2 DEF Statuses, Phases
  <2>. QED
    BY <1>2, <1>4, <1>10, <2>1 DEF InitiateUpgrade, Return
<1>11. CASE ReconcileExpand \/ ReconcileMigrate \/ ReconcileContract
  <2>1. PICK j \in Jobs : /\ RunJob(j, hand.tag)
                       /\ \E S : ReturnAfter(S, "status", NotReady)
    BY <1>11 DEF ReconcileExpand, ReconcileMigrate, ReconcileContract,
                 PhaseJobPending
  <2>. QED
    BY <1>2, <1>4, <2>1, RunJobTypes
<1>12. CASE CompleteExpand \/ CompleteMigrate
  <2>1. /\ [NotReady EXCEPT !.phase = "Migrating"] \in Statuses
        /\ [NotReady EXCEPT !.phase = "RollingUpdate"] \in Statuses
    BY <1>2 DEF Statuses, Phases
  <2>. QED
    BY <1>4, <1>12, <2>1 DEF CompleteExpand, CompleteMigrate
<1>13. CASE ReconcileRollingUpdate
  BY <1>2, <1>4, <1>13 DEF ReconcileRollingUpdate, Return
<1>14. CASE CompleteContract
  <2>1. [installed |-> work.target, target |-> NoTag, phase |-> "none",
         dbReady |-> TRUE] \in Statuses
    BY DEF Statuses, Phases
  <2>. QED
    BY <1>4, <1>14, <2>1 DEF CompleteContract
<1>15. CASE SyncPending \/ SchemaCheckPending
  <2>1. PICK j \in Jobs : /\ RunJob(j, hand.tag)
                       /\ \E S : ReturnAfter(S, "status", NotReady)
    BY <1>15 DEF SyncPending, SchemaCheckPending
  <2>. QED
    BY <1>2, <1>4, <2>1, RunJobTypes
<1>16. CASE SyncComplete
  <2>1. [work EXCEPT !.installed = hand.tag, !.dbReady = TRUE] \in Statuses
    BY <1>2 DEF Statuses
  <2>. QED
    BY <1>4, <1>16, <2>1 DEF SyncComplete
<1>. QED
  BY <1>5, <1>7, <1>8, <1>9, <1>10, <1>11, <1>12, <1>13, <1>14, <1>15, <1>16
     DEF ReconcileDatabase, DatabaseWork

LEMMA DeploymentTypes ==
  ASSUME TypeOK, ReconcileDeployment
  PROVE  TypeOK'
<1>. USE DEF TypeOK, ReturnDeployment, bounds
<1>1. CASE ApplyDeployment
  BY <1>1 DEF ApplyDeployment, CRs
<1>2. CASE DeploymentWait
  BY <1>2 DEF DeploymentWait
<1>3. CASE DeploymentIsReady
  <2>1. [work EXCEPT !.phase = "Contracting"] \in Statuses
    BY DEF Statuses, Phases
  <2>. QED
    BY <1>3, <2>1 DEF DeploymentIsReady
<1>. QED
  BY <1>1, <1>2, <1>3 DEF ReconcileDeployment

LEMMA TypeStep ==
  ASSUME TypeOK, [Next]_vars
  PROVE  TypeOK'
<1>. USE DEF TypeOK, operator, cluster, bounds
<1>1. FreshStatus \in Statuses /\ \A c \in CRs : c.status \in Statuses
  BY DEF FreshStatus, Statuses, Phases, CRs
<1>2. ASSUME NEW t \in Tags, EditTag(t) PROVE TypeOK'
  BY <1>2 DEF EditTag, CRs
<1>3. CASE SyncCR
  BY <1>3 DEF SyncCR
<1>4. CASE SyncJobs
  BY <1>4 DEF SyncJobs
<1>5. CASE BeginPass
  BY <1>1, <1>5 DEF BeginPass
<1>6. CASE Crash
  BY <1>1, <1>6 DEF Crash, EndPass
<1>7. CASE StopEarly
  BY <1>7 DEF StopEarly
<1>8. CASE UpdateStatus
  BY <1>1, <1>8 DEF UpdateStatus, EndPass, CRs
<1>9. CASE ReconcileDatabase
  BY <1>9, DatabaseTypes
<1>10. CASE ReconcileDeployment
  BY <1>10, DeploymentTypes
<1>11. ASSUME NEW j \in Jobs, JobSucceeds(j) \/ JobFails(j) PROVE TypeOK'
  <2>1. jobs[j] \in JobStates /\ jobs[j].st = "running"
    BY <1>11 DEF JobSucceeds, JobFails
  <2>2. jobs[j].tag \in Tags
    BY <2>1 DEF JobStates, Absent
  <2>3. schema' \in Schemas
    BY <1>11, <2>2, SchemaAfterType DEF JobSucceeds, JobFails, Schemas
  <2>4. PICK st \in {"complete", "failed"} :
          jobs' = [jobs EXCEPT ![j].st = st]
    BY <1>11 DEF JobSucceeds, JobFails
  <2>5. [jobs[j] EXCEPT !.st = st] \in JobStates
    BY <2>1, <2>2 DEF JobStates, Absent
  <2>6. jobs' \in [Jobs -> JobStates]
    BY <2>4, <2>5
  <2>. QED
    BY <1>11, <2>3, <2>6 DEF JobSucceeds, JobFails, Schemas
<1>12. ASSUME NEW o \in orphans, OrphanEnds(o) PROVE TypeOK'
  <2>1. o.job \in Jobs /\ o.tag \in Tags
    BY DEF Pods
  <2>2. schema' \in Schemas
    BY <1>12, <2>1, SchemaAfterType DEF OrphanEnds, Schemas
  <2>. QED
    BY <1>12, <2>2 DEF OrphanEnds, Schemas
<1>13. CASE ObserveDeployment
  <2>1. dep.tag # NoTag /\ dep' = [dep EXCEPT !.observed = TRUE]
    BY <1>13 DEF ObserveDeployment
  <2>2. dep # NoDeployment
    BY <2>1 DEF NoDeployment
  <2>3. dep' \in [tag : Tags, observed : BOOLEAN]
    BY <2>1, <2>2
  <2>. QED
    BY <1>13, <2>3 DEF ObserveDeployment
<1>14. CASE StartPod
  <2>1. ready' = [ready EXCEPT ![dep.tag] = ready[dep.tag] + 1]
    BY <1>14 DEF StartPod
  <2>2. dep.tag \in Tags
    BY <1>14 DEF StartPod, NoDeployment
  <2>3. ready' \in [Tags -> Nat]
    BY <2>1, <2>2
  <2>. QED
    BY <1>14, <2>3 DEF StartPod
<1>15. ASSUME NEW t \in Tags, StopPod(t) PROVE TypeOK'
  BY <1>15 DEF StopPod
<1>16. CASE UNCHANGED vars
  BY <1>16 DEF vars
<1>. QED
  BY <1>2, <1>3, <1>4, <1>5, <1>6, <1>7, <1>8, <1>9, <1>10, <1>11, <1>12,
     <1>13, <1>14, <1>15, <1>16 DEF Next, Pass, JobEnds, Rollout

\* Every variable keeps its type, for every choice of the constants.
THEOREM TypeCorrect == Spec => []TypeOK
<1>1. Init => TypeOK
  BY TypeInitially
<1>2. TypeOK /\ [Next]_vars => TypeOK'
  BY TypeStep
<1>. QED
  BY <1>1, <1>2, PTL DEF Spec

-----------------------------------------------------------------------------
(***************************************************************************)
(* The inductive invariant.  What the persisted status, its cached and     *)
(* in-flight copies, the Jobs and the pods claim about the database is     *)
(* true of the database, and stays true because its revisions only grow.   *)
(***************************************************************************)
Has(sch, t) == sch.expand >= Level[t] /\ sch.migrate >= Level[t]

StatusSafe(s, sch) ==
  /\ s.installed # NoTag => Has(sch, s.installed)
  /\ (s.phase = "none") <=> (s.target = NoTag)
  /\ s.phase # "none" => ~ s.dbReady
  /\ s.phase \in {"Migrating", "RollingUpdate", "Contracting"} =>
       sch.expand >= Level[s.target]
  /\ s.phase \in {"RollingUpdate", "Contracting"} => Has(sch, s.target)

JobSafe(j, js, sch) ==
  /\ js.st = "complete" =>
       /\ j = "db-sync" => Has(sch, js.tag)
       /\ j = "db-expand" => sch.expand >= Level[js.tag]
       /\ j = "db-migrate" => sch.migrate >= Level[js.tag]
  /\ js # Absent =>
       /\ j = "db-migrate" => sch.expand >= Level[js.tag]
       /\ j = "db-contract" => Has(sch, js.tag)

CopiesSafe ==
  /\ StatusSafe(cr.status, schema)
  /\ StatusSafe(seen.status, schema)
  /\ StatusSafe(hand.status, schema)
  /\ StatusSafe(work, schema)
JobsSafe ==
  /\ \A j \in Jobs : JobSafe(j, jobs[j], schema)
  /\ \A j \in Jobs : JobSafe(j, jobsSeen[j], schema)
PodsSafe ==
  /\ pc = "deployment" => Has(schema, hand.tag)
  /\ dep.tag # NoTag => Has(schema, dep.tag)
  /\ \A t \in Tags : ready[t] > 0 => Has(schema, t)

IInv == TypeOK /\ CopiesSafe /\ JobsSafe /\ PodsSafe

Below(a, b) == a.expand <= b.expand /\ a.migrate <= b.migrate

LEMMA HasMonotone ==
  ASSUME NEW a \in Schemas, NEW b \in Schemas, Below(a, b)
  PROVE  \A t \in Tags : /\ Has(a, t) => Has(b, t)
                         /\ a.expand >= Level[t] => b.expand >= Level[t]
                         /\ a.migrate >= Level[t] => b.migrate >= Level[t]
<1>1. \A t \in Tags : Level[t] \in Nat
  BY LevelAssumption
<1>. QED
  BY <1>1 DEF Has, Below, Schemas

LEMMA StatusMonotone ==
  ASSUME NEW a \in Schemas, NEW b \in Schemas, Below(a, b)
  PROVE  \A s \in Statuses : StatusSafe(s, a) => StatusSafe(s, b)
<1>. TAKE s \in Statuses
<1>. HAVE StatusSafe(s, a)
<1>1. s.installed \in Tags \union {NoTag} /\ s.target \in Tags \union {NoTag}
  BY DEF Statuses
<1>. QED
  BY <1>1, HasMonotone DEF StatusSafe

LEMMA JobMonotone ==
  ASSUME NEW a \in Schemas, NEW b \in Schemas, Below(a, b)
  PROVE  \A j \in Jobs, js \in JobStates :
           JobSafe(j, js, a) => JobSafe(j, js, b)
<1>. TAKE j \in Jobs, js \in JobStates
<1>. HAVE JobSafe(j, js, a)
<1>1. js = Absent \/ js.tag \in Tags
  BY DEF JobStates
<1>. QED
  BY <1>1, HasMonotone DEF JobSafe, Absent

\* A migration only ever raises the revisions, and reaches its own.
LEMMA SchemaGrows ==
  ASSUME TypeOK, NEW j \in Jobs, NEW t \in Tags
  PROVE  /\ schema \in Schemas /\ SchemaAfter(j, t) \in Schemas
         /\ Below(schema, schema) /\ Below(schema, SchemaAfter(j, t))
         /\ j = "db-sync" => Has(SchemaAfter(j, t), t)
         /\ j = "db-expand" => SchemaAfter(j, t).expand >= Level[t]
         /\ j = "db-migrate" => SchemaAfter(j, t).migrate >= Level[t]
<1>1. Level[t] \in Nat /\ schema \in Schemas
  BY LevelAssumption DEF TypeOK, Schemas
<1>2. SchemaAfter(j, t) \in Schemas
  BY SchemaAfterType
<1>. QED
  BY <1>1, <1>2 DEF SchemaAfter, Raise, Schemas, Below, Has

\* The invariant survives a step that raises the schema and touches no Job.
LEMMA SafetyMonotone ==
  ASSUME IInv, NEW b \in Schemas, Below(schema, b)
  PROVE  /\ \A s \in {cr.status, seen.status, hand.status, work} :
              StatusSafe(s, b)
         /\ \A j \in Jobs : JobSafe(j, jobs[j], b) /\ JobSafe(j, jobsSeen[j], b)
         /\ pc = "deployment" => Has(b, hand.tag)
         /\ dep.tag # NoTag => Has(b, dep.tag)
         /\ \A t \in Tags : ready[t] > 0 => Has(b, t)
<1>1. schema \in Schemas
  BY DEF IInv, TypeOK, Schemas
<1>2. \A s \in {cr.status, seen.status, hand.status, work} : s \in Statuses
  <2>1. FreshStatus \in Statuses
    BY DEF FreshStatus, Statuses, Phases
  <2>2. NoPass.status \in Statuses /\ \A c \in CRs : c.status \in Statuses
    BY <2>1 DEF NoPass, CRs
  <2>. QED
    BY <2>2 DEF IInv, TypeOK
<1>3. \A s \in {cr.status, seen.status, hand.status, work} : StatusSafe(s, b)
  BY <1>1, <1>2, StatusMonotone DEF IInv, CopiesSafe
<1>4. \A j \in Jobs : JobSafe(j, jobs[j], b) /\ JobSafe(j, jobsSeen[j], b)
  BY <1>1, JobMonotone DEF IInv, JobsSafe, TypeOK
<1>5. (pc = "deployment" => hand.tag \in Tags) /\ (dep.tag # NoTag => dep.tag \in Tags)
  BY DEF IInv, TypeOK, CRs, NoDeployment
<1>. QED
  BY <1>1, <1>3, <1>4, <1>5, HasMonotone DEF IInv, PodsSafe

\* A Job RunJob has just created claims only what its phase guarantees.
LEMMA RunJobSafe ==
  ASSUME IInv, NEW j \in Jobs, NEW t \in Tags, RunJob(j, t),
         j = "db-migrate" => schema.expand >= Level[t],
         j = "db-contract" => Has(schema, t)
  PROVE  \A k \in Jobs : JobSafe(k, jobs'[k], schema)
<1>. USE DEF IInv, TypeOK
<1>1. \A k \in Jobs : \/ jobs'[k] = jobs[k] \/ jobs'[k] = Absent
                      \/ k = j /\ jobs'[k] = [st |-> "running", tag |-> t]
  BY DEF RunJob, RecreateStaleJob, CreateJob
<1>2. JobSafe(j, [st |-> "running", tag |-> t], schema)
  BY DEF JobSafe
<1>3. \A k \in Jobs : JobSafe(k, Absent, schema)
  BY DEF JobSafe, Absent
<1>. QED
  BY <1>1, <1>2, <1>3 DEF JobsSafe

LEMMA DatabaseSafe ==
  ASSUME IInv, ReconcileDatabase
  PROVE  CopiesSafe' /\ JobsSafe' /\ PodsSafe'
<1>1. /\ pc = "database" /\ hand.tag \in Tags
      /\ UNCHANGED <<cr, seen, hand, jobsSeen, schema, dep, ready>>
  BY DEF ReconcileDatabase, DatabaseWork, ProvisionWait, AbortUpgrade,
         AbortInterrupted, TargetChanged, InitiateUpgrade, ReconcileExpand,
         ReconcileMigrate, ReconcileContract, PhaseJobPending, CompleteExpand,
         CompleteMigrate, ReconcileRollingUpdate, CompleteContract,
         SyncPending, SchemaCheckPending, SyncComplete, Return, ReturnAfter,
         IInv, TypeOK, CRs
<1>2. SUFFICES /\ StatusSafe(work', schema)
               /\ \A j \in Jobs : JobSafe(j, jobs'[j], schema)
               /\ pc' = "deployment" => Has(schema, hand.tag)
  BY <1>1 DEF IInv, CopiesSafe, JobsSafe, PodsSafe
<1>3. work \in Statuses /\ StatusSafe(work, schema)
  BY DEF IInv, TypeOK, CopiesSafe
<1>4. StatusSafe(NotReady, schema)
  BY <1>3 DEF NotReady, StatusSafe, Statuses
<1>5. UNCHANGED jobs => \A j \in Jobs : JobSafe(j, jobs'[j], schema)
  BY DEF IInv, JobsSafe
<1>6. \A j \in Jobs, t \in Tags : Done(j, t) =>
        /\ j = "db-sync" => Has(schema, t)
        /\ j = "db-expand" => schema.expand >= Level[t]
        /\ j = "db-migrate" => schema.migrate >= Level[t]
        /\ j = "db-contract" => Has(schema, t)
  BY DEF Done, IInv, JobsSafe, JobSafe, Absent
<1>7. ASSUME NEW j \in {"db-sync", "schema-check", "db-expand"},
             RunJob(j, hand.tag), NEW S, ReturnAfter(S, "status", NotReady)
      PROVE  /\ StatusSafe(work', schema) /\ pc' # "deployment"
             /\ \A k \in Jobs : JobSafe(k, jobs'[k], schema)
  BY <1>1, <1>4, <1>7, RunJobSafe DEF ReturnAfter
<1>9. ASSUME NEW S \in SUBSET PhaseJobs, DeleteUpgradeJobs(S)
      PROVE  \A j \in Jobs : JobSafe(j, jobs'[j], schema)
  <2>1. \A j \in Jobs : jobs'[j] = Absent \/ jobs'[j] = jobs[j]
    BY <1>9 DEF DeleteUpgradeJobs
  <2>2. \A j \in Jobs : JobSafe(j, Absent, schema)
    BY DEF JobSafe, Absent
  <2>. QED
    BY <2>1, <2>2 DEF IInv, JobsSafe
<1>10. CASE ProvisionWait \/ TargetChanged
  BY <1>4, <1>5, <1>10 DEF ProvisionWait, TargetChanged, Return, ReturnAfter
<1>11. CASE AbortUpgrade
  <2>1. StatusSafe([work EXCEPT !.phase = "none", !.target = NoTag], schema)
    BY <1>3 DEF StatusSafe, Statuses
  <2>. QED
    BY <1>9, <1>11, <2>1 DEF AbortUpgrade, Return, ReturnAfter
<1>12. CASE AbortInterrupted
  BY <1>3, <1>9, <1>12 DEF AbortInterrupted, Return, ReturnAfter
<1>13. CASE InitiateUpgrade
  <2>1. StatusSafe([NotReady EXCEPT !.target = hand.tag, !.phase = "Expanding"],
                   schema)
    BY <1>1, <1>3, TagsAssumption DEF NotReady, StatusSafe, Statuses
  <2>. QED
    BY <1>4, <1>5, <1>13, <2>1 DEF InitiateUpgrade, Return, ReturnAfter
<1>14. CASE ReconcileExpand \/ SyncPending \/ SchemaCheckPending
  BY <1>7, <1>14 DEF ReconcileExpand, PhaseJobPending, SyncPending,
                     SchemaCheckPending
<1>15. CASE ReconcileMigrate
  <2>1. schema.expand >= Level[hand.tag]
    BY <1>3, <1>15 DEF ReconcileMigrate, PhaseJobPending, OnTarget, StatusSafe
  <2>. QED
    BY <1>1, <1>4, <1>15, <2>1, RunJobSafe
       DEF ReconcileMigrate, PhaseJobPending, ReturnAfter
<1>16. CASE ReconcileContract
  <2>1. Has(schema, hand.tag)
    BY <1>3, <1>16 DEF ReconcileContract, PhaseJobPending, OnTarget, StatusSafe
  <2>. QED
    BY <1>1, <1>4, <1>16, <2>1, RunJobSafe
       DEF ReconcileContract, PhaseJobPending, ReturnAfter
<1>17. CASE CompleteExpand
  <2>1. schema.expand >= Level[work.target]
    BY <1>1, <1>6, <1>17 DEF CompleteExpand, OnTarget
  <2>2. StatusSafe([NotReady EXCEPT !.phase = "Migrating"], schema)
    BY <1>3, <1>17, <2>1 DEF CompleteExpand, NotReady, StatusSafe, Statuses
  <2>. QED
    BY <1>5, <1>17, <2>2 DEF CompleteExpand, ReturnAfter
<1>18. CASE CompleteMigrate
  <2>1. Has(schema, work.target)
    BY <1>1, <1>3, <1>6, <1>18 DEF CompleteMigrate, OnTarget, StatusSafe, Has
  <2>2. StatusSafe([NotReady EXCEPT !.phase = "RollingUpdate"], schema)
    BY <1>3, <1>18, <2>1 DEF CompleteMigrate, NotReady, StatusSafe, Statuses, Has
  <2>. QED
    BY <1>5, <1>18, <2>2 DEF CompleteMigrate, ReturnAfter
<1>19. CASE ReconcileRollingUpdate
  <2>1. Has(schema, hand.tag)
    BY <1>3, <1>19 DEF ReconcileRollingUpdate, OnTarget, StatusSafe
  <2>. QED
    BY <1>4, <1>5, <1>19, <2>1 DEF ReconcileRollingUpdate, Return, ReturnAfter
<1>20. CASE CompleteContract
  <2>1. Has(schema, work.target) /\ work.target = hand.tag
    BY <1>3, <1>20 DEF CompleteContract, OnTarget, StatusSafe
  <2>2. StatusSafe([installed |-> work.target, target |-> NoTag,
                    phase |-> "none", dbReady |-> TRUE], schema)
    BY <2>1 DEF StatusSafe
  <2>. QED
    BY <1>5, <1>20, <2>1, <2>2 DEF CompleteContract, ReturnAfter
<1>21. CASE SyncComplete
  <2>1. Has(schema, hand.tag)
    BY <1>1, <1>6, <1>21 DEF SyncComplete
  <2>2. StatusSafe([work EXCEPT !.installed = hand.tag, !.dbReady = TRUE],
                   schema)
    BY <1>3, <1>21, <2>1 DEF SyncComplete, SteadyState, StatusSafe, Statuses
  <2>. QED
    BY <1>5, <1>21, <2>1, <2>2 DEF SyncComplete, ReturnAfter
<1>. QED
  BY <1>10, <1>11, <1>12, <1>13, <1>14, <1>15, <1>16, <1>17, <1>18, <1>19,
     <1>20, <1>21 DEF ReconcileDatabase, DatabaseWork

LEMMA DeploymentSafe ==
  ASSUME IInv, ReconcileDeployment
  PROVE  CopiesSafe' /\ JobsSafe' /\ PodsSafe'
<1>1. /\ pc = "deployment" /\ pc' = "status" /\ hand \in CRs
      /\ UNCHANGED <<cr, seen, hand, jobs, jobsSeen, schema, ready>>
  BY DEF ReconcileDeployment, ApplyDeployment, DeploymentWait,
         DeploymentIsReady, ReturnDeployment, IInv, TypeOK
<1>2. StatusSafe(work', schema)
  <2>1. work \in Statuses /\ StatusSafe(work, schema)
    BY DEF IInv, TypeOK, CopiesSafe
  <2>2. ASSUME work.phase = "RollingUpdate"
        PROVE  StatusSafe([work EXCEPT !.phase = "Contracting"], schema)
    BY <2>1, <2>2 DEF StatusSafe, Statuses
  <2>. QED
    BY <2>1, <2>2 DEF ReconcileDeployment, ApplyDeployment, DeploymentWait,
                      DeploymentIsReady, ReturnDeployment
<1>3. dep' = dep \/ dep'.tag = hand.tag
  BY DEF ReconcileDeployment, ApplyDeployment, DeploymentWait,
         DeploymentIsReady
<1>4. Has(schema, hand.tag)
  BY <1>1 DEF IInv, PodsSafe
<1>. QED
  BY <1>1, <1>2, <1>3, <1>4 DEF IInv, CopiesSafe, JobsSafe, PodsSafe

LEMMA InvariantInitially ==
  ASSUME Init
  PROVE  IInv
<1>1. TypeOK
  BY TypeInitially
<1>2. cr.status = FreshStatus /\ seen.status = FreshStatus
  BY DEF Init
<1>3. StatusSafe(FreshStatus, schema)
  BY DEF StatusSafe, FreshStatus
<1>4. CopiesSafe
  BY <1>2, <1>3 DEF CopiesSafe, Init, NoPass
<1>5. JobsSafe
  BY DEF JobsSafe, JobSafe, Init, Absent
<1>6. PodsSafe
  BY DEF PodsSafe, Init, NoDeployment
<1>. QED
  BY <1>1, <1>4, <1>5, <1>6 DEF IInv

LEMMA InvariantStep ==
  ASSUME IInv, [Next]_vars
  PROVE  IInv'
<1>1. TypeOK'
  BY TypeStep DEF IInv
<1>. SUFFICES CopiesSafe' /\ JobsSafe' /\ PodsSafe'
  BY <1>1 DEF IInv
<1>. USE DEF operator, cluster, bounds
<1>2. StatusSafe(FreshStatus, schema) /\ NoPass.status = FreshStatus
  BY DEF StatusSafe, FreshStatus, NoPass
<1>3. ASSUME NEW t \in Tags, EditTag(t)
      PROVE  CopiesSafe' /\ JobsSafe' /\ PodsSafe'
  <2>1. cr'.status = cr.status
    BY <1>3 DEF EditTag, IInv, TypeOK, CRs
  <2>. QED
    BY <1>3, <2>1 DEF EditTag, IInv, CopiesSafe, JobsSafe, PodsSafe
<1>4. CASE SyncCR
  BY <1>4 DEF SyncCR, IInv, CopiesSafe, JobsSafe, PodsSafe
<1>5. CASE SyncJobs
  BY <1>5 DEF SyncJobs, IInv, CopiesSafe, JobsSafe, PodsSafe
<1>6. CASE BeginPass
  BY <1>6 DEF BeginPass, IInv, CopiesSafe, JobsSafe, PodsSafe
<1>7. CASE Crash
  BY <1>2, <1>7 DEF Crash, EndPass, IInv, CopiesSafe, JobsSafe, PodsSafe
<1>8. CASE StopEarly
  BY <1>8 DEF StopEarly, IInv, CopiesSafe, JobsSafe, PodsSafe
<1>9. CASE UpdateStatus
  <2>1. cr'.status \in {cr.status, work}
    BY <1>9 DEF UpdateStatus, IInv, TypeOK, CRs
  <2>. QED
    BY <1>2, <1>9, <2>1
       DEF UpdateStatus, EndPass, IInv, CopiesSafe, JobsSafe, PodsSafe
<1>10. CASE ReconcileDatabase
  BY <1>10, DatabaseSafe
<1>11. CASE ReconcileDeployment
  BY <1>11, DeploymentSafe
<1>12. ASSUME NEW j \in Jobs, JobSucceeds(j) \/ JobFails(j)
       PROVE  CopiesSafe' /\ JobsSafe' /\ PodsSafe'
  <2>1. jobs[j] \in JobStates /\ jobs[j] # Absent /\ jobs[j].tag \in Tags
    BY <1>12 DEF JobSucceeds, JobFails, IInv, TypeOK, JobStates, Absent
  <2>2. schema' \in Schemas /\ Below(schema, schema')
    BY <1>12, <2>1, SchemaGrows DEF JobSucceeds, JobFails, IInv
  <2>3. UNCHANGED <<cr, seen, pc, hand, work, jobsSeen, dep, ready>>
    BY <1>12 DEF JobSucceeds, JobFails
  <2>4. JobSafe(j, jobs[j], schema')
    BY <2>2, SafetyMonotone
  <2>5. JobSafe(j, jobs'[j], schema')
    <3>1. CASE JobSucceeds(j)
      <4>1. jobs'[j] = [jobs[j] EXCEPT !.st = "complete"]
        BY <3>1 DEF JobSucceeds, IInv, TypeOK
      <4>2. jobs'[j].st = "complete" /\ jobs'[j].tag = jobs[j].tag
        BY <2>1, <4>1 DEF JobStates, Absent
      <4>3. schema' = SchemaAfter(j, jobs[j].tag)
        BY <3>1 DEF JobSucceeds
      <4>. QED
        BY <2>1, <2>4, <4>2, <4>3, SchemaGrows DEF JobSafe, IInv
    <3>2. CASE JobFails(j)
      <4>1. jobs'[j] = [jobs[j] EXCEPT !.st = "failed"]
        BY <3>2 DEF JobFails, IInv, TypeOK
      <4>2. jobs'[j].st = "failed" /\ jobs'[j].tag = jobs[j].tag
        BY <2>1, <4>1 DEF JobStates, Absent
      <4>. QED
        BY <2>1, <2>4, <4>2 DEF JobSafe
    <3>. QED
      BY <1>12, <3>1, <3>2
  <2>6. \A k \in Jobs \ {j} : jobs'[k] = jobs[k]
    BY <1>12 DEF JobSucceeds, JobFails, IInv, TypeOK
  <2>7. JobsSafe'
    BY <2>2, <2>3, <2>5, <2>6, SafetyMonotone DEF JobsSafe
  <2>. QED
    BY <2>2, <2>3, <2>7, SafetyMonotone DEF CopiesSafe, PodsSafe
<1>13. ASSUME NEW o \in orphans, OrphanEnds(o)
       PROVE  CopiesSafe' /\ JobsSafe' /\ PodsSafe'
  <2>1. o.job \in Jobs /\ o.tag \in Tags
    BY DEF IInv, TypeOK, Pods
  <2>2. schema' \in Schemas /\ Below(schema, schema')
    BY <1>13, <2>1, SchemaGrows DEF OrphanEnds, IInv
  <2>3. UNCHANGED <<cr, seen, pc, hand, work, jobs, jobsSeen, dep, ready>>
    BY <1>13 DEF OrphanEnds
  <2>. QED
    BY <2>2, <2>3, SafetyMonotone DEF CopiesSafe, JobsSafe, PodsSafe
<1>14. CASE ObserveDeployment
  <2>1. dep'.tag = dep.tag
    BY <1>14 DEF ObserveDeployment, IInv, TypeOK, NoDeployment
  <2>. QED
    BY <1>14, <2>1 DEF ObserveDeployment, IInv, CopiesSafe, JobsSafe, PodsSafe
<1>15. CASE StartPod
  <2>1. dep.tag # NoTag
    BY <1>15, TagsAssumption DEF StartPod, IInv, TypeOK, NoDeployment
  <2>2. \A t \in Tags : ready'[t] > 0 => ready[t] > 0 \/ t = dep.tag
    BY <1>15 DEF StartPod, IInv, TypeOK
  <2>. QED
    BY <1>15, <2>1, <2>2 DEF StartPod, IInv, CopiesSafe, JobsSafe, PodsSafe
<1>16. ASSUME NEW t \in Tags, StopPod(t)
       PROVE  CopiesSafe' /\ JobsSafe' /\ PodsSafe'
  <2>1. \A u \in Tags : ready'[u] > 0 => ready[u] > 0
    BY <1>16 DEF StopPod, IInv, TypeOK
  <2>. QED
    BY <1>16, <2>1 DEF StopPod, IInv, CopiesSafe, JobsSafe, PodsSafe
<1>17. CASE UNCHANGED vars
  BY <1>17 DEF vars, IInv, CopiesSafe, JobsSafe, PodsSafe
<1>. QED
  BY <1>3, <1>4, <1>5, <1>6, <1>7, <1>8, <1>9, <1>10, <1>11, <1>12, <1>13,
     <1>14, <1>15, <1>16, <1>17 DEF Next, Pass, JobEnds, Rollout

LEMMA InvariantHolds == Spec => []IInv
<1>1. Init => IInv
  BY InvariantInitially
<1>2. IInv /\ [Next]_vars => IInv'
  BY InvariantStep
<1>. QED
  BY <1>1, <1>2, PTL DEF Spec

\* No pod ever serves a release the database is not migrated for.
THEOREM PodsAlwaysHaveSchema == Spec => []PodsHaveSchema
<1>1. IInv => PodsHaveSchema
  BY TagsAssumption
     DEF IInv, PodsSafe, PodsHaveSchema, Migrated, Has
<1>. QED
  BY <1>1, InvariantHolds, PTL

\* Expand, migrate and contract Jobs of a release only ever start in order.
THEOREM MigrationsAlwaysInOrder == Spec => []MigrationsInOrder
<1>1. IInv => MigrationsInOrder
  BY DEF IInv, JobsSafe, JobSafe, MigrationsInOrder, Migrated, Has
<1>. QED
  BY <1>1, InvariantHolds, PTL

\* The recorded release is always one the database carries.
THEOREM InstalledAlwaysMigrated == Spec => []InstalledIsMigrated
<1>1. IInv => InstalledIsMigrated
  BY DEF IInv, CopiesSafe, StatusSafe, InstalledIsMigrated, Migrated, Has
<1>. QED
  BY <1>1, InvariantHolds, PTL

\* An unfinished upgrade is never reported as DatabaseReady.
THEOREM UpgradeAlwaysVisible == Spec => []UpgradeIsVisible
<1>1. IInv => UpgradeIsVisible
  BY DEF IInv, CopiesSafe, StatusSafe, UpgradeIsVisible
<1>. QED
  BY <1>1, InvariantHolds, PTL

-----------------------------------------------------------------------------
(* KeystoneUpgrade implements MigrationPromise: initial states map to      *)
(* initial states, and every step to a step of the promise or a stutter.   *)

Serving == {t \in Tags : ready[t] > 0 \/ dep.tag = t}

\* The pod of a deleted Job was started in order like the Job, and what its
\* order rests on cannot be taken back.
OrphansSafe ==
  \A o \in orphans : /\ o.job = "db-migrate" => schema.expand >= Level[o.tag]
                     /\ o.job = "db-contract" => Has(schema, o.tag)

PromiseInv == IInv /\ OrphansSafe

\* A Job's pod that outlives it inherits what the Job was created under.
LEMMA PodsOfSafe ==
  ASSUME IInv, NEW S \in SUBSET Jobs
  PROVE  \A o \in PodsOf(S) :
           /\ o.job = "db-migrate" => schema.expand >= Level[o.tag]
           /\ o.job = "db-contract" => Has(schema, o.tag)
<1>. TAKE o \in PodsOf(S)
<1>1. PICK j \in S : jobs[j].st = "running" /\ o = [job |-> j, tag |-> jobs[j].tag]
  BY DEF PodsOf
<1>2. JobSafe(j, jobs[j], schema) /\ jobs[j] # Absent
  BY <1>1 DEF IInv, JobsSafe, Absent
<1>. QED
  BY <1>1, <1>2 DEF JobSafe

\* A database step adds to the orphans only pods of Jobs it deletes.
LEMMA DatabaseOrphans ==
  ASSUME TypeOK, ReconcileDatabase
  PROVE  /\ UNCHANGED <<schema, cr, dep, ready>>
         /\ \E S \in SUBSET Jobs : orphans' \subseteq orphans \union PodsOf(S)
<1>1. UNCHANGED <<schema, cr, dep, ready>>
  BY DEF ReconcileDatabase, DatabaseWork, ProvisionWait, AbortUpgrade,
         AbortInterrupted, TargetChanged, InitiateUpgrade, ReconcileExpand,
         ReconcileMigrate, ReconcileContract, PhaseJobPending, CompleteExpand,
         CompleteMigrate, ReconcileRollingUpdate, CompleteContract,
         SyncPending, SchemaCheckPending, SyncComplete, Return, ReturnAfter
<1>2. CASE UNCHANGED orphans
  BY <1>1, <1>2
<1>3. ASSUME NEW S \in SUBSET Jobs, DeleteUpgradeJobs(S)
      PROVE  orphans' \subseteq orphans \union PodsOf(S)
  BY <1>3 DEF DeleteUpgradeJobs
<1>4. CASE AbortUpgrade \/ AbortInterrupted
  <2>1. PICK S \in SUBSET Jobs : DeleteUpgradeJobs(S)
    BY <1>4 DEF AbortUpgrade, AbortInterrupted
  <2>. QED
    BY <1>1, <1>3, <2>1
<1>5. ASSUME NEW j \in Jobs, NEW t, RunJob(j, t)
      PROVE  \E S \in SUBSET Jobs : orphans' \subseteq orphans \union PodsOf(S)
  <2>1. UNCHANGED orphans \/ orphans' = orphans \union PodsOf({j})
    BY <1>5 DEF RunJob, RecreateStaleJob, CreateJob
  <2>. QED
    BY <2>1
<1>6. CASE ReconcileExpand \/ ReconcileMigrate \/ ReconcileContract
           \/ SyncPending \/ SchemaCheckPending
  <2>1. PICK j \in Jobs : RunJob(j, hand.tag)
    BY <1>6 DEF ReconcileExpand, ReconcileMigrate, ReconcileContract,
                PhaseJobPending, SyncPending, SchemaCheckPending
  <2>. QED
    BY <1>1, <1>5, <2>1
<1>. QED
  BY <1>2, <1>1, <1>4, <1>6
     DEF ReconcileDatabase, DatabaseWork, ProvisionWait, TargetChanged,
         InitiateUpgrade, CompleteExpand, CompleteMigrate,
         ReconcileRollingUpdate, CompleteContract, SyncComplete

LEMMA OrphansStep ==
  ASSUME PromiseInv, [Next]_vars
  PROVE  OrphansSafe'
<1>1. schema \in Schemas /\ orphans \subseteq Pods
  BY DEF PromiseInv, IInv, TypeOK, Schemas
<1>2. /\ schema' \in Schemas
      /\ Below(schema, schema')
  <2>1. CASE UNCHANGED schema
    BY <1>1, <2>1 DEF Below, Schemas
  <2>2. ASSUME NEW j \in Jobs, JobSucceeds(j) \/ JobFails(j)
        PROVE  schema' \in Schemas /\ Below(schema, schema')
    <3>1. jobs[j].tag \in Tags
      BY <2>2 DEF JobSucceeds, JobFails, PromiseInv, IInv, TypeOK, JobStates,
                  Absent
    <3>. QED
      BY <2>2, <3>1, SchemaGrows DEF JobSucceeds, JobFails, PromiseInv, IInv
  <2>3. ASSUME NEW o \in orphans, OrphanEnds(o)
        PROVE  schema' \in Schemas /\ Below(schema, schema')
    <3>1. o.job \in Jobs /\ o.tag \in Tags
      BY <1>1 DEF Pods
    <3>. QED
      BY <2>3, <3>1, SchemaGrows DEF OrphanEnds, PromiseInv, IInv
  <2>4. CASE ReconcileDatabase
    BY <2>1, <2>4, DatabaseOrphans DEF PromiseInv, IInv
  <2>. QED
    BY <2>1, <2>2, <2>3, <2>4
       DEF Next, Pass, JobEnds, Rollout, EditTag, SyncCR, SyncJobs, BeginPass,
           Crash, StopEarly, UpdateStatus, ReconcileDeployment,
           ApplyDeployment, DeploymentWait, DeploymentIsReady,
           ReturnDeployment, ObserveDeployment, StartPod, StopPod, cluster, vars
<1>3. \A o \in orphans : /\ o.job = "db-migrate" => schema'.expand >= Level[o.tag]
                         /\ o.job = "db-contract" => Has(schema', o.tag)
  <2>1. \A o \in orphans : o.tag \in Tags
    BY <1>1 DEF Pods
  <2>. QED
    BY <1>1, <1>2, <2>1, HasMonotone DEF PromiseInv, OrphansSafe
<1>4. CASE ReconcileDatabase
  <2>1. PICK S \in SUBSET Jobs : orphans' \subseteq orphans \union PodsOf(S)
    BY <1>4, DatabaseOrphans DEF PromiseInv, IInv
  <2>2. schema' = schema
    BY <1>4, DatabaseOrphans DEF PromiseInv, IInv
  <2>. QED
    BY <1>3, <2>1, <2>2, PodsOfSafe DEF PromiseInv, OrphansSafe
<1>5. CASE orphans' \subseteq orphans
  BY <1>3, <1>5 DEF OrphansSafe
<1>. QED
  BY <1>4, <1>5
     DEF Next, Pass, JobEnds, JobSucceeds, JobFails, Rollout, EditTag, SyncCR,
         SyncJobs, BeginPass, Crash, StopEarly, UpdateStatus, OrphanEnds,
         ReconcileDeployment, ApplyDeployment, DeploymentWait,
         DeploymentIsReady, ReturnDeployment, ObserveDeployment, StartPod,
         StopPod, cluster, vars

\* A migration in a pod takes effect as one of the promise's steps.
LEMMA MigrationStep ==
  ASSUME IInv, NEW j \in Jobs, NEW t \in Tags,
         j = "db-migrate" => schema.expand >= Level[t],
         j = "db-contract" => Has(schema, t),
         schema' \in {schema, SchemaAfter(j, t)},
         UNCHANGED <<cr, dep, ready>>
  PROVE  [Promise!Next]_(Promise!promised)
<1>1. UNCHANGED <<cr.status, Serving>>
  BY DEF Serving
<1>2. CASE schema' = schema
  BY <1>1, <1>2 DEF Promise!promised, Serving
<1>3. CASE schema' = SchemaAfter(j, t)
  <2>1. schema \in Schemas /\ Level[t] \in Nat
    BY LevelAssumption DEF IInv, TypeOK, Schemas
  <2>2. schema = [tree \in {"expand", "migrate", "contract"} |-> schema[tree]]
        /\ DOMAIN schema = {"expand", "migrate", "contract"}
    BY <2>1 DEF Schemas
  <2>3. CASE j = "db-expand"
    <3>1. Promise!Reach({"expand"}, t)
      BY <1>1, <1>3, <2>1, <2>2, <2>3
         DEF Promise!Reach, SchemaAfter, Raise, Serving, Schemas
    <3>. QED
      BY <3>1 DEF Promise!Next, Promise!Expand
  <2>4. CASE j = "db-migrate"
    <3>1. Promise!Reach({"migrate"}, t)
      BY <1>1, <1>3, <2>1, <2>2, <2>4
         DEF Promise!Reach, SchemaAfter, Raise, Serving, Schemas
    <3>. QED
      BY <2>4, <3>1 DEF Promise!Next, Promise!Migrate, Promise!Expanded
  <2>5. CASE j = "db-contract"
    <3>1. Promise!Reach({"contract"}, t)
      BY <1>1, <1>3, <2>1, <2>2, <2>5
         DEF Promise!Reach, SchemaAfter, Raise, Serving, Schemas
    <3>. QED
      BY <2>5, <3>1 DEF Promise!Next, Promise!Contract, Promise!Prepared,
                        Promise!Expanded, Has
  <2>6. CASE j = "db-sync"
    <3>1. Promise!Reach({"expand", "migrate", "contract"}, t)
      BY <1>1, <1>3, <2>1, <2>2, <2>6
         DEF Promise!Reach, SchemaAfter, Raise, Serving, Schemas
    <3>. QED
      BY <3>1 DEF Promise!Next, Promise!SyncAtOnce
  <2>7. CASE j = "schema-check"
    BY <1>2, <1>3, <2>7 DEF SchemaAfter
  <2>. QED
    BY <2>3, <2>4, <2>5, <2>6, <2>7
<1>. QED
  BY <1>2, <1>3

\* A step that only rolls pods out, or only writes a status the copies vouch
\* for, is the promise's Roll, Record or a stutter.
LEMMA RollStep ==
  ASSUME PodsSafe', schema' = schema, cr' = cr
  PROVE  [Promise!Next]_(Promise!promised)
<1>1. \A t \in Tags : t \in Serving' => Has(schema, t)
  BY TagsAssumption DEF Serving, PodsSafe
<1>. QED
  BY <1>1 DEF Promise!Next, Promise!Roll, Promise!Prepared, Promise!Expanded,
              Has, Serving

LEMMA RecordStep ==
  ASSUME CopiesSafe', schema' = schema, UNCHANGED <<dep, ready>>
  PROVE  [Promise!Next]_(Promise!promised)
<1>1. StatusSafe(cr'.status, schema)
  BY DEF CopiesSafe
<1>2. Promise!True(cr'.status)
  BY <1>1 DEF StatusSafe, Promise!True, Promise!Prepared, Promise!Expanded, Has
<1>3. Promise!True(cr.status')
  BY <1>2
<1>4. UNCHANGED Serving
  BY DEF Serving
<1>5. Promise!Record
  BY <1>3, <1>4 DEF Promise!Record, Serving
<1>. QED
  BY <1>5 DEF Promise!Next

\* Every step of the upgrade is a step of the promise or a stutter.
LEMMA PromiseStep ==
  ASSUME PromiseInv, PromiseInv', [Next]_vars
  PROVE  [Promise!Next]_(Promise!promised)
<1>1. CopiesSafe' /\ PodsSafe'
  BY DEF PromiseInv, IInv
<1>2. ASSUME NEW j \in Jobs, JobSucceeds(j) \/ JobFails(j)
      PROVE  [Promise!Next]_(Promise!promised)
  <2>1. jobs[j].tag \in Tags /\ jobs[j] # Absent /\ JobSafe(j, jobs[j], schema)
    BY <1>2 DEF JobSucceeds, JobFails, PromiseInv, IInv, TypeOK, JobsSafe,
                JobStates, Absent
  <2>2. /\ schema' \in {schema, SchemaAfter(j, jobs[j].tag)}
        /\ UNCHANGED <<cr, dep, ready>>
    BY <1>2 DEF JobSucceeds, JobFails
  <2>3. /\ j = "db-migrate" => schema.expand >= Level[jobs[j].tag]
        /\ j = "db-contract" => Has(schema, jobs[j].tag)
    BY <2>1 DEF JobSafe
  <2>. QED
    BY <2>1, <2>2, <2>3, MigrationStep DEF PromiseInv
<1>3. ASSUME NEW o \in orphans, OrphanEnds(o)
      PROVE  [Promise!Next]_(Promise!promised)
  <2>1. o.job \in Jobs /\ o.tag \in Tags
    BY DEF PromiseInv, IInv, TypeOK, Pods
  <2>2. /\ schema' \in {schema, SchemaAfter(o.job, o.tag)}
        /\ UNCHANGED <<cr, dep, ready>>
    BY <1>3 DEF OrphanEnds
  <2>3. /\ o.job = "db-migrate" => schema.expand >= Level[o.tag]
        /\ o.job = "db-contract" => Has(schema, o.tag)
    BY DEF PromiseInv, OrphansSafe
  <2>. QED
    BY <2>1, <2>2, <2>3, MigrationStep DEF PromiseInv
<1>4. CASE (\E t \in Tags : EditTag(t)) \/ UpdateStatus
  BY <1>1, <1>4, RecordStep DEF EditTag, UpdateStatus, cluster
<1>5. CASE SyncCR \/ SyncJobs \/ BeginPass \/ Crash \/ StopEarly
  BY <1>1, <1>5, RollStep
     DEF SyncCR, SyncJobs, BeginPass, Crash, StopEarly, cluster
<1>6. CASE ReconcileDatabase
  BY <1>1, <1>6, DatabaseOrphans, RollStep DEF PromiseInv, IInv
<1>7. CASE ReconcileDeployment
  BY <1>1, <1>7, RollStep
     DEF ReconcileDeployment, ApplyDeployment, DeploymentWait,
         DeploymentIsReady, ReturnDeployment
<1>8. CASE Rollout
  BY <1>1, <1>8, RollStep DEF Rollout, ObserveDeployment, StartPod, StopPod
<1>9. CASE UNCHANGED vars
  BY <1>1, <1>9, RollStep DEF vars
<1>. QED
  BY <1>2, <1>3, <1>4, <1>5, <1>6, <1>7, <1>8, <1>9 DEF Next, Pass, JobEnds

LEMMA PromiseInitially ==
  ASSUME Init
  PROVE  PromiseInv /\ Promise!Init
<1>1. IInv
  BY InvariantInitially
<1>2. OrphansSafe
  BY DEF Init, OrphansSafe
<1>3. Promise!True(cr.status)
  BY <1>1 DEF IInv, CopiesSafe, StatusSafe, Promise!True, Promise!Prepared,
              Promise!Expanded, Has
<1>4. {t \in Tags : ready[t] > 0 \/ dep.tag = t} = {}
  BY TagsAssumption DEF Init, NoDeployment
<1>. QED
  BY <1>1, <1>2, <1>3, <1>4 DEF PromiseInv, Promise!Init, Init

\* The upgrade implements its promise, whatever is cached, retried, edited,
\* deleted or lost.
THEOREM UpgradeKeepsPromise == Spec => KeepsPromise
<1>1. Init => PromiseInv /\ Promise!Init
  BY PromiseInitially
<1>2. PromiseInv /\ [Next]_vars => PromiseInv'
  BY InvariantStep, OrphansStep DEF PromiseInv
<1>3. PromiseInv /\ PromiseInv' /\ [Next]_vars
        => [Promise!Next]_(Promise!promised)
  BY PromiseStep
<1>. QED
  BY <1>1, <1>2, <1>3, PTL DEF Spec, KeepsPromise, Promise!Spec

-----------------------------------------------------------------------------
(***************************************************************************)
(* The order of upgrades, for every set of tags and any number of edits    *)
(* and crashes: phases only advance, releases only step forward, phase     *)
(* Jobs belong to a release at hand.  Unlike the facts above these can be  *)
(* lost to a stale read: a pass may overwrite a status it has not seen,    *)
(* once it has recorded a terminal Job (RecordTerminalState).  The         *)
(* invariant says what such a pass computes.                               *)
(***************************************************************************)

-----------------------------------------------------------------------------
(***************************************************************************)
(* The comparisons of Release against one reference: a release's place in  *)
(* the twice-yearly series, computed without a case distinction.           *)
(***************************************************************************)
Position(r) == 2 * r.year + r.minor

\* IsSequentialUpgrade (release.go) accepts the next release of the series and
\* nothing else: its two cases, within a year and across one, leave no gap.
THEOREM SequentialIsNext ==
  ASSUME NEW from \in Rel!Releases, NEW to \in Rel!Releases
  PROVE  Rel!IsSequentialUpgrade(from, to) <=> Position(to) = Position(from) + 1
<1>1. /\ from.year \in Nat /\ from.minor \in {1, 2}
      /\ to.year \in Nat /\ to.minor \in {1, 2}
  BY DEF Rel!Releases, Rel!Years
<1>2. QED
  BY <1>1 DEF Rel!IsSequentialUpgrade, Position

\* IsDowngrade accepts exactly the earlier releases of the series.
THEOREM DowngradeIsEarlier ==
  ASSUME NEW from \in Rel!Releases, NEW to \in Rel!Releases
  PROVE  Rel!IsDowngrade(from, to) <=> Position(to) < Position(from)
<1>1. /\ from.year \in Nat /\ from.minor \in {1, 2}
      /\ to.year \in Nat /\ to.minor \in {1, 2}
  BY DEF Rel!Releases, Rel!Years
<1>2. QED
  BY <1>1 DEF Rel!IsDowngrade, Position

\* IsPatchOnly ignores the patch suffix and nothing else.
THEOREM PatchIsSamePlace ==
  ASSUME NEW from \in Rel!Releases, NEW to \in Rel!Releases
  PROVE  Rel!IsPatchOnly(from, to) <=> Position(to) = Position(from)
<1>1. /\ from.year \in Nat /\ from.minor \in {1, 2}
      /\ to.year \in Nat /\ to.minor \in {1, 2}
  BY DEF Rel!Releases, Rel!Years
<1>2. QED
  BY <1>1 DEF Rel!IsPatchOnly, Position

\* What initiateUpgrade is left with after its three questions: a change that
\* is not a patch is a downgrade, the next release, or a skip, which it
\* refuses; and an upgrade it starts can be undone only by a downgrade, which
\* it refuses too.
THEOREM UpgradesOnlyStepForward ==
  ASSUME NEW from \in Rel!Releases, NEW to \in Rel!Releases,
         Rel!IsSequentialUpgrade(from, to)
  PROVE  /\ ~ Rel!IsPatchOnly(from, to)
         /\ ~ Rel!IsDowngrade(from, to)
         /\ Rel!IsDowngrade(to, from)
<1>1. /\ Position(from) \in Int
      /\ Position(to) \in Int
  BY DEF Position, Rel!Releases, Rel!Years
<1>2. Position(to) = Position(from) + 1
  BY SequentialIsNext
<1>3. QED
  BY <1>1, <1>2, PatchIsSamePlace, DowngradeIsEarlier

-----------------------------------------------------------------------------
\* Tags of one release, up to the patch.
Sibling(a, b) ==
  a = b \/ (Parsed({a, b}) /\ Rel!IsPatchOnly(Parse[a], Parse[b]))
Core(s) == <<s.installed, s.target, s.phase>>

LEMMA SiblingIsNoUpgrade ==
  ASSUME NEW a, NEW b
  PROVE  IsUpgrade(a, b) <=> a # NoTag /\ ~ Sibling(a, b)
BY DEF IsUpgrade, Sibling

LEMMA SiblingEquivalence ==
  ASSUME NEW a, NEW b, NEW c
  PROVE  /\ Sibling(a, a)
         /\ Sibling(a, b) => Sibling(b, a)
         /\ Sibling(a, b) /\ Sibling(b, c) => Sibling(a, c)
BY DEF Sibling, Parsed, Rel!IsPatchOnly

LEMMA PathMoves ==
  ASSUME NEW a, NEW b, ValidPath(a, b)
  PROVE  a # b
<1>. SUFFICES ASSUME a = b PROVE FALSE
  OBVIOUS
<1>1. a \in DOMAIN Parse /\ Rel!IsSequentialUpgrade(Parse[a], Parse[a])
  BY DEF ValidPath, Parsed
<1>2. Parse[a].year \in Nat
  BY <1>1, ParseAssumption DEF Rel!Releases, Rel!Years
<1>. QED
  BY <1>1, <1>2 DEF Rel!IsSequentialUpgrade

-----------------------------------------------------------------------------
(***************************************************************************)
(* The invariant, over the Jobs (J), their cached copies (S) and copies of *)
(* the CR (x) and of its status (s, c).                                    *)
(***************************************************************************)
StatusSound(s) ==
  /\ (s.phase = "none") <=> (s.target = NoTag)
  /\ s.phase # "none" => s.installed # NoTag /\ ValidPath(s.installed, s.target)
  /\ s.installed = NoTag => ~ s.dbReady

\* A phase Job belongs to the target or to the release installed; one that the
\* cache shows as terminal was replaced since, if at all, for the target.
JobFits(j, J, S, s) ==
  J[j] # Absent =>
    IF Terminal(S[j])
    THEN J[j] = S[j] \/ (J[j].tag # S[j].tag /\ J[j].tag = s.target)
    ELSE \/ J[j].tag = s.target
         \/ s.installed # NoTag /\ Sibling(s.installed, J[j].tag)

\* The Jobs of the phases an upgrade has been through are those of its target.
OfTag(j, J, S, t) == J[j].tag \in {NoTag, t} /\ S[j].tag \in {NoTag, t}
PastFits(J, S, s) ==
  /\ s.phase \in {"Migrating", "RollingUpdate", "Contracting"} =>
       OfTag("db-expand", J, S, s.target)
  /\ s.phase \in {"RollingUpdate", "Contracting"} =>
       OfTag("db-migrate", J, S, s.target)
Fits(J, S, s) ==
  (\A j \in PhaseJobs : JobFits(j, J, S, s)) /\ PastFits(J, S, s)

\* Once terminal, the Job is the completed one of the tag; it may be replaced
\* by one that runs as long as "running" is among the others.
Kept(j, t, J, S, others) ==
  \A js \in {J[j], S[j]} :
    js \in {Absent, [st |-> "complete", tag |-> t]} \/ js.st \in others

CheckKept(J, S) ==
  \A t \in Tags : /\ S["db-sync"] = [st |-> "complete", tag |-> t]
                  /\ S["schema-check"] = [st |-> "complete", tag |-> t]
                  => J["schema-check"] = S["schema-check"]

\* Whether a pass from x may look at a Job at all.
Observes(x) ==
  \/ /\ x.status.phase \in {"Expanding", "Migrating", "Contracting"}
     /\ x.tag = x.status.target
  \/ x.status.phase = "none" /\ ~ IsUpgrade(x.status.installed, x.tag)

\* The status c is the one of x, or what a pass made of it by a terminal Job
\* that is still there: made again, it comes out the same.
Advanced(j, J, S, s, c, others) ==
  /\ Kept(j, s.target, J, S, others)
  /\ c.target = s.target /\ c.installed = s.installed
Installed(J, S, s, c, others) ==
  /\ s.phase = "none" /\ c.phase = "none" /\ c.installed # NoTag
  /\ IF s.installed # NoTag THEN Sibling(s.installed, c.installed)
     ELSE Kept("schema-check", c.installed, J, S, others)
Remade(J, S, s, c, others) ==
  \/ /\ s.phase = "Expanding" /\ c.phase = "Migrating"
     /\ Advanced("db-expand", J, S, s, c, others)
  \/ /\ s.phase = "Migrating" /\ c.phase = "RollingUpdate"
     /\ Advanced("db-migrate", J, S, s, c, others)
  \/ /\ s.phase = "Contracting" /\ c.phase = "none" /\ c.installed = s.target
     /\ Kept("db-contract", s.target, J, S, others)
  \/ Installed(J, S, s, c, others)
Behind(x, J, S, c, others) ==
  \/ Core(x.status) = Core(c)
  \/ ~ Observes(x)
  \/ Remade(J, S, x.status, c, others)

Follows(now, then) ==
  /\ now.installed \notin {NoTag, then.installed} =>
       /\ then.installed # NoTag
       /\ ~ IsUpgrade(now.installed, then.installed)
          \/ ValidPath(now.installed, then.installed)
  /\ now.phase # "none" /\ then.phase # "none" =>
       /\ then.target = now.target /\ then.installed = now.installed
       /\ now.phase = then.phase \/ <<now.phase, then.phase>> \in NextPhase

Sound ==
  /\ StatusSound(cr.status) /\ StatusSound(seen.status)
  /\ StatusSound(hand.status) /\ StatusSound(work)
Reads ==
  /\ "cache" \notin stale => seen = cr
  /\ Behind(seen, jobs, jobsSeen, cr.status, {"running"})
  /\ pc # "idle" => seen = hand \/ seen.status = cr.status
  /\ pc = "database" =>
       /\ work = hand.status
       /\ Behind(hand, jobs, jobsSeen, cr.status, {"running"})
       /\ "pass" \notin stale => hand = cr /\ seen = cr

\* What the pass is about to write, where nothing stops it.
Writable(J, S, c, x, w) ==
  Follows(c.status, w) /\ Fits(J, S, w) /\ Behind(c, J, S, w, {})
                       /\ Behind(x, J, S, w, {})
Writes ==
  pc \in {"deployment", "status"} /\ "pass" \notin stale =>
    /\ work # hand.status => Writable(jobs, jobsSeen, cr, seen, work)
    /\ pc = "deployment" /\ work.phase = "RollingUpdate" =>
         Core(cr.status) = Core(work) /\ Core(seen.status) = Core(work)

Order ==
  /\ Sound /\ Reads /\ Writes
  /\ Fits(jobs, jobsSeen, cr.status) /\ CheckKept(jobs, jobsSeen)
OInv == TypeOK /\ Order

-----------------------------------------------------------------------------
(* How the parts of it survive the steps of the Jobs.                       *)

JobMaps == [Jobs -> JobStates]

\* Only installed, target and phase count.
LEMMA CoreCounts ==
  ASSUME NEW J, NEW S, NEW s, NEW c, NEW d, NEW o, Core(c) = Core(d)
  PROVE  /\ Fits(J, S, c) <=> Fits(J, S, d)
         /\ Remade(J, S, s, c, o) <=> Remade(J, S, s, d, o)
         /\ Remade(J, S, c, s, o) <=> Remade(J, S, d, s, o)
         /\ Follows(c, s) <=> Follows(d, s)
         /\ Follows(s, c) <=> Follows(s, d)
<1>1. c.installed = d.installed /\ c.target = d.target /\ c.phase = d.phase
  BY DEF Core
<1>2. Fits(J, S, c) <=> Fits(J, S, d)
  BY <1>1 DEF Fits, JobFits, PastFits
<1>3. \A j : /\ Advanced(j, J, S, s, c, o) <=> Advanced(j, J, S, s, d, o)
             /\ Advanced(j, J, S, c, s, o) <=> Advanced(j, J, S, d, s, o)
  BY <1>1 DEF Advanced
<1>4. /\ Installed(J, S, s, c, o) <=> Installed(J, S, s, d, o)
      /\ Installed(J, S, c, s, o) <=> Installed(J, S, d, s, o)
  BY <1>1 DEF Installed
<1>. QED
  BY <1>1, <1>2, <1>3, <1>4 DEF Remade, Follows

\* Jobs may go, run on, or be copied to the cache.
LEMMA KeptStays ==
  ASSUME NEW J, NEW S, NEW I, NEW R, NEW j, NEW t, NEW o,
         Kept(j, t, J, S, o),
         I[j] \in {J[j], S[j], Absent} \/ I[j].st \in o,
         R[j] \in {J[j], S[j]}
  PROVE  Kept(j, t, I, R, o)
BY DEF Kept, Absent

LEMMA RemadeStays ==
  ASSUME NEW J, NEW S, NEW I, NEW R, NEW s, NEW c, NEW o,
         Remade(J, S, s, c, o),
         \A j \in Jobs : \/ I[j] \in {J[j], S[j], Absent}
                         \/ I[j].st \in o,
         \A j \in Jobs : R[j] \in {J[j], S[j]}
  PROVE  Remade(I, R, s, c, o)
<1>1. \A j \in Jobs : \A t : Kept(j, t, J, S, o) => Kept(j, t, I, R, o)
  BY KeptStays
<1>. QED
  BY <1>1 DEF Remade, Advanced, Installed

LEMMA FirmIsKept ==
  ASSUME NEW J, NEW S, NEW s, NEW c, NEW o, Remade(J, S, s, c, {})
  PROVE  Remade(J, S, s, c, o)
<1>1. \A j, t : Kept(j, t, J, S, {}) => Kept(j, t, J, S, o)
  BY DEF Kept
<1>. QED
  BY <1>1 DEF Remade, Advanced, Installed

\* Deleting Jobs, and copying them to the cache, leaves all in place.
LEMMA DeletesFit ==
  ASSUME NEW J, NEW S, NEW I, NEW s, Fits(J, S, s),
         \A j \in PhaseJobs : I[j] \in {J[j], Absent}
  PROVE  Fits(I, S, s)
<1>1. \A j \in PhaseJobs : JobFits(j, I, S, s)
  BY DEF Fits, JobFits
<1>2. Absent.tag = NoTag
  BY DEF Absent
<1>. QED
  BY <1>1, <1>2 DEF Fits, PastFits, OfTag

LEMMA CopiesFit ==
  ASSUME NEW J, NEW S, NEW s, Fits(J, S, s)
  PROVE  Fits(J, J, s)
<1>1. ASSUME NEW j \in PhaseJobs PROVE JobFits(j, J, J, s)
  BY <1>1 DEF Fits, JobFits, Terminal, Absent
<1>. QED
  BY <1>1 DEF Fits, PastFits, OfTag

LEMMA RunJobChanges ==
  ASSUME TypeOK, NEW j \in Jobs, NEW t, RunJob(j, t)
  PROVE  /\ \A k \in Jobs \ {j} : jobs'[k] = jobs[k]
         /\ \/ jobs'[j] \in {jobs[j], Absent}
            \/ /\ jobs'[j] = [st |-> "running", tag |-> t]
               /\ Outdated(j, t) \/ jobsSeen[j] = Absent
BY DEF TypeOK, RunJob, RecreateStaleJob, CreateJob

JobOfPhase == {<<"Expanding", "db-expand">>, <<"Migrating", "db-migrate">>,
               <<"Contracting", "db-contract">>}

\* A pass may run the Job of the phase it read although the phase is over: the
\* Job is then one of the release just installed, or of the target still.
LEMMA RunPhaseJobFits ==
  ASSUME OInv, pc = "database", hand.tag \in Tags, NEW j \in PhaseJobs,
         <<hand.status.phase, j>> \in JobOfPhase,
         hand.tag = hand.status.target, RunJob(j, hand.tag)
  PROVE  /\ Fits(jobs', jobsSeen, cr.status)
         /\ CheckKept(jobs', jobsSeen)
         /\ Behind(hand, jobs', jobsSeen, cr.status, {"running"})
<1>. DEFINE t == hand.tag
            Running == [st |-> "running", tag |-> t]
<1>1. /\ \A k \in Jobs \ {j} : jobs'[k] = jobs[k]
      /\ \/ jobs'[j] \in {jobs[j], Absent}
         \/ jobs'[j] = Running /\ (Outdated(j, t) \/ jobsSeen[j] = Absent)
  BY RunJobChanges DEF OInv
<1>2. Behind(hand, jobs, jobsSeen, cr.status, {"running"})
  BY DEF OInv, Order, Reads
<1>3. \A k \in Jobs : jobs'[k] \in {jobs[k], jobsSeen[k], Absent}
                      \/ jobs'[k].st \in {"running"}
  BY <1>1
<1>4. Behind(hand, jobs', jobsSeen, cr.status, {"running"})
  BY <1>2, <1>3, RemadeStays DEF Behind
<1>5. CheckKept(jobs', jobsSeen)
  BY <1>1 DEF OInv, Order, CheckKept
<1>6. \/ Core(hand.status) = Core(cr.status)
      \/ Remade(jobs, jobsSeen, hand.status, cr.status, {"running"})
  BY <1>2 DEF Behind, Observes, JobOfPhase
<1>7. \/ /\ cr.status.phase = hand.status.phase /\ cr.status.target = t
      \/ /\ Kept(j, t, jobs, jobsSeen, {"running"})
         /\ \/ j # "db-contract" /\ cr.status.target = t
            \/ j = "db-contract" /\ cr.status.phase = "none" /\ cr.status.installed = t
  BY <1>6 DEF Core, Remade, Advanced, Installed, JobOfPhase
<1>8. Fits(jobs, jobsSeen, cr.status)
  BY DEF OInv, Order
<1>9. CASE jobs'[j] \in {jobs[j], Absent}
  <2>1. \A k \in PhaseJobs : jobs'[k] \in {jobs[k], Absent}
    BY <1>1, <1>9
  <2>. QED
    BY <1>4, <1>5, <1>8, <2>1, DeletesFit
<1>10. CASE jobs'[j] = Running /\ (Outdated(j, t) \/ jobsSeen[j] = Absent)
  <2>1. JobFits(j, jobs', jobsSeen, cr.status)
    <3>1. CASE Outdated(j, t)
      <4>1. cr.status.target = t
        BY <1>7, <3>1 DEF Kept, Outdated, Terminal, Absent
      <4>. QED
        BY <1>10, <3>1, <4>1 DEF JobFits, Outdated
    <3>2. CASE jobsSeen[j] = Absent
      <4>1. ~ Terminal(jobsSeen[j])
        BY <3>2 DEF Terminal, Absent
      <4>2. t # NoTag /\ Sibling(t, t)
        BY TagsAssumption DEF Sibling
      <4>. QED
        BY <1>7, <1>10, <4>1, <4>2 DEF JobFits
    <3>. QED
      BY <1>10, <3>1, <3>2
  <2>2. \A k \in PhaseJobs \ {j} : JobFits(k, jobs', jobsSeen, cr.status)
    BY <1>1, <1>8 DEF Fits, JobFits
  <2>3. PastFits(jobs', jobsSeen, cr.status)
    BY <1>1, <1>7, <1>8, <1>10 DEF Fits, PastFits, OfTag, JobOfPhase
  <2>. QED
    BY <1>4, <1>5, <2>1, <2>2, <2>3 DEF Fits
<1>. QED
  BY <1>1, <1>9, <1>10

\* db-sync and schema-check are no phase Jobs.
LEMMA RunSyncJobFits ==
  ASSUME OInv, pc = "database", NEW j \in {"db-sync", "schema-check"},
         j = "schema-check" => /\ Done("db-sync", hand.tag)
                               /\ ~ Done("schema-check", hand.tag),
         RunJob(j, hand.tag)
  PROVE  /\ Fits(jobs', jobsSeen, cr.status)
         /\ CheckKept(jobs', jobsSeen)
         /\ Behind(hand, jobs', jobsSeen, cr.status, {"running"})
<1>1. /\ \A k \in Jobs \ {j} : jobs'[k] = jobs[k]
      /\ \/ jobs'[j] \in {jobs[j], Absent}
         \/ jobs'[j] = [st |-> "running", tag |-> hand.tag]
  BY RunJobChanges DEF OInv
<1>2. Behind(hand, jobs, jobsSeen, cr.status, {"running"})
  BY DEF OInv, Order, Reads
<1>3. \A k \in Jobs : jobs'[k] \in {jobs[k], jobsSeen[k], Absent}
                      \/ jobs'[k].st \in {"running"}
  BY <1>1
<1>4. Behind(hand, jobs', jobsSeen, cr.status, {"running"})
  BY <1>2, <1>3, RemadeStays DEF Behind
<1>5. CheckKept(jobs', jobsSeen)
  BY <1>1 DEF OInv, Order, CheckKept, Done
<1>6. \A k \in PhaseJobs : jobs'[k] \in {jobs[k], Absent}
  BY <1>1
<1>7. Fits(jobs', jobsSeen, cr.status)
  BY <1>6, DeletesFit DEF OInv, Order
<1>. QED
  BY <1>4, <1>5, <1>7

-----------------------------------------------------------------------------
(* The Database step: what it does to the Jobs, and what it may write.      *)

LEMMA StepOfDatabase ==
  ASSUME OInv, ReconcileDatabase
  PROVE  /\ pc = "database" /\ pc' \in {"deployment", "status"} /\ hand \in CRs
         /\ UNCHANGED <<cr, seen, hand, jobsSeen>> /\ stale' \subseteq stale
BY DEF OInv, TypeOK, ReconcileDatabase, DatabaseWork, ProvisionWait,
       AbortUpgrade, AbortInterrupted, TargetChanged, InitiateUpgrade,
       ReconcileExpand, ReconcileMigrate, ReconcileContract, PhaseJobPending,
       CompleteExpand, CompleteMigrate, ReconcileRollingUpdate,
       CompleteContract, SyncPending, SchemaCheckPending, SyncComplete,
       Return, ReturnAfter, RecordTerminalState

LEMMA DatabaseJobs ==
  ASSUME OInv, ReconcileDatabase
  PROVE  /\ Fits(jobs', jobsSeen, cr.status)
         /\ CheckKept(jobs', jobsSeen)
         /\ Behind(hand, jobs', jobsSeen, cr.status, {"running"})
<1>1. pc = "database" /\ hand \in CRs /\ hand.tag \in Tags /\ work = hand.status
  BY StepOfDatabase DEF CRs, OInv, Order, Reads
<1>2. /\ Fits(jobs, jobsSeen, cr.status) /\ CheckKept(jobs, jobsSeen)
      /\ Behind(hand, jobs, jobsSeen, cr.status, {"running"})
  BY <1>1 DEF OInv, Order, Reads
<1>3. CASE jobs' = jobs
  BY <1>2, <1>3
<1>4. ASSUME NEW D \in SUBSET PhaseJobs, DeleteUpgradeJobs(D)
      PROVE  /\ Fits(jobs', jobsSeen, cr.status)
             /\ CheckKept(jobs', jobsSeen)
             /\ Behind(hand, jobs', jobsSeen, cr.status, {"running"})
  <2>1. \A j \in Jobs : jobs'[j] = IF j \in D THEN Absent ELSE jobs[j]
    BY <1>4 DEF DeleteUpgradeJobs
  <2>2. \A j \in Jobs : jobs'[j] \in {jobs[j], jobsSeen[j], Absent}
    BY <2>1
  <2>3. jobs'["schema-check"] = jobs["schema-check"]
    BY <2>1
  <2>4. \A j \in PhaseJobs : jobs'[j] \in {jobs[j], Absent}
    BY <2>1
  <2>5. Behind(hand, jobs', jobsSeen, cr.status, {"running"})
    BY <1>2, <2>2, RemadeStays DEF Behind
  <2>. QED
    BY <1>2, <2>3, <2>4, <2>5, DeletesFit DEF CheckKept
<1>5. CASE ReconcileExpand \/ ReconcileMigrate \/ ReconcileContract
  BY <1>1, <1>5, RunPhaseJobFits
     DEF ReconcileExpand, ReconcileMigrate, ReconcileContract,
         PhaseJobPending, OnTarget, JobOfPhase
<1>6. CASE SyncPending \/ SchemaCheckPending
  BY <1>1, <1>6, RunSyncJobFits DEF SyncPending, SchemaCheckPending
<1>7. CASE AbortUpgrade \/ AbortInterrupted
  BY <1>4, <1>7 DEF AbortUpgrade, AbortInterrupted
<1>. QED
  BY <1>3, <1>5, <1>6, <1>7
     DEF ReconcileDatabase, DatabaseWork, ProvisionWait, TargetChanged,
         InitiateUpgrade, CompleteExpand, CompleteMigrate,
         ReconcileRollingUpdate, CompleteContract, SyncComplete

LEMMA FollowsItself ==
  ASSUME NEW s, NEW c, Core(s) = Core(c)
  PROVE  Follows(s, c)
BY DEF Core, Follows

\* Patches of one release may replace each other.
LEMMA PatchFollows ==
  ASSUME NEW J, NEW S, NEW c, NEW w, NEW o,
         c.phase = "none", w.phase = "none", c.target = w.target,
         c.installed # NoTag, w.installed # NoTag,
         Sibling(c.installed, w.installed)
  PROVE  /\ Follows(c, w) /\ Remade(J, S, c, w, o)
         /\ Fits(J, S, c) => Fits(J, S, w)
<1>1. Follows(c, w)
  BY SiblingIsNoUpgrade DEF Follows
<1>2. Remade(J, S, c, w, o)
  BY DEF Remade, Installed
<1>3. ASSUME NEW j \in PhaseJobs, JobFits(j, J, S, c) PROVE JobFits(j, J, S, w)
  <2>1. Sibling(c.installed, J[j].tag) => Sibling(w.installed, J[j].tag)
    BY SiblingEquivalence
  <2>. QED
    BY <1>3, <2>1 DEF JobFits
<1>4. PastFits(J, S, w)
  BY DEF PastFits
<1>. QED
  BY <1>1, <1>2, <1>3, <1>4 DEF Fits

\* A status that only says "not ready": a pass that recorded a terminal Job
\* is not behind, or behind by a patch.
LEMMA SameWritable ==
  ASSUME OInv, pc = "database", hand \in CRs, work' \in {work, NotReady},
         work' # hand.status, Fits(jobs', jobsSeen, cr.status),
         \/ "pass" \notin stale
         \/ /\ Observes(hand)
            /\ \A j \in PhaseJobs : <<hand.status.phase, j>> \in JobOfPhase =>
                 ~ Kept(j, hand.status.target, jobs, jobsSeen, {"running"})
  PROVE  Writable(jobs', jobsSeen, cr, seen, work')
<1>. DEFINE s == hand.status
            c == cr.status
            w == work'
<1>1. /\ work = s /\ Behind(hand, jobs, jobsSeen, c, {"running"})
      /\ "pass" \notin stale => hand = cr
      /\ seen = hand \/ seen.status = c
      /\ StatusSound(s) /\ StatusSound(c)
  BY DEF OInv, Order, Reads, Sound
<1>2. s \in Statuses
  BY DEF CRs
<1>3. /\ w.installed = s.installed /\ w.target = s.target /\ w.phase = s.phase
      /\ Core(w) = Core(s)
  BY <1>1, <1>2 DEF NotReady, Statuses, Core
<1>4. CASE Core(s) = Core(c)
  <2>1. Core(w) = Core(c)
    BY <1>3, <1>4
  <2>2. Fits(jobs', jobsSeen, w) /\ Follows(c, w)
    BY <2>1, CoreCounts, FollowsItself
  <2>3. Core(seen.status) = Core(w)
    BY <1>1, <1>3, <1>4
  <2>. QED
    BY <2>1, <2>2, <2>3 DEF Writable, Behind
<1>5. CASE Core(s) # Core(c)
  <2>1. "pass" \in stale /\ Observes(hand)
    BY <1>1, <1>5
  <2>2. Remade(jobs, jobsSeen, s, c, {"running"})
    BY <1>1, <1>5, <2>1 DEF Behind
  <2>3. Installed(jobs, jobsSeen, s, c, {"running"})
    BY <2>1, <2>2 DEF Remade, Advanced, JobOfPhase
  <2>4. s.phase = "none" /\ c.phase = "none" /\ s.target = c.target /\ c.installed # NoTag
    BY <1>1, <2>3 DEF Installed, StatusSound
  <2>5. s.installed # NoTag
    <3>. SUFFICES ASSUME s.installed = NoTag PROVE FALSE
      OBVIOUS
    <3>1. ~ s.dbReady
      BY <1>1 DEF StatusSound
    <3>2. NotReady = s
      BY <1>1, <1>2, <3>1 DEF NotReady, Statuses
    <3>. QED
      BY <1>1, <3>2
  <2>6. Sibling(c.installed, w.installed)
    BY <1>3, <2>3, <2>5, SiblingEquivalence DEF Installed
  <2>7. Follows(c, w) /\ Fits(jobs', jobsSeen, w) /\ Remade(jobs', jobsSeen, c, w, {})
    BY <1>3, <2>4, <2>5, <2>6, PatchFollows
  <2>8. seen = hand => Core(seen.status) = Core(w)
    BY <1>3
  <2>. QED
    BY <1>1, <2>7, <2>8 DEF Writable, Behind
<1>. QED
  BY <1>4, <1>5

\* A terminal Job of the target, taken as done, is the only one there is.
LEMMA DoneIsFirm ==
  ASSUME TypeOK, NEW j \in PhaseJobs, NEW t \in Tags, NEW c,
         Done(j, t), JobFits(j, jobs, jobsSeen, c), c.target \in {t, NoTag}
  PROVE  Kept(j, t, jobs, jobsSeen, {})
<1>1. jobs[j] = Absent \/ jobs[j].tag \in Tags
  BY DEF TypeOK, JobStates
<1>2. jobsSeen[j] = [st |-> "complete", tag |-> t]
  BY DEF Done
<1>3. Terminal(jobsSeen[j])
  BY <1>2 DEF Terminal
<1>4. jobs[j] \in {Absent, jobsSeen[j]}
  BY <1>1, <1>2, <1>3, TagsAssumption DEF JobFits
<1>. QED
  BY <1>2, <1>4 DEF Kept

\* The three phases that a Job completes, on the status read or one behind.
LEMMA CompletedWritable ==
  ASSUME OInv, pc = "database", hand \in CRs, NEW j \in PhaseJobs,
         <<hand.status.phase, j>> \in JobOfPhase,
         hand.tag = hand.status.target, Done(j, hand.tag), jobs' = jobs,
         \/ /\ work'.target = hand.tag
            /\ work'.installed = hand.status.installed
            /\ <<hand.status.phase, work'.phase>> \in
                 {<<"Expanding", "Migrating">>, <<"Migrating", "RollingUpdate">>}
         \/ /\ hand.status.phase = "Contracting" /\ work'.phase = "none"
            /\ work'.target = NoTag /\ work'.installed = hand.tag
  PROVE  Writable(jobs', jobsSeen, cr, seen, work')
<1>. DEFINE s == hand.status
            c == cr.status
            t == hand.tag
            w == work'
<1>1. /\ Behind(hand, jobs, jobsSeen, c, {"running"})
      /\ seen = hand \/ seen.status = c
      /\ StatusSound(s) /\ StatusSound(c)
      /\ Fits(jobs, jobsSeen, c)
      /\ t \in Tags /\ TypeOK
  BY DEF OInv, Order, Reads, Sound, CRs
<1>2. Observes(hand)
  BY DEF Observes, JobOfPhase
<1>3. Core(s) = Core(c) \/ Remade(jobs, jobsSeen, s, c, {"running"})
  BY <1>1, <1>2 DEF Behind
<1>4. Core(w) = Core(c) \/ Core(s) = Core(c)
  BY <1>1, <1>3 DEF Remade, Advanced, Installed, Core, JobOfPhase, StatusSound
<1>5. c.target \in {t, NoTag}
  BY <1>1, <1>3 DEF Core, Remade, Advanced, Installed, StatusSound
<1>6. Kept(j, t, jobs, jobsSeen, {})
  BY <1>1, <1>5, DoneIsFirm DEF Fits
<1>7. Remade(jobs, jobsSeen, s, w, {})
  BY <1>6 DEF Remade, Advanced, JobOfPhase
<1>8. Behind(seen, jobs, jobsSeen, w, {}) /\ Behind(cr, jobs, jobsSeen, w, {})
  <2>1. Behind(cr, jobs, jobsSeen, w, {})
    BY <1>4, <1>7, CoreCounts DEF Behind
  <2>2. Behind(seen, jobs, jobsSeen, w, {})
    BY <1>1, <1>4, <1>7, CoreCounts DEF Behind
  <2>. QED
    BY <2>1, <2>2
<1>9. CASE Core(w) = Core(c)
  BY <1>1, <1>8, <1>9, CoreCounts, FollowsItself DEF Writable
<1>10. CASE Core(s) = Core(c)
  <2>1. c.installed = s.installed /\ c.target = t /\ c.phase = s.phase
    BY <1>10 DEF Core
  <2>2. Follows(c, w)
    <3>1. CASE w.phase # "none"
      BY <2>1, <3>1 DEF Follows, NextPhase
    <3>2. CASE w.phase = "none"
      <4>1. ValidPath(c.installed, w.installed) /\ w.installed # NoTag
        BY <1>1, <2>1, <3>2, TagsAssumption DEF StatusSound, JobOfPhase
      <4>. QED
        BY <3>2, <4>1 DEF Follows
    <3>. QED
      BY <3>1, <3>2
  <2>3. OfTag(j, jobs, jobsSeen, t)
    BY <1>6 DEF Kept, OfTag, Absent
  <2>4. CASE w.phase # "none"
    <3>1. \A k \in PhaseJobs : JobFits(k, jobs, jobsSeen, w)
      BY <1>1, <2>1, <2>4 DEF Fits, JobFits
    <3>2. PastFits(jobs, jobsSeen, w)
      BY <1>1, <2>1, <2>3, <2>4 DEF Fits, PastFits, JobOfPhase
    <3>. QED
      BY <1>8, <2>2, <3>1, <3>2 DEF Writable, Fits
  <2>5. CASE w.phase = "none"
    <3>1. s.phase = "Contracting" /\ w.installed = t /\ j = "db-contract"
      BY <2>5 DEF JobOfPhase
    <3>2. \A k \in PhaseJobs : OfTag(k, jobs, jobsSeen, t)
      BY <1>1, <2>1, <2>3, <3>1 DEF Fits, PastFits
    <3>3. ASSUME NEW k \in PhaseJobs, jobs[k] # Absent
          PROVE  JobFits(k, jobs, jobsSeen, w)
      <4>1. jobs[k].tag = t
        BY <1>1, <3>2, <3>3, TagsAssumption DEF OfTag, TypeOK, JobStates
      <4>2. Terminal(jobsSeen[k]) => jobs[k] = jobsSeen[k]
        <5>1. Terminal(jobsSeen[k]) => jobsSeen[k].tag = t
          BY <1>1, <3>2, TagsAssumption DEF OfTag, TypeOK, JobStates, Terminal, Absent
        <5>. QED
          BY <1>1, <3>3, <4>1, <5>1 DEF Fits, JobFits
      <4>3. Sibling(w.installed, jobs[k].tag) /\ w.installed # NoTag
        BY <1>1, <3>1, <4>1, TagsAssumption DEF Sibling
      <4>. QED
        BY <4>2, <4>3 DEF JobFits
    <3>4. Fits(jobs, jobsSeen, w)
      BY <2>5, <3>3 DEF Fits, PastFits, JobFits
    <3>. QED
      BY <1>8, <2>2, <3>4 DEF Writable
  <2>. QED
    BY <2>4, <2>5
<1>. QED
  BY <1>4, <1>9, <1>10

\* The one-shot sync, on a status read or one behind.
LEMMA SyncedWritable ==
  ASSUME OInv, pc = "database", hand \in CRs, hand.status.phase = "none",
         ~ IsUpgrade(hand.status.installed, hand.tag),
         Done("db-sync", hand.tag), Done("schema-check", hand.tag),
         jobs' = jobs, work'.phase = "none", work'.target = hand.status.target,
         work'.installed = hand.tag
  PROVE  Writable(jobs', jobsSeen, cr, seen, work')
<1>. DEFINE s == hand.status
            c == cr.status
            t == hand.tag
            w == work'
<1>1. /\ Behind(hand, jobs, jobsSeen, c, {"running"})
      /\ seen = hand \/ seen.status = c
      /\ StatusSound(s) /\ StatusSound(c)
      /\ Fits(jobs, jobsSeen, c)
      /\ t \in Tags /\ t # NoTag /\ TypeOK
  BY TagsAssumption DEF OInv, Order, Reads, Sound, CRs
<1>2. Kept("schema-check", t, jobs, jobsSeen, {})
  BY <1>1 DEF OInv, Order, CheckKept, Done, Kept
<1>3. Core(s) = Core(c) \/ Installed(jobs, jobsSeen, s, c, {"running"})
  BY <1>1 DEF Behind, Observes, Remade
<1>4. /\ c.phase = "none" /\ s.target = NoTag /\ c.target = NoTag
      /\ w.target = NoTag
  BY <1>1, <1>3 DEF Core, Installed, StatusSound
<1>5. s.installed # NoTag => Sibling(s.installed, t)
  BY SiblingIsNoUpgrade
<1>6. Installed(jobs, jobsSeen, s, w, {})
  BY <1>1, <1>2, <1>5 DEF Installed
<1>7. \/ Core(w) = Core(c)
      \/ c.installed # NoTag /\ Sibling(c.installed, w.installed)
      \/ c.installed = NoTag /\ Core(s) = Core(c)
  <2>1. CASE Core(s) = Core(c)
    BY <1>5, <2>1 DEF Core
  <2>2. CASE Installed(jobs, jobsSeen, s, c, {"running"}) /\ s.installed # NoTag
    BY <1>5, <2>2, SiblingEquivalence DEF Installed
  <2>3. CASE Installed(jobs, jobsSeen, s, c, {"running"}) /\ s.installed = NoTag
    <3>1. Kept("schema-check", c.installed, jobs, jobsSeen, {"running"})
      BY <2>3 DEF Installed
    <3>2. c.installed = t
      BY <3>1 DEF Kept, Done, Absent
    <3>. QED
      BY <1>4, <3>2 DEF Core
  <2>. QED
    BY <1>3, <2>1, <2>2, <2>3
<1>8. Follows(c, w) /\ Fits(jobs, jobsSeen, w)
      /\ (Core(c) = Core(w) \/ Remade(jobs, jobsSeen, c, w, {}))
  <2>1. CASE Core(w) = Core(c)
    BY <1>1, <2>1, CoreCounts, FollowsItself
  <2>2. CASE c.installed # NoTag /\ Sibling(c.installed, w.installed)
    BY <1>1, <1>4, <2>2, PatchFollows
  <2>3. CASE c.installed = NoTag /\ Core(s) = Core(c)
    <3>1. Follows(c, w)
      BY <1>4, <2>3 DEF Follows
    <3>2. \A j \in PhaseJobs : JobFits(j, jobs, jobsSeen, w)
      <4>1. \A j \in PhaseJobs : jobs[j] = Absent \/ jobs[j].tag # NoTag
        BY <1>1, TagsAssumption DEF TypeOK, JobStates
      <4>. QED
        BY <1>1, <1>4, <2>3, <4>1 DEF Fits, JobFits
    <3>3. Remade(jobs, jobsSeen, c, w, {})
      BY <1>6, <2>3, CoreCounts DEF Remade
    <3>. QED
      BY <3>1, <3>2, <3>3 DEF Fits, PastFits
  <2>. QED
    BY <1>7, <2>1, <2>2, <2>3
<1>9. Behind(seen, jobs, jobsSeen, w, {})
  BY <1>1, <1>6, <1>8 DEF Behind, Remade
<1>. QED
  BY <1>8, <1>9 DEF Writable, Behind

LEMMA DatabaseWrites ==
  ASSUME OInv, ReconcileDatabase
  PROVE  Writes'
<1>1. /\ pc = "database" /\ pc' \in {"deployment", "status"} /\ hand \in CRs
      /\ UNCHANGED <<cr, seen, hand, jobsSeen>> /\ stale' \subseteq stale
  BY StepOfDatabase
<1>2. /\ work = hand.status /\ work \in Statuses /\ hand.tag \in Tags
      /\ "pass" \notin stale => hand = cr /\ seen = cr
      /\ StatusSound(hand.status) /\ StatusSound(cr.status)
      /\ Fits(jobs, jobsSeen, cr.status) /\ TypeOK
      /\ Behind(hand, jobs, jobsSeen, cr.status, {"running"})
  BY <1>1 DEF OInv, TypeOK, Order, Reads, Sound, CRs
<1>3. Fits(jobs', jobsSeen, cr.status)
  BY DatabaseJobs
<1>4. NotReady.phase = work.phase /\ NotReady.installed = work.installed
      /\ NotReady.target = work.target
  BY <1>2 DEF NotReady, Statuses
\* A step that ends the pass, or goes on with another phase.
<1>5. ASSUME "pass" \notin stale' /\ work' # hand.status =>
               Writable(jobs', jobsSeen, cr, seen, work'),
             pc' = "status" \/ work'.phase # "RollingUpdate"
      PROVE  Writes'
  BY <1>1, <1>5 DEF Writes
<1>6. ASSUME NEW status, Return("status", status), status \in {work, NotReady}
      PROVE  Writes'
  <2>1. pc' = "status" /\ work' = status /\ stale' = stale
    BY <1>6 DEF Return, ReturnAfter, RecordTerminalState
  <2>. QED
    BY <1>1, <1>3, <1>5, <1>6, <2>1, SameWritable
<1>7. CASE ProvisionWait \/ AbortInterrupted \/ TargetChanged
  BY <1>6, <1>7 DEF ProvisionWait, AbortInterrupted, TargetChanged
<1>8. ASSUME NEW j \in PhaseJobs, <<hand.status.phase, j>> \in JobOfPhase,
             OnTarget, ~ Done(j, hand.tag), ReturnAfter({j}, "status", NotReady)
      PROVE  Writes'
  <2>1. pc' = "status" /\ work' = NotReady
    BY <1>8 DEF ReturnAfter
  <2>2. Observes(hand)
    BY <1>2, <1>8 DEF Observes, OnTarget, JobOfPhase
  <2>3. CASE "pass" \notin stale' /\ "pass" \in stale
    <3>1. Terminal(jobsSeen[j])
      BY <1>8, <2>3 DEF ReturnAfter, RecordTerminalState
    <3>2. hand.status.target = hand.tag
      BY <1>2, <1>8 DEF OnTarget
    <3>3. ~ Kept(j, hand.status.target, jobs, jobsSeen, {"running"})
      BY <1>8, <3>1, <3>2 DEF Kept, Done, Terminal, Absent
    <3>4. \A k \in PhaseJobs : <<hand.status.phase, k>> \in JobOfPhase => k = j
      BY <1>8 DEF JobOfPhase
    <3>. QED
      BY <1>1, <1>3, <1>5, <2>1, <2>2, <3>3, <3>4, SameWritable
  <2>4. CASE "pass" \notin stale' /\ "pass" \notin stale
    BY <1>1, <1>3, <1>5, <2>1, <2>4, SameWritable
  <2>. QED
    BY <1>5, <2>1, <2>3, <2>4
<1>9. CASE ReconcileExpand \/ ReconcileMigrate \/ ReconcileContract
  BY <1>2, <1>8, <1>9 DEF ReconcileExpand, ReconcileMigrate,
     ReconcileContract, PhaseJobPending, JobOfPhase
<1>10. CASE SyncPending \/ SchemaCheckPending
  <2>1. pc' = "status" /\ work' = NotReady /\ hand.status.phase = "none"
        /\ ~ IsUpgrade(hand.status.installed, hand.tag)
    BY <1>2, <1>10
       DEF SyncPending, SchemaCheckPending, ReturnAfter, SteadyState
  <2>2. Observes(hand)
    BY <2>1 DEF Observes
  <2>3. \A j \in PhaseJobs : <<hand.status.phase, j>> \notin JobOfPhase
    BY <2>1 DEF JobOfPhase
  <2>. QED
    BY <1>1, <1>3, <1>5, <2>1, <2>2, <2>3, SameWritable
<1>11. CASE AbortUpgrade
  <2>1. /\ pc' = "status" /\ stale' = stale
        /\ work' = [work EXCEPT !.phase = "none", !.target = NoTag]
        /\ hand.status.phase # "none" /\ hand.tag = hand.status.installed
        /\ DeleteUpgradeJobs(PhaseJobs)
    BY <1>2, <1>11
       DEF AbortUpgrade, Return, ReturnAfter, RecordTerminalState, Reverted
  <2>. SUFFICES ASSUME "pass" \notin stale
                PROVE  Writable(jobs', jobsSeen, cr, seen, work')
    BY <1>5, <2>1
  <2>2. hand = cr /\ seen = cr
    BY <1>2
  <2>3. /\ work'.phase = "none" /\ work'.target = NoTag
        /\ work'.installed = cr.status.installed
    BY <1>2, <2>1, <2>2 DEF Statuses
  <2>4. ~ Observes(cr)
    BY <1>2, <2>1, <2>2, PathMoves DEF Observes, StatusSound
  <2>5. \A j \in PhaseJobs : jobs'[j] = Absent
    BY <2>1 DEF DeleteUpgradeJobs
  <2>6. Fits(jobs', jobsSeen, work')
    BY <2>3, <2>5 DEF Fits, JobFits, PastFits
  <2>7. Follows(cr.status, work')
    BY <2>3 DEF Follows
  <2>. QED
    BY <2>2, <2>4, <2>6, <2>7 DEF Writable, Behind
<1>12. CASE InitiateUpgrade
  <2>1. /\ pc' = "status" /\ stale' = stale /\ jobs' = jobs
        /\ hand.status.phase = "none"
        /\ IsUpgrade(hand.status.installed, hand.tag)
        /\ work' = IF ValidPath(work.installed, hand.tag)
                   THEN [NotReady EXCEPT !.target = hand.tag, !.phase = "Expanding"]
                   ELSE NotReady
    BY <1>2, <1>12
       DEF InitiateUpgrade, Return, ReturnAfter, RecordTerminalState
  <2>2. CASE ~ ValidPath(work.installed, hand.tag)
    BY <1>1, <1>3, <1>5, <2>1, <2>2, SameWritable
  <2>3. CASE ValidPath(work.installed, hand.tag)
    <3>. SUFFICES ASSUME "pass" \notin stale
                  PROVE  Writable(jobs', jobsSeen, cr, seen, work')
      BY <1>5, <2>1
    <3>1. hand = cr /\ seen = cr
      BY <1>2
    <3>2. /\ work'.phase = "Expanding" /\ work'.target = hand.tag
          /\ work'.installed = cr.status.installed
      BY <1>2, <2>1, <2>3, <3>1 DEF NotReady, Statuses
    <3>3. ~ Observes(cr)
      BY <2>1, <3>1 DEF Observes
    <3>4. cr.status.target = NoTag /\ cr.status.phase = "none"
      BY <1>2, <2>1, <3>1 DEF StatusSound
    <3>5. \A j \in PhaseJobs : jobs[j] = Absent \/ jobs[j].tag # NoTag
      BY <1>2, TagsAssumption DEF TypeOK, JobStates
    <3>6. Fits(jobs', jobsSeen, work')
      BY <1>2, <2>1, <3>2, <3>4, <3>5 DEF Fits, JobFits, PastFits
    <3>7. Follows(cr.status, work')
      BY <3>2, <3>4 DEF Follows
    <3>. QED
      BY <3>1, <3>3, <3>6, <3>7 DEF Writable, Behind
  <2>. QED
    BY <2>2, <2>3
<1>13. CASE CompleteExpand \/ CompleteMigrate
  <2>1. PICK j \in PhaseJobs, next \in {"Migrating", "RollingUpdate"} :
          /\ <<work.phase, j>> \in JobOfPhase
          /\ <<work.phase, next>> \in {<<"Expanding", "Migrating">>,
                                       <<"Migrating", "RollingUpdate">>}
          /\ OnTarget /\ Done(j, hand.tag) /\ jobs' = jobs
          /\ pc' = "status" /\ work' = [NotReady EXCEPT !.phase = next]
    BY <1>13 DEF CompleteExpand, CompleteMigrate, ReturnAfter, JobOfPhase
  <2>2. work'.phase = next /\ work'.target = work.target
        /\ work'.installed = work.installed
    BY <1>2, <2>1 DEF NotReady, Statuses
  <2>3. Writable(jobs', jobsSeen, cr, seen, work')
    BY <1>1, <1>2, <2>1, <2>2, CompletedWritable DEF OnTarget
  <2>. QED
    BY <1>5, <2>1, <2>3
<1>14. CASE ReconcileRollingUpdate
  <2>1. /\ pc' = "deployment" /\ stale' = stale /\ jobs' = jobs
        /\ work' = NotReady
    BY <1>14 DEF ReconcileRollingUpdate, Return, ReturnAfter, RecordTerminalState
  <2>2. "pass" \notin stale' /\ work' # hand.status =>
          Writable(jobs', jobsSeen, cr, seen, work')
    BY <1>1, <1>3, <2>1, SameWritable
  <2>3. "pass" \notin stale => Core(cr.status) = Core(work')
                               /\ Core(seen.status) = Core(work')
    BY <1>2, <1>4, <2>1 DEF Core
  <2>. QED
    BY <1>1, <2>1, <2>2, <2>3 DEF Writes
<1>15. CASE CompleteContract
  <2>1. /\ pc' = "deployment" /\ jobs' = jobs /\ OnTarget
        /\ work.phase = "Contracting" /\ Done("db-contract", hand.tag)
        /\ work' = [installed |-> work.target, target |-> NoTag,
                    phase |-> "none", dbReady |-> TRUE]
    BY <1>15 DEF CompleteContract, ReturnAfter
  <2>2. <<hand.status.phase, "db-contract">> \in JobOfPhase
    BY <1>2, <2>1 DEF JobOfPhase
  <2>3. Writable(jobs', jobsSeen, cr, seen, work')
    BY <1>1, <1>2, <2>1, <2>2, CompletedWritable DEF OnTarget
  <2>. QED
    BY <1>5, <2>1, <2>3
<1>16. CASE SyncComplete
  <2>1. /\ pc' = "deployment" /\ jobs' = jobs /\ work.phase = "none"
        /\ ~ IsUpgrade(work.installed, hand.tag)
        /\ Done("db-sync", hand.tag) /\ Done("schema-check", hand.tag)
        /\ work' = [work EXCEPT !.installed = hand.tag, !.dbReady = TRUE]
    BY <1>16 DEF SyncComplete, ReturnAfter, SteadyState
  <2>2. work'.phase = "none" /\ work'.target = work.target
        /\ work'.installed = hand.tag
    BY <1>2, <2>1 DEF Statuses
  <2>3. Writable(jobs', jobsSeen, cr, seen, work')
    BY <1>1, <1>2, <2>1, <2>2, SyncedWritable
  <2>. QED
    BY <1>5, <2>1, <2>2, <2>3
<1>. QED
  BY <1>7, <1>9, <1>10, <1>11, <1>12, <1>13, <1>14, <1>15, <1>16
     DEF ReconcileDatabase, DatabaseWork

LEMMA DatabaseSound ==
  ASSUME OInv, ReconcileDatabase
  PROVE  StatusSound(work')
<1>1. /\ StatusSound(work) /\ work \in Statuses /\ work = hand.status
      /\ hand.tag \in Tags
  BY StepOfDatabase DEF OInv, Order, Sound, TypeOK, Reads, CRs
<1>2. StatusSound(NotReady)
  BY <1>1 DEF StatusSound, NotReady, Statuses
<1>3. CASE work' \in {work, NotReady}
  BY <1>1, <1>2, <1>3
<1>4. CASE AbortUpgrade
  <2>1. work' = [work EXCEPT !.phase = "none", !.target = NoTag]
    BY <1>4 DEF AbortUpgrade, Return, ReturnAfter
  <2>. QED
    BY <1>1, <2>1 DEF StatusSound, Statuses
<1>5. CASE InitiateUpgrade
  <2>1. ASSUME ValidPath(work.installed, hand.tag),
               IsUpgrade(work.installed, hand.tag)
        PROVE  StatusSound([NotReady EXCEPT !.target = hand.tag,
                                            !.phase = "Expanding"])
    BY <1>1, <2>1, TagsAssumption DEF StatusSound, NotReady, Statuses, IsUpgrade
  <2>. QED
    BY <1>2, <1>5, <2>1 DEF InitiateUpgrade, Return, ReturnAfter
<1>6. CASE CompleteExpand \/ CompleteMigrate
  <2>1. PICK next \in {"Migrating", "RollingUpdate"} :
          work' = [NotReady EXCEPT !.phase = next] /\ work.phase # "none"
    BY <1>6 DEF CompleteExpand, CompleteMigrate, ReturnAfter
  <2>. QED
    BY <1>1, <2>1 DEF StatusSound, NotReady, Statuses
<1>7. CASE CompleteContract
  <2>1. work' = [installed |-> work.target, target |-> NoTag,
                 phase |-> "none", dbReady |-> TRUE] /\ work.phase # "none"
    BY <1>7 DEF CompleteContract, ReturnAfter
  <2>. QED
    BY <1>1, <2>1 DEF StatusSound
<1>8. CASE SyncComplete
  <2>1. work' = [work EXCEPT !.installed = hand.tag, !.dbReady = TRUE]
        /\ work.phase = "none"
    BY <1>8 DEF SyncComplete, ReturnAfter, SteadyState
  <2>. QED
    BY <1>1, <2>1, TagsAssumption DEF StatusSound, Statuses
<1>. QED
  BY <1>3, <1>4, <1>5, <1>6, <1>7, <1>8
     DEF ReconcileDatabase, DatabaseWork, ProvisionWait, AbortInterrupted,
         TargetChanged, ReconcileExpand, ReconcileMigrate, ReconcileContract,
         PhaseJobPending, ReconcileRollingUpdate, SyncPending,
         SchemaCheckPending, Return, ReturnAfter

-----------------------------------------------------------------------------
(* The steps around it.                                                     *)

LEMMA DatabaseOrder ==
  ASSUME OInv, ReconcileDatabase
  PROVE  Order'
<1>1. /\ pc = "database" /\ pc' \in {"deployment", "status"} /\ hand \in CRs
      /\ UNCHANGED <<cr, seen, hand, jobsSeen>> /\ stale' \subseteq stale
  BY StepOfDatabase
<1>2. /\ Fits(jobs', jobsSeen, cr.status) /\ CheckKept(jobs', jobsSeen)
      /\ Behind(hand, jobs', jobsSeen, cr.status, {"running"})
  BY DatabaseJobs
<1>3. seen = hand \/ seen.status = cr.status
  BY <1>1 DEF OInv, Order, Reads
<1>4. Behind(seen, jobs', jobsSeen, cr.status, {"running"})
  BY <1>2, <1>3 DEF Behind
<1>5. "cache" \notin stale' => seen = cr
  <2>1. "cache" \in stale' \/ "cache" \notin stale
    BY DEF ReconcileDatabase, DatabaseWork, ProvisionWait, AbortUpgrade,
           AbortInterrupted, TargetChanged, InitiateUpgrade, ReconcileExpand,
           ReconcileMigrate, ReconcileContract, PhaseJobPending,
           CompleteExpand, CompleteMigrate, ReconcileRollingUpdate,
           CompleteContract, SyncPending, SchemaCheckPending, SyncComplete,
           Return, ReturnAfter, RecordTerminalState
  <2>. QED
    BY <2>1 DEF OInv, Order, Reads
<1>6. Reads'
  BY <1>1, <1>3, <1>4, <1>5 DEF Reads
<1>7. Sound'
  BY <1>1, DatabaseSound DEF OInv, Order, Sound
<1>. QED
  BY <1>1, <1>2, <1>6, <1>7, DatabaseWrites DEF Order

LEMMA DeploymentOrder ==
  ASSUME OInv, ReconcileDeployment
  PROVE  Order'
<1>1. /\ pc = "deployment" /\ pc' = "status"
      /\ UNCHANGED <<cr, seen, stale, hand, jobs, jobsSeen>>
      /\ \/ work' = work
         \/ /\ work.phase = "RollingUpdate"
            /\ work' = [work EXCEPT !.phase = "Contracting"]
  BY DEF ReconcileDeployment, ApplyDeployment, DeploymentWait,
         DeploymentIsReady, ReturnDeployment
<1>2. work \in Statuses /\ Sound /\ Reads /\ Writes
      /\ Fits(jobs, jobsSeen, cr.status) /\ CheckKept(jobs, jobsSeen)
  BY DEF OInv, TypeOK, Order
<1>3. Reads'
  BY <1>1, <1>2 DEF Reads
<1>4. CASE work' = work
  BY <1>1, <1>2, <1>3, <1>4 DEF Order, Sound, Writes
<1>5. CASE work.phase = "RollingUpdate"
           /\ work' = [work EXCEPT !.phase = "Contracting"]
  <2>1. /\ work'.phase = "Contracting" /\ work'.target = work.target
        /\ work'.installed = work.installed /\ work'.dbReady = work.dbReady
    BY <1>2, <1>5 DEF Statuses
  <2>2. Sound'
    BY <1>1, <1>2, <1>5, <2>1 DEF Sound, StatusSound
  <2>3. ASSUME "pass" \notin stale
        PROVE  Writable(jobs, jobsSeen, cr, seen, work')
    <3>1. Core(cr.status) = Core(work) /\ Core(seen.status) = Core(work)
      BY <1>1, <1>2, <1>5, <2>3 DEF Writes
    <3>2. ~ Observes(cr) /\ ~ Observes(seen)
      BY <1>5, <3>1 DEF Observes, Core
    <3>3. Follows(cr.status, work')
      BY <1>5, <2>1, <3>1 DEF Follows, Core, NextPhase
    <3>4. Fits(jobs, jobsSeen, work)
      BY <1>2, <3>1, CoreCounts
    <3>5. Fits(jobs, jobsSeen, work')
      BY <1>5, <2>1, <3>4 DEF Fits, JobFits, PastFits
    <3>. QED
      BY <3>2, <3>3, <3>5 DEF Writable, Behind
  <2>4. Writes'
    BY <1>1, <2>3 DEF Writes
  <2>. QED
    BY <1>1, <1>2, <1>3, <2>2, <2>4 DEF Order
<1>. QED
  BY <1>1, <1>4, <1>5

LEMMA StatusWritten ==
  ASSUME OInv, UpdateStatus
  PROVE  Order'
<1>1. /\ pc = "status" /\ pc' = "idle" /\ hand' = NoPass /\ work' = FreshStatus
      /\ UNCHANGED <<seen, jobs, jobsSeen>>
  BY DEF UpdateStatus, EndPass, cluster
<1>2. Sound /\ Reads /\ Writes
      /\ Fits(jobs, jobsSeen, cr.status) /\ CheckKept(jobs, jobsSeen)
  BY DEF OInv, Order
<1>3. StatusSound(FreshStatus) /\ NoPass.status = FreshStatus
  BY DEF StatusSound, FreshStatus, NoPass
<1>4. Writes'
  BY <1>1 DEF Writes
<1>5. CASE UNCHANGED cr /\ stale' = stale \ {"pass"}
  BY <1>1, <1>2, <1>3, <1>4, <1>5 DEF Order, Sound, Reads
<1>6. CASE /\ work # hand.status /\ "pass" \notin stale
           /\ cr' = [cr EXCEPT !.status = work] /\ stale' = {"cache"}
  <2>1. cr'.status = work
    BY <1>6 DEF OInv, TypeOK, CRs
  <2>2. Writable(jobs, jobsSeen, cr, seen, work)
    BY <1>1, <1>2, <1>6 DEF Writes
  <2>3. Behind(seen, jobs, jobsSeen, work, {"running"})
    BY <2>2, FirmIsKept DEF Writable, Behind
  <2>4. Reads'
    BY <1>1, <1>6, <2>1, <2>3 DEF Reads
  <2>5. Sound'
    BY <1>1, <1>2, <1>3, <2>1 DEF Sound
  <2>. QED
    BY <1>1, <1>2, <1>4, <2>1, <2>2, <2>4, <2>5 DEF Order, Writable
<1>. QED
  BY <1>5, <1>6 DEF UpdateStatus

\* A Job ends when no copy of the CR is outdated.
LEMMA JobEnded ==
  ASSUME OInv, NEW j \in Jobs, JobSucceeds(j) \/ JobFails(j)
  PROVE  Order'
<1>1. /\ stale = {} /\ jobs[j].st = "running"
      /\ UNCHANGED <<cr, seen, stale, pc, hand, work, jobsSeen>>
      /\ \A k \in Jobs \ {j} : jobs'[k] = jobs[k]
      /\ Terminal(jobs'[j]) /\ jobs'[j].tag = jobs[j].tag
      /\ jobs[j].tag \in Tags
  <2>1. PICK st \in {"complete", "failed"} : jobs' = [jobs EXCEPT ![j].st = st]
    BY DEF JobSucceeds, JobFails
  <2>2. jobs[j].st = "running" /\ jobs[j] \in JobStates /\ jobs \in JobMaps
    BY DEF JobSucceeds, JobFails, OInv, TypeOK, JobMaps
  <2>3. jobs'[j] = [jobs[j] EXCEPT !.st = st]
    BY <2>1, <2>2 DEF JobMaps
  <2>4. jobs'[j].st = st /\ jobs'[j].tag = jobs[j].tag /\ jobs[j].tag \in Tags
    BY <2>2, <2>3 DEF JobStates, Absent
  <2>5. \A k \in Jobs \ {j} : jobs'[k] = jobs[k]
    BY <2>1, <2>2 DEF JobMaps
  <2>. QED
    BY <2>2, <2>4, <2>5 DEF JobSucceeds, JobFails, OperatorKeptUp, operator,
                            Terminal
<1>2. Sound /\ Reads /\ Writes
      /\ Fits(jobs, jobsSeen, cr.status) /\ CheckKept(jobs, jobsSeen)
  BY DEF OInv, Order
<1>3. ASSUME NEW s, Fits(jobs, jobsSeen, s) PROVE Fits(jobs', jobsSeen, s)
  <2>1. ASSUME NEW k \in PhaseJobs PROVE JobFits(k, jobs', jobsSeen, s)
    <3>1. JobFits(k, jobs, jobsSeen, s)
      BY <1>3 DEF Fits
    <3>2. CASE k # j
      BY <1>1, <3>1, <3>2 DEF JobFits
    <3>3. CASE k = j
      <4>1. jobs[j] # Absent /\ (Terminal(jobsSeen[j]) => jobs[j] # jobsSeen[j])
        BY <1>1 DEF Absent, Terminal
      <4>. QED
        BY <1>1, <3>1, <3>3, <4>1 DEF JobFits
    <3>. QED
      BY <3>2, <3>3
  <2>2. \A k \in Jobs : jobs'[k].tag = jobs[k].tag
    BY <1>1
  <2>. QED
    BY <1>3, <2>1, <2>2 DEF Fits, PastFits, OfTag
<1>4. CheckKept(jobs', jobsSeen)
  BY <1>1, <1>2 DEF CheckKept
<1>5. ASSUME NEW s, NEW c, Remade(jobs, jobsSeen, s, c, {})
      PROVE  Remade(jobs', jobsSeen, s, c, {})
  <2>1. ASSUME NEW k \in Jobs, NEW t, Kept(k, t, jobs, jobsSeen, {})
        PROVE  Kept(k, t, jobs', jobsSeen, {})
    <3>1. k # j
      BY <1>1, <2>1 DEF Kept, Absent
    <3>. QED
      BY <1>1, <2>1, <3>1 DEF Kept
  <2>. QED
    BY <1>5, <2>1 DEF Remade, Advanced, Installed
<1>6. Reads'
  BY <1>1, <1>2 DEF Reads, Behind
<1>7. Writes'
  BY <1>1, <1>2, <1>3, <1>5 DEF Writes, Writable, Behind
<1>. QED
  BY <1>1, <1>2, <1>3, <1>4, <1>6, <1>7 DEF Order, Sound

LEMMA JobsCopied ==
  ASSUME OInv, SyncJobs
  PROVE  Order'
<1>1. UNCHANGED <<cr, seen, stale, pc, hand, work, jobs>> /\ jobsSeen' = jobs
  BY DEF SyncJobs, operator, cluster
<1>2. Sound /\ Reads /\ Writes /\ Fits(jobs, jobsSeen, cr.status)
  BY DEF OInv, Order
<1>3. \A s : Fits(jobs, jobsSeen, s) => Fits(jobs, jobs, s)
  BY CopiesFit
<1>4. \A s, c, o : Remade(jobs, jobsSeen, s, c, o) => Remade(jobs, jobs, s, c, o)
  BY RemadeStays
<1>5. CheckKept(jobs, jobs)
  BY DEF CheckKept
<1>6. Reads'
  BY <1>1, <1>2, <1>4 DEF Reads, Behind
<1>7. Writes'
  BY <1>1, <1>2, <1>3, <1>4 DEF Writes, Writable, Behind
<1>. QED
  BY <1>1, <1>2, <1>3, <1>5, <1>6, <1>7 DEF Order, Sound

LEMMA OrderInitially ==
  ASSUME Init
  PROVE  Order
<1>1. /\ seen = cr /\ cr.status = FreshStatus /\ hand.status = FreshStatus
      /\ work = FreshStatus /\ pc = "idle"
      /\ \A j \in Jobs : jobs[j] = Absent /\ jobsSeen[j] = Absent
  BY DEF Init, NoPass
<1>2. StatusSound(FreshStatus)
  BY DEF StatusSound, FreshStatus
<1>3. Fits(jobs, jobsSeen, FreshStatus) /\ CheckKept(jobs, jobsSeen)
  BY <1>1 DEF Fits, JobFits, PastFits, FreshStatus, CheckKept, Absent
<1>. QED
  BY <1>1, <1>2, <1>3 DEF Order, Sound, Reads, Writes, Behind

LEMMA OrderStep ==
  ASSUME OInv, [Next]_vars
  PROVE  OInv'
<1>1. TypeOK'
  BY TypeStep DEF OInv
<1>. SUFFICES Order'
  BY <1>1 DEF OInv
<1>. USE DEF operator, cluster, bounds
<1>2. Sound /\ Reads /\ Writes
      /\ Fits(jobs, jobsSeen, cr.status) /\ CheckKept(jobs, jobsSeen)
  BY DEF OInv, Order
<1>3. StatusSound(FreshStatus) /\ NoPass.status = FreshStatus
  BY DEF StatusSound, FreshStatus, NoPass
<1>4. ASSUME NEW t \in Tags, EditTag(t) PROVE Order'
  <2>1. cr'.status = cr.status /\ "cache" \in stale'
        /\ (pc # "idle" => "pass" \in stale')
    BY <1>4 DEF EditTag, OInv, TypeOK, CRs
  <2>2. UNCHANGED <<seen, pc, hand, work, jobs, jobsSeen>>
    BY <1>4 DEF EditTag
  <2>. QED
    BY <1>2, <2>1, <2>2 DEF Order, Sound, Reads, Writes
<1>5. CASE SyncCR
  <2>1. /\ seen' = cr /\ stale' = stale \ {"cache"}
        /\ UNCHANGED <<cr, pc, hand, work, jobs, jobsSeen>>
    BY <1>5 DEF SyncCR
  <2>2. Reads'
    BY <1>2, <2>1 DEF Reads, Behind
  <2>3. Writes'
    BY <1>2, <2>1 DEF Writes, Writable
  <2>. QED
    BY <1>2, <2>1, <2>2, <2>3 DEF Order, Sound
<1>6. CASE SyncJobs
  BY <1>6, JobsCopied
<1>7. CASE BeginPass
  BY <1>2, <1>7 DEF BeginPass, Order, Sound, Reads, Writes
<1>8. CASE Crash
  BY <1>2, <1>3, <1>8 DEF Crash, EndPass, Order, Sound, Reads, Writes
<1>9. CASE StopEarly
  <2>1. /\ pc \in {"database", "deployment"} /\ pc' = "status"
        /\ UNCHANGED <<cr, seen, stale, hand, work, jobs, jobsSeen>>
    BY <1>9 DEF StopEarly
  <2>2. Writes'
    BY <1>2, <2>1 DEF Writes, Reads
  <2>3. Reads'
    BY <1>2, <2>1 DEF Reads
  <2>. QED
    BY <1>2, <2>1, <2>2, <2>3 DEF Order, Sound
<1>10. CASE UpdateStatus
  BY <1>10, StatusWritten
<1>11. CASE ReconcileDatabase
  BY <1>11, DatabaseOrder
<1>12. CASE ReconcileDeployment
  BY <1>12, DeploymentOrder
<1>13. ASSUME NEW j \in Jobs, JobSucceeds(j) \/ JobFails(j) PROVE Order'
  BY <1>13, JobEnded
<1>14. CASE UNCHANGED <<cr, seen, stale, pc, hand, work, jobs, jobsSeen>>
  BY <1>2, <1>14 DEF Order, Sound, Reads, Writes
<1>15. ASSUME NEW o \in orphans, OrphanEnds(o) PROVE Order'
  BY <1>14, <1>15 DEF OrphanEnds
<1>16. CASE Rollout
  BY <1>14, <1>16 DEF Rollout, ObserveDeployment, StartPod, StopPod
<1>17. CASE UNCHANGED vars
  BY <1>14, <1>17 DEF vars
<1>. QED
  BY <1>4, <1>5, <1>6, <1>7, <1>8, <1>9, <1>10, <1>11, <1>12, <1>13, <1>15,
     <1>16, <1>17 DEF Next, Pass, JobEnds

LEMMA OrderHolds == Spec => []OInv
<1>1. Init => OInv
  BY TypeInitially, OrderInitially DEF OInv
<1>2. OInv /\ [Next]_vars => OInv'
  BY OrderStep
<1>. QED
  BY <1>1, <1>2, PTL DEF Spec

\* The status is only ever written where the pass may write it.
LEMMA WritesFollow ==
  ASSUME OInv, [Next]_vars
  PROVE  cr'.status = cr.status \/ Follows(cr.status, cr'.status)
<1>1. CASE UpdateStatus
  <2>1. \/ cr' = cr
        \/ /\ cr' = [cr EXCEPT !.status = work] /\ pc = "status"
           /\ work # hand.status /\ "pass" \notin stale
    BY <1>1 DEF UpdateStatus
  <2>2. cr' = [cr EXCEPT !.status = work] => cr'.status = work
    BY DEF OInv, TypeOK, CRs
  <2>. QED
    BY <2>1, <2>2 DEF OInv, Order, Writes, Writable
<1>2. ASSUME NEW t \in Tags, EditTag(t) PROVE cr'.status = cr.status
  BY <1>2 DEF EditTag, OInv, TypeOK, CRs
<1>3. CASE ReconcileDatabase
  BY <1>3, StepOfDatabase
<1>4. CASE ReconcileDeployment
  BY <1>4 DEF ReconcileDeployment, ApplyDeployment, DeploymentWait,
              DeploymentIsReady, ReturnDeployment
<1>5. CASE JobEnds
  BY <1>5 DEF JobEnds, JobSucceeds, JobFails
<1>6. CASE Rollout
  BY <1>6 DEF Rollout, ObserveDeployment, StartPod, StopPod
<1>7. ASSUME NEW o \in orphans, OrphanEnds(o) PROVE cr' = cr
  BY <1>7 DEF OrphanEnds
<1>8. CASE SyncCR \/ SyncJobs \/ BeginPass \/ Crash \/ StopEarly \/ UNCHANGED vars
  BY <1>8 DEF SyncCR, SyncJobs, BeginPass, Crash, StopEarly, vars
<1>. QED
  BY <1>1, <1>2, <1>3, <1>4, <1>5, <1>6, <1>7, <1>8 DEF Next, Pass

\* No edit, abort, stale cache or lost write makes the recorded release skip
\* one: ReconcileSyncJobs and CompleteContract record a patch of it or the next.
THEOREM ReleaseNeverSkipped == Spec => NoReleaseSkipped
<1>1. ASSUME OInv, [Next]_vars
      PROVE  cr.status.installed \notin {NoTag, cr'.status.installed} =>
               /\ cr'.status.installed # NoTag
               /\ ~ IsUpgrade(cr.status.installed, cr'.status.installed)
                  \/ ValidPath(cr.status.installed, cr'.status.installed)
  BY <1>1, WritesFollow DEF Follows
<1>2. OInv /\ [Next]_vars =>
        [cr.status.installed \notin {NoTag, cr'.status.installed} =>
           /\ cr'.status.installed # NoTag
           /\ ~ IsUpgrade(cr.status.installed, cr'.status.installed)
              \/ ValidPath(cr.status.installed, cr'.status.installed)]_cr
  BY <1>1
<1>. QED
  BY <1>2, OrderHolds, PTL DEF Spec, NoReleaseSkipped

\* The phase of an upgrade in flight never restarts or skips, although a pass
\* may write its status over one it has not seen (C/job/terminal.go).
THEOREM PhasesAlwaysAdvance == Spec => PhasesAdvance
<1>1. ASSUME OInv, [Next]_vars,
             cr.status.phase # "none", cr'.status.phase # "none",
             cr.status # cr'.status
      PROVE  /\ cr'.status.target = cr.status.target
             /\ cr'.status.installed = cr.status.installed
             /\ \/ cr.status.phase = cr'.status.phase
                \/ <<cr.status.phase, cr'.status.phase>> \in NextPhase
  BY <1>1, WritesFollow DEF Follows
<1>2. OInv /\ [Next]_vars =>
        [LET now == cr.status  then == cr'.status IN
           now.phase # "none" /\ then.phase # "none" /\ now # then =>
             /\ then.target = now.target /\ then.installed = now.installed
             /\ now.phase = then.phase
                \/ <<now.phase, then.phase>> \in NextPhase]_cr
  BY <1>1
<1>. QED
  BY <1>2, OrderHolds, PTL DEF Spec, PhasesAdvance

\* A phase Job that runs is one of the upgrade in flight, or of the release
\* installed: what an abort or an outdated pass leaves is never another's.
THEOREM PhaseJobsAlwaysBelong == Spec => []PhaseJobsBelong
<1>1. OInv => PhaseJobsBelong
  <2>. SUFFICES ASSUME OInv, NEW j \in PhaseJobs, jobs[j].st = "running",
                       jobs[j].tag # cr.status.target
                PROVE  /\ cr.status.installed # NoTag
                       /\ ~ IsUpgrade(cr.status.installed, jobs[j].tag)
    BY DEF PhaseJobsBelong
  <2>1. jobs[j] # Absent /\ (Terminal(jobsSeen[j]) => jobs[j] # jobsSeen[j])
    BY DEF Absent, Terminal
  <2>2. JobFits(j, jobs, jobsSeen, cr.status)
    BY DEF OInv, Order, Fits
  <2>. QED
    BY <2>1, <2>2, SiblingIsNoUpgrade DEF JobFits
<1>. QED
  BY <1>1, OrderHolds, PTL
=============================================================================
