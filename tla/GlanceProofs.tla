---------------------------- MODULE GlanceProofs ----------------------------
(***************************************************************************)
(* For any number of backends, releases, changes and faults: what a Glance *)
(* Deployment mounts fits together, it runs no release before that         *)
(* release's migration, and a Ready that nothing is about to revise is     *)
(* true of the children.                                                   *)
(*                                                                         *)
(* None of the three is inductive.  A pass carries what it decided from    *)
(* step to step, and the cluster changes in between; the invariant says,   *)
(* for every point of a pass, which of its earlier findings still hold     *)
(* when it acts on them.                                                   *)
(***************************************************************************)
EXTENDS Glance, TLAPS

Stamps == [st : {"True", "False", "Unset"}, gen : Nat]
Statuses == [conds : [Types -> Stamps], pending : SUBSET Backends,
             endpoint : BOOLEAN, installed : Nat]
Mounted == [on : SUBSET Backends, default : SUBSET Backends,
            conf : Confs \union {NoConf}]
Passes ==
  [pc : {"idle", "secrets", "backends", "config", "database", "deployment",
         "group"},
   hand : Nat, rel : Nat, conf : Confs \union {NoConf}, work : Statuses,
   proj : [valid : BOOLEAN, on : SUBSET Backends, default : SUBSET Backends],
   art : [cm : Mounted, sec : SUBSET Backends]]

Glances == [st : {"live", "deleting", "gone"}, fin : BOOLEAN, gen : Nat,
            rel : Releases, conf : Confs]
Deployments == [cm : Mounted, sec : SUBSET Backends, rel : Nat,
                observed : BOOLEAN]
Jobs == [cm : Mounted, rel : Nat,
         st : {"none", "pending", "running", "complete", "failed"}]

Shape ==
  /\ cr \in Glances
  /\ status \in Statuses
  /\ dep \in Deployments /\ job \in Jobs
  /\ schema \in Nat
  /\ pass \in Passes

\* The pair of names is of one rendering, on the Deployment and in the pass.
Paired == dep.cm.on = dep.sec /\ pass.art.cm.on = pass.art.sec

\* A completed Job has migrated the database.
JobSafe == job.st = "complete" => job.rel <= schema

\* What a pass has found out so far.  Later(pc) is where it still counts.
FromDeployment == {"deployment", "group"}
FromDatabase == {"database"} \union FromDeployment
FromConfig == {"config"} \union FromDatabase
FromBackends == {"backends"} \union FromConfig
FromSecrets == {"secrets"} \union FromBackends

Stamped(t) == work.conds[t].gen = pass.hand
Found(t) == work.conds[t].st = "True"

\* The pass runs on the CR it read: of the generation in hand, while that lasts.
ReadSafe ==
  pass.pc \in FromSecrets =>
    /\ pass.hand <= cr.gen
    /\ pass.hand = cr.gen => pass.rel = cr.rel /\ pass.conf = cr.conf
SecretsDone == pass.pc \in FromBackends => Stamped("Secrets")
BackendsDone ==
  pass.pc \in FromConfig =>
    Stamped("Backends") /\ (Found("Backends") => pass.proj.valid)
ConfigDone ==
  pass.pc \in FromDatabase => (pass.proj.valid => pass.art.cm.conf = pass.conf)
DatabaseDone ==
  pass.pc \in FromDeployment =>
    Stamped("Database") /\ work.installed = pass.rel /\ pass.rel <= schema
DeploymentDone ==
  pass.pc = "group" =>
    /\ Stamped("Deployment")
    /\ Found("Deployment") =>
         dep.observed /\ dep.cm = pass.art.cm /\ dep.rel = pass.rel
PassSafe == /\ ReadSafe /\ SecretsDone /\ BackendsDone /\ ConfigDone
            /\ DatabaseDone /\ DeploymentDone

IInv == /\ Shape /\ Paired /\ JobSafe /\ WorkloadIsMigrated
        /\ PassSafe /\ ReadyIsConverged

-----------------------------------------------------------------------------
(* Lemmas on conditions and on the two ways a step can go on.              *)

LEMMA ConditionStamps ==
  ASSUME NEW st \in {"True", "False"}, NEW gen \in Nat
  PROVE  /\ Condition(st, gen) \in Stamps
         /\ Condition(st, gen).st = st /\ Condition(st, gen).gen = gen
  BY DEF Condition, Stamps

LEMMA StampIsCondition ==
  ASSUME NEW c \in Stamps, NEW gen \in Nat, c.st = "True", c.gen = gen
  PROVE  c = Condition("True", gen)
  BY DEF Condition, Stamps

LEMMA SetStamps ==
  ASSUME NEW conds \in [Types -> Stamps], NEW t \in Types,
         NEW st \in {"True", "False"}, NEW gen \in Nat
  PROVE  /\ SetCondition(conds, t, st, gen) \in [Types -> Stamps]
         /\ SetCondition(conds, t, st, gen)[t] = Condition(st, gen)
         /\ \A u \in Types \ {t} : SetCondition(conds, t, st, gen)[u] = conds[u]
  BY ConditionStamps DEF SetCondition

LEMMA WithConditions ==
  ASSUME NEW w \in Statuses, NEW c \in [Types -> Stamps]
  PROVE  /\ [w EXCEPT !.conds = c] \in Statuses
         /\ [w EXCEPT !.conds = c].conds = c
         /\ [w EXCEPT !.conds = c].installed = w.installed
  BY DEF Statuses

LEMMA FreshStatus == Fresh \in Statuses
  BY DEF Fresh, Statuses, Stamps, Unset

LEMMA IdlePass ==
  /\ Idle \in Passes /\ Idle.pc = "idle"
  /\ Idle.art.cm.on = Idle.art.sec
<1>1. NoConfig \in Mounted
  BY DEF NoConfig, Mounted
<1>2. NoArt \in [cm : Mounted, sec : SUBSET Backends]
  BY <1>1 DEF NoArt
<1>3. NoProjection \in [valid : BOOLEAN, on : SUBSET Backends,
                        default : SUBSET Backends]
  BY DEF NoProjection
<1>. QED
  BY <1>2, <1>3, FreshStatus DEF Idle, Passes, NoArt, NoConfig

\* Setting a condition of the pass changes that condition only.
LEMMA SetWork ==
  ASSUME work \in Statuses, pass.hand \in Nat,
         NEW t \in Types, NEW st \in {"True", "False"}
  PROVE  /\ Set(t, st) \in Statuses
         /\ Set(t, st).conds[t] = Condition(st, pass.hand)
         /\ Set(t, st).conds[t].st = st /\ Set(t, st).conds[t].gen = pass.hand
         /\ \A u \in Types \ {t} : Set(t, st).conds[u] = work.conds[u]
         /\ Set(t, st).installed = work.installed
<1>1. work.conds \in [Types -> Stamps]
  BY DEF Statuses
<1>2. Set(t, st) = [work EXCEPT !.conds =
                      SetCondition(work.conds, t, st, pass.hand)]
  BY DEF Set
<1>3. /\ Set(t, st) \in Statuses
      /\ Set(t, st).conds = SetCondition(work.conds, t, st, pass.hand)
      /\ Set(t, st).installed = work.installed
  BY <1>1, <1>2, SetStamps, WithConditions
<1>. QED
  BY <1>1, <1>3, SetStamps, ConditionStamps

LEMMA ReadyIsType == "Ready" \in Types /\ subConditionTypes \subseteq Types
  BY DEF Types, subConditionTypes

\* The status that a pass would write.
Aggregated(w) ==
  [w EXCEPT !.conds = SetAggregateReady(@, pass.hand, subConditionTypes)]

LEMMA AggregatedStatus ==
  ASSUME NEW w \in Statuses, pass.hand \in Nat
  PROVE  /\ Aggregated(w) \in Statuses
         /\ Aggregated(w).installed = w.installed
         /\ \A t \in subConditionTypes : Aggregated(w).conds[t] = w.conds[t]
         /\ Aggregated(w).conds["Ready"].gen = pass.hand
         /\ Aggregated(w).conds["Ready"].st = "True" =>
              \A t \in subConditionTypes : w.conds[t].st = "True"
<1>1. w.conds \in [Types -> Stamps]
  BY DEF Statuses
<1> DEFINE st == IF AllTrue(w.conds, subConditionTypes) THEN "True" ELSE "False"
<1>2. Aggregated(w) = [w EXCEPT !.conds = SetCondition(w.conds, "Ready", st, pass.hand)]
  BY DEF Aggregated, SetAggregateReady
<1>3. /\ Aggregated(w) \in Statuses
      /\ Aggregated(w).installed = w.installed
      /\ Aggregated(w).conds = SetCondition(w.conds, "Ready", st, pass.hand)
  BY <1>1, <1>2, SetStamps, ReadyIsType, WithConditions
<1>4. /\ Aggregated(w).conds["Ready"].gen = pass.hand
      /\ Aggregated(w).conds["Ready"].st = st
  BY <1>1, <1>3, SetStamps, ReadyIsType, ConditionStamps
<1>5. \A t \in subConditionTypes : t # "Ready"
  BY DEF subConditionTypes
<1>6. st \in {"True", "False"}
  OBVIOUS
<1>7. \A t \in subConditionTypes : Aggregated(w).conds[t] = w.conds[t]
  <2>1. \A u \in Types \ {"Ready"} :
          SetCondition(w.conds, "Ready", st, pass.hand)[u] = w.conds[u]
    <3>. HIDE DEF st
    <3>. QED
      BY <1>1, <1>6, SetStamps, ReadyIsType
  <2>2. subConditionTypes \subseteq Types \ {"Ready"}
    BY <1>5, ReadyIsType
  <2>. QED
    BY <1>3, <2>1, <2>2
<1>8. st = "True" => \A t \in subConditionTypes : w.conds[t].st = "True"
  BY DEF AllTrue
<1>. QED
  BY <1>3, <1>4, <1>7, <1>8

\* A step that ends the pass leaves a status, and comes back if asked to or
\* if the write was refused.
LEMMA EndsWith ==
  ASSUME Shape, NEW w \in Statuses, NEW again \in BOOLEAN, Ends(w, again)
  PROVE  /\ pass' = Idle /\ status' \in Statuses
         /\ again => Parent \in woken'
         /\ \/ Parent \in woken'
            \/ status' = Aggregated(w)
<1>1. pass.hand \in Nat /\ status \in Statuses
  BY DEF Shape, Passes
<1>2. Aggregated(w) \in Statuses
  BY <1>1, AggregatedStatus
<1>. QED
  BY <1>1, <1>2 DEF Ends, updateStatus, Aggregated

LEMMA Handed ==
  ASSUME pass \in Passes, NEW next \in {"backends", "config", "database",
                                        "deployment", "group"},
         NEW w \in Statuses,
         NEW proj \in [valid : BOOLEAN, on : SUBSET Backends,
                       default : SUBSET Backends],
         NEW art \in [cm : Mounted, sec : SUBSET Backends],
         Hands(next, w, proj, art)
  PROVE  /\ pass' \in Passes /\ pass'.pc = next
         /\ pass'.hand = pass.hand /\ pass'.rel = pass.rel /\ pass'.conf = pass.conf
         /\ pass'.work = w /\ pass'.proj = proj /\ pass'.art = art
         /\ UNCHANGED <<status, woken>>
  BY DEF Hands, Passes

-----------------------------------------------------------------------------
(* The three kinds of steps: of the world around a pass, of a pass that    *)
(* hands on, and of a pass that ends and is due again.                     *)

LEMMA AroundSafe ==
  ASSUME IInv, UNCHANGED <<pass, status>>,
         cr' \in Glances, dep' \in Deployments, job' \in Jobs, schema' \in Nat,
         dep'.cm = dep.cm, dep'.sec = dep.sec, dep'.rel = dep.rel,
         dep.observed => dep'.observed, schema <= schema', JobSafe',
         cr.gen <= cr'.gen,
         cr'.gen = cr.gen => cr'.rel = cr.rel /\ cr'.conf = cr.conf,
         Settled' => Settled /\ cr'.gen = cr.gen
  PROVE  IInv'
<1>. cr \in Glances /\ dep \in Deployments /\ schema \in Nat /\ pass \in Passes
  BY DEF IInv, Shape
<1>1. Shape' /\ Paired' /\ WorkloadIsMigrated'
  <2>1. dep.rel \in Nat /\ dep.rel <= schema
    BY DEF IInv, Deployments, WorkloadIsMigrated
  <2>. QED
    BY <2>1 DEF IInv, Shape, Paired, WorkloadIsMigrated
<1>2. PassSafe'
  <2>1. pass.hand \in Nat /\ cr.gen \in Nat /\ cr'.gen \in Nat
        /\ pass.rel \in Nat
    BY DEF Passes, Glances
  <2>2. ReadSafe'
    BY <2>1 DEF IInv, PassSafe, ReadSafe, FromSecrets
  <2>3. SecretsDone' /\ BackendsDone' /\ ConfigDone'
    BY DEF IInv, PassSafe, SecretsDone, BackendsDone, ConfigDone, Stamped,
           Found, work
  <2>4. DatabaseDone'
    BY <2>1 DEF IInv, PassSafe, DatabaseDone, Stamped, work
  <2>5. DeploymentDone'
    BY DEF IInv, PassSafe, DeploymentDone, Stamped, Found, work
  <2>. QED
    BY <2>2, <2>3, <2>4, <2>5 DEF PassSafe
<1>3. ReadyIsConverged'
  <2>1. cr.rel \in Nat /\ cr'.rel \in Nat
    BY GlanceAssumption DEF Glances
  <2>. QED
    BY <2>1 DEF IInv, ReadyIsConverged
<1>. QED
  BY <1>1, <1>2, <1>3 DEF IInv

LEMMA HandsSafe ==
  ASSUME IInv, NEW next \in {"backends", "config", "database", "deployment",
                             "group"},
         NEW w \in Statuses,
         NEW proj \in [valid : BOOLEAN, on : SUBSET Backends,
                       default : SUBSET Backends],
         NEW art \in [cm : Mounted, sec : SUBSET Backends],
         art.cm.on = art.sec, pass.pc \in FromSecrets,
         Hands(next, w, proj, art), UNCHANGED <<cr, dep, schema>>,
         job' \in Jobs, JobSafe',
         (SecretsDone /\ BackendsDone /\ ConfigDone /\ DatabaseDone
            /\ DeploymentDone)'
  PROVE  IInv'
<1>1. /\ pass' \in Passes /\ pass'.pc = next
      /\ pass'.hand = pass.hand /\ pass'.rel = pass.rel /\ pass'.conf = pass.conf
      /\ pass'.work = w /\ pass'.proj = proj /\ pass'.art = art
      /\ UNCHANGED <<status, woken>>
  BY Handed DEF IInv, Shape
<1>2. Shape' /\ Paired' /\ WorkloadIsMigrated'
  BY <1>1 DEF IInv, Shape, Paired, WorkloadIsMigrated
<1>3. ReadSafe'
  BY <1>1 DEF IInv, PassSafe, ReadSafe
<1>4. ReadyIsConverged'
  BY <1>1 DEF ReadyIsConverged, Settled, At
<1>. QED
  BY <1>2, <1>3, <1>4 DEF IInv, PassSafe

LEMMA IdleSafe ==
  ASSUME pass.pc = "idle"
  PROVE  PassSafe
  BY DEF PassSafe, ReadSafe, SecretsDone, BackendsDone, ConfigDone,
         DatabaseDone, DeploymentDone, FromSecrets, FromBackends, FromConfig,
         FromDatabase, FromDeployment

LEMMA EndsSafe ==
  ASSUME IInv, NEW w \in Statuses, Ends(w, TRUE), UNCHANGED <<cr, schema>>,
         dep' \in Deployments, job' \in Jobs, JobSafe',
         dep'.cm.on = dep'.sec, dep'.rel <= schema
  PROVE  IInv'
<1>1. pass' = Idle /\ status' \in Statuses /\ Parent \in woken'
  BY EndsWith DEF IInv
<1>2. PassSafe'
  <2>1. pass'.pc = "idle"
    BY <1>1, IdlePass
  <2>. QED
    BY <2>1 DEF PassSafe, ReadSafe, SecretsDone, BackendsDone, ConfigDone,
         DatabaseDone, DeploymentDone, FromSecrets, FromBackends, FromConfig,
         FromDatabase, FromDeployment
<1>3. Shape' /\ Paired' /\ WorkloadIsMigrated'
  BY <1>1, IdlePass DEF IInv, Shape, Paired, WorkloadIsMigrated
<1>4. ReadyIsConverged'
  BY <1>1 DEF ReadyIsConverged, Settled, Parent
<1>. QED
  BY <1>2, <1>3, <1>4 DEF IInv

-----------------------------------------------------------------------------
(* The invariant holds at first, and the world around a pass keeps it.     *)

LEMMA InvariantInitially == Init => IInv
<1> SUFFICES ASSUME Init PROVE IInv
  OBVIOUS
<1>. USE GlanceAssumption DEF Init, InitWith
<1>1. NoConfig \in Mounted
  BY DEF NoConfig, Mounted
<1>2. Shape
  <2>1. dep \in Deployments /\ job \in Jobs
    BY <1>1 DEF NoDep, NoJob, Deployments, Jobs
  <2>2. PICK r \in Releases, k \in Confs :
          cr = [st |-> "live", fin |-> FALSE, gen |-> 1, rel |-> r, conf |-> k]
    OBVIOUS
  <2>3. cr \in Glances
    BY <2>2 DEF Glances
  <2>. QED
    BY <2>1, <2>3, FreshStatus, IdlePass DEF Shape
<1>3. Paired
  BY IdlePass DEF Paired, NoDep, NoConfig
<1>4. JobSafe /\ WorkloadIsMigrated
  BY DEF JobSafe, WorkloadIsMigrated, NoJob, NoDep
<1>5. PassSafe
  BY IdlePass, IdleSafe
<1>6. ReadyIsConverged
  BY DEF ReadyIsConverged, Settled, Parent, Keys
<1>. QED
  BY <1>2, <1>3, <1>4, <1>5, <1>6 DEF IInv

LEMMA UsersKeep ==
  ASSUME IInv, Users
  PROVE  IInv'
<1>. USE DEF objects
<1>. cr \in Glances /\ dep \in Deployments /\ job \in Jobs /\ schema \in Nat
  BY DEF IInv, Shape
<1>1. CASE EditGlance
  <2>1. PICK r \in Releases, c \in Confs :
          cr' = [cr EXCEPT !.rel = r, !.conf = c, !.gen = cr.gen + 1]
    BY <1>1 DEF EditGlance
  <2>2. cr' \in Glances /\ cr'.gen = cr.gen + 1
    <3>1. cr.gen + 1 \in Nat
      BY DEF Glances
    <3>. QED
      BY <2>1, <3>1 DEF Glances
  <2>3. ~ Settled'
    BY <1>1 DEF EditGlance, Settled
  <2>4. cr.gen \in Nat
    BY DEF Glances
  <2>. QED
    BY <1>1, <2>2, <2>3, <2>4, AroundSafe DEF EditGlance, JobSafe, IInv
<1>2. CASE DeleteGlance
  <2>1. cr' \in Glances /\ cr'.gen = cr.gen /\ cr'.rel = cr.rel /\ cr'.conf = cr.conf
    BY <1>2 DEF DeleteGlance, Glances
  <2>2. ~ Settled'
    BY <1>2 DEF DeleteGlance, Settled
  <2>3. cr.gen \in Nat
    BY DEF Glances
  <2>. QED
    BY <1>2, <2>1, <2>2, <2>3, AroundSafe DEF DeleteGlance, JobSafe, IInv
<1>3. ASSUME NEW b \in Backends, AttachBackend(b) \/ ChangeDefault(b) \/ ChangeSecret(b)
      PROVE  IInv'
  <2>1. UNCHANGED <<cr, status, objects, pass>> /\ (Settled' => Settled)
    BY <1>3 DEF AttachBackend, ChangeDefault, ChangeSecret, Settled, At
  <2>2. cr.gen \in Nat
    BY DEF Glances
  <2>. QED
    BY <2>1, <2>2, AroundSafe DEF JobSafe, IInv
<1>4. ASSUME NEW what \in {"creds", "accepted", "answers"}, ChangeOutside(what)
      PROVE  IInv'
  <2>1. UNCHANGED <<cr, status, objects, pass>> /\ (Settled' => Settled)
    BY <1>4 DEF ChangeOutside, Settled, At
  <2>2. cr.gen \in Nat
    BY DEF Glances
  <2>. QED
    BY <2>1, <2>2, AroundSafe DEF JobSafe, IInv
<1>. QED
  BY <1>1, <1>2, <1>3, <1>4 DEF Users

LEMMA ClusterKeeps ==
  ASSUME IInv, Cluster
  PROVE  IInv'
<1>. USE DEF objects, bounds
<1>. cr \in Glances /\ dep \in Deployments /\ job \in Jobs /\ schema \in Nat
  BY DEF IInv, Shape
<1>. cr.gen \in Nat
  BY DEF Glances
<1>1. CASE JobStarts
  <2>1. job' \in Jobs /\ job'.st = "running"
    BY <1>1 DEF JobStarts, Jobs
  <2>2. Settled' => Settled
    BY <1>1 DEF JobStarts, Settled, At
  <2>. QED
    BY <1>1, <2>1, <2>2, AroundSafe DEF JobStarts, JobSafe
<1>2. CASE JobEnds
  <2>1. /\ job' \in Jobs /\ job'.rel = job.rel /\ job.rel \in Nat
        /\ schema' \in Nat /\ schema <= schema'
        /\ job'.st = "complete" => job.rel <= schema'
    BY <1>2 DEF JobEnds, Jobs
  <2>2. Settled' => Settled
    BY <1>2 DEF JobEnds, Settled, At
  <2>. QED
    BY <1>2, <2>1, <2>2, AroundSafe DEF JobEnds, JobSafe
<1>3. CASE DeploymentRolls
  <2>1. /\ dep' \in Deployments /\ dep'.observed
        /\ dep'.cm = dep.cm /\ dep'.sec = dep.sec /\ dep'.rel = dep.rel
    BY <1>3 DEF DeploymentRolls, Deployments
  <2>2. Settled' => Settled
    BY <1>3 DEF DeploymentRolls, Settled, At
  <2>. QED
    BY <1>3, <2>1, <2>2, AroundSafe DEF DeploymentRolls, JobSafe, IInv
<1>4. CASE MariaDBReady
  <2>1. Settled' => Settled
    BY <1>4 DEF MariaDBReady, Settled, At
  <2>. QED
    BY <1>4, <2>1, AroundSafe DEF MariaDBReady, JobSafe, IInv
<1>. QED
  BY <1>1, <1>2, <1>3, <1>4 DEF Cluster

LEMMA BackendsKeep ==
  ASSUME IInv, NEW b \in Backends, ReconcileBackend(b)
  PROVE  IInv'
<1>. USE DEF objects, bounds
<1>. cr \in Glances /\ dep \in Deployments /\ job \in Jobs /\ schema \in Nat
  BY DEF IInv, Shape
<1>1. cr.gen \in Nat
  BY DEF Glances
<1>2. Parent \in woken => Parent \in woken'
  BY GlanceAssumption DEF ReconcileBackend, Parent
<1>3. UNCHANGED <<cr, status, objects, pass>>
  BY DEF ReconcileBackend
<1>4. Settled' => Settled
  BY <1>2, <1>3 DEF Settled, At
<1>. QED
  BY <1>1, <1>3, <1>4, AroundSafe DEF JobSafe, IInv

-----------------------------------------------------------------------------
(* The steps of a pass.                                                    *)

LEMMA ReconcileKeeps ==
  ASSUME IInv, Reconcile
  PROVE  IInv'
<1>. USE DEF objects, bounds
<1>. cr \in Glances /\ dep \in Deployments /\ job \in Jobs /\ schema \in Nat
     /\ status \in Statuses
  BY DEF IInv, Shape
<1>1. cr.gen \in Nat /\ cr.rel \in Nat /\ cr.conf \in Confs
  BY GlanceAssumption DEF Glances
<1>2. CASE ~ cr.fin
  <2>1. /\ cr' \in Glances /\ cr'.gen = cr.gen
        /\ cr'.rel = cr.rel /\ cr'.conf = cr.conf
    BY <1>2 DEF Reconcile, Glances
  <2>2. ~ Settled'
    BY <1>2 DEF Reconcile, Settled
  <2>. QED
    BY <1>1, <1>2, <2>1, <2>2, AroundSafe DEF Reconcile, JobSafe, IInv
<1>3. CASE cr.fin
  <2>1. pass' = [Idle EXCEPT !.pc = "secrets", !.hand = cr.gen, !.rel = cr.rel,
                             !.conf = cr.conf, !.work = status]
    BY <1>3 DEF Reconcile
  <2>2. /\ pass' \in Passes /\ pass'.pc = "secrets" /\ pass'.hand = cr.gen
        /\ pass'.rel = cr.rel /\ pass'.conf = cr.conf
        /\ pass'.art = Idle.art
    BY <2>1, <1>1, IdlePass DEF Passes
  <2>3. UNCHANGED <<cr, status, objects>>
    BY <1>3 DEF Reconcile
  <2>4. Shape' /\ Paired' /\ WorkloadIsMigrated' /\ JobSafe'
    BY <2>2, <2>3, IdlePass
       DEF IInv, Shape, Paired, WorkloadIsMigrated, JobSafe
  <2>5. PassSafe'
    BY <2>2, <2>3, <1>1
       DEF PassSafe, ReadSafe, SecretsDone, BackendsDone, ConfigDone,
           DatabaseDone, DeploymentDone, FromBackends, FromConfig,
           FromDatabase, FromDeployment
  <2>6. ReadyIsConverged'
    BY <2>2 DEF ReadyIsConverged, Settled, At
  <2>. QED
    BY <2>4, <2>5, <2>6 DEF IInv
<1>. QED
  BY <1>2, <1>3

LEMMA DeleteKeeps ==
  ASSUME IInv, reconcileDelete
  PROVE  IInv'
<1>. USE DEF objects, bounds
<1>. cr \in Glances /\ dep \in Deployments /\ job \in Jobs /\ schema \in Nat
  BY DEF IInv, Shape
<1>1. cr.gen \in Nat
  BY DEF Glances
<1>2. /\ cr' \in Glances /\ cr'.gen = cr.gen /\ cr'.st # "live"
      /\ cr'.rel = cr.rel /\ cr'.conf = cr.conf
  BY DEF reconcileDelete, Glances
<1>3. ~ Settled'
  BY <1>2 DEF Settled
<1>4. UNCHANGED <<status, dep, job, schema, pass>>
  BY DEF reconcileDelete
<1>. QED
  BY <1>1, <1>2, <1>3, <1>4, AroundSafe DEF JobSafe, IInv

\* What every step may use of its pass, and a step that only gives up.
LEMMA InPass ==
  ASSUME IInv
  PROVE  /\ pass \in Passes /\ work \in Statuses
         /\ pass.hand \in Nat /\ pass.rel \in Nat
         /\ pass.conf \in Confs \union {NoConf}
         /\ pass.proj \in [valid : BOOLEAN, on : SUBSET Backends,
                           default : SUBSET Backends]
         /\ pass.art \in [cm : Mounted, sec : SUBSET Backends]
         /\ pass.art.cm.on = pass.art.sec
         /\ dep \in Deployments /\ job \in Jobs /\ schema \in Nat
         /\ dep.cm.on = dep.sec /\ dep.rel <= schema
  BY DEF IInv, Shape, Passes, work, Paired, WorkloadIsMigrated

LEMMA GivesUp ==
  ASSUME IInv, NEW w \in Statuses, Ends(w, TRUE),
         UNCHANGED <<cr, schema, dep, job>>
  PROVE  IInv'
  BY EndsSafe, InPass DEF IInv, JobSafe

LEMMA SecretsKeep ==
  ASSUME IInv, reconcileSecrets
  PROVE  IInv'
<1>. USE DEF objects, bounds
<1>1. "Secrets" \in Types
  BY DEF Types, subConditionTypes
<1>2. CASE outside.creds
  <2> DEFINE w == Set("Secrets", "True")
  <2>1. w \in Statuses /\ w.conds["Secrets"].gen = pass.hand
    BY <1>1, InPass, SetWork
  <2>2. Hands("backends", w, pass.proj, pass.art)
    BY <1>2 DEF reconcileSecrets, Goes
  <2>3. pass'.pc = "backends" /\ pass'.work = w /\ pass'.hand = pass.hand
    BY <2>1, <2>2, InPass, Handed
  <2>4. (SecretsDone /\ BackendsDone /\ ConfigDone /\ DatabaseDone
           /\ DeploymentDone)'
    BY <2>1, <2>3 DEF SecretsDone, BackendsDone, ConfigDone, DatabaseDone,
       DeploymentDone, Stamped, work, FromConfig, FromDatabase, FromDeployment
  <2>5. UNCHANGED <<cr, dep, schema, job>> /\ pass.pc \in FromSecrets
    BY DEF reconcileSecrets, At, FromSecrets
  <2>6. JobSafe'
    BY <2>5 DEF IInv, JobSafe
  <2>. QED
    BY <2>1, <2>2, <2>4, <2>5, <2>6, InPass, HandsSafe
<1>3. CASE ~ outside.creds
  <2>1. Set("Secrets", "False") \in Statuses
    BY <1>1, InPass, SetWork
  <2>. QED
    BY <1>3, <2>1, GivesUp DEF reconcileSecrets
<1>. QED
  BY <1>2, <1>3

LEMMA BackendsStepKeeps ==
  ASSUME IInv, reconcileBackends
  PROVE  IInv'
<1>. USE DEF objects, bounds
<1>1. "Backends" \in Types /\ "Secrets" \in Types
  BY DEF Types, subConditionTypes
<1>2. UNCHANGED <<cr, dep, schema, job>> /\ pass.pc \in FromBackends
      /\ pass.pc \in FromSecrets
  BY DEF reconcileBackends, At, FromSecrets, FromBackends
<1>3. JobSafe'
  BY <1>2 DEF IInv, JobSafe
<1>4. work.conds["Secrets"].gen = pass.hand
  BY <1>2 DEF IInv, PassSafe, SecretsDone, Stamped
<1>5. ASSUME NEW st \in {"True", "False"}, NEW p \in SUBSET Backends,
             NEW proj \in [valid : BOOLEAN, on : SUBSET Backends,
                           default : SUBSET Backends],
             NEW art \in [cm : Mounted, sec : SUBSET Backends],
             art.cm.on = art.sec, st = "True" => proj.valid,
             Hands("config", [Set("Backends", st) EXCEPT !.pending = p], proj, art)
      PROVE  IInv'
  <2> DEFINE w == [Set("Backends", st) EXCEPT !.pending = p]
  <2>1. /\ Set("Backends", st) \in Statuses
        /\ Set("Backends", st).conds["Backends"].st = st
        /\ Set("Backends", st).conds["Backends"].gen = pass.hand
        /\ Set("Backends", st).conds["Secrets"] = work.conds["Secrets"]
    BY <1>1, InPass, SetWork
  <2>2. w \in Statuses /\ w.conds = Set("Backends", st).conds
    BY <2>1 DEF Statuses
  <2>3. /\ pass'.pc = "config" /\ pass'.work = w /\ pass'.hand = pass.hand
        /\ pass'.proj = proj
    BY <1>5, <2>2, InPass, Handed
  <2>4. (SecretsDone /\ BackendsDone /\ ConfigDone /\ DatabaseDone
           /\ DeploymentDone)'
    BY <1>4, <1>5, <2>1, <2>2, <2>3
       DEF SecretsDone, BackendsDone, ConfigDone, DatabaseDone, DeploymentDone,
           Stamped, Found, work, FromDatabase, FromDeployment
  <2>5. job' \in Jobs
    BY <1>2, InPass
  <2>. QED
    BY <1>2, <1>3, <1>5, <2>2, <2>4, <2>5, HandsSafe
<1>6. DefaultCandidates \subseteq Backends /\ Rendered \subseteq Backends
      /\ Attached \subseteq Backends
  BY DEF DefaultCandidates, Rendered, Credible, Attached
<1>7. CASE ~ \E d \in Backends : DefaultCandidates = {d}
  BY <1>5, <1>6, <1>7, InPass DEF reconcileBackends, Goes
<1>8. CASE \E d \in Backends : DefaultCandidates = {d}
  <2>1. NoArt \in [cm : Mounted, sec : SUBSET Backends] /\ NoArt.cm.on = NoArt.sec
    BY DEF NoArt, NoConfig, Mounted
  <2> DEFINE proj == [valid |-> TRUE, on |-> Rendered, default |-> DefaultCandidates]
             st == IF Rendered = Attached THEN "True" ELSE "False"
  <2>2. /\ st \in {"True", "False"} /\ proj.valid
        /\ proj \in [valid : BOOLEAN, on : SUBSET Backends, default : SUBSET Backends]
    BY <1>6
  <2>3. Hands("config", [Set("Backends", st) EXCEPT !.pending = Attached \ Rendered],
              proj, NoArt)
    BY <1>8 DEF reconcileBackends
  <2>4. Attached \ Rendered \in SUBSET Backends
    BY <1>6
  <2>. HIDE DEF st, proj
  <2>. QED
    BY <1>5, <2>1, <2>2, <2>3, <2>4
<1>. QED
  BY <1>7, <1>8

LEMMA ConfigKeeps ==
  ASSUME IInv, reconcileConfig
  PROVE  IInv'
<1>. USE DEF objects, bounds
<1>1. UNCHANGED <<cr, dep, schema, job>> /\ pass.pc \in FromConfig
      /\ pass.pc \in FromBackends /\ pass.pc \in FromSecrets
  BY DEF reconcileConfig, At, FromSecrets, FromBackends, FromConfig
<1>2. JobSafe'
  BY <1>1 DEF IInv, JobSafe
<1>3. /\ work.conds["Secrets"].gen = pass.hand
      /\ work.conds["Backends"].gen = pass.hand
      /\ work.conds["Backends"].st = "True" => pass.proj.valid
  BY <1>1 DEF IInv, PassSafe, SecretsDone, BackendsDone, Stamped, Found
<1>4. ASSUME NEW art \in [cm : Mounted, sec : SUBSET Backends],
             art.cm.on = art.sec, pass.proj.valid => art.cm.conf = pass.conf,
             Hands("database", work, pass.proj, art)
      PROVE  IInv'
  <2>1. /\ pass'.pc = "database" /\ pass'.work = work /\ pass'.hand = pass.hand
        /\ pass'.proj = pass.proj /\ pass'.conf = pass.conf /\ pass'.art = art
    BY <1>4, InPass, Handed
  <2>2. (SecretsDone /\ BackendsDone /\ ConfigDone /\ DatabaseDone
           /\ DeploymentDone)'
    BY <1>3, <1>4, <2>1
       DEF SecretsDone, BackendsDone, ConfigDone, DatabaseDone, DeploymentDone,
           Stamped, Found, work, FromDeployment
  <2>. QED
    BY <1>1, <1>2, <1>4, <2>2, InPass, HandsSafe
<1>5. CASE pass.proj.valid
  <2> DEFINE cm == [on |-> pass.proj.on, default |-> pass.proj.default,
                    conf |-> pass.conf]
             art == [cm |-> cm, sec |-> pass.proj.on]
  <2>1. cm \in Mounted /\ cm.on = pass.proj.on /\ cm.conf = pass.conf
    BY InPass DEF Mounted
  <2>2. Hands("database", work, pass.proj, art)
    BY <1>5 DEF reconcileConfig
  <2>3. /\ art \in [cm : Mounted, sec : SUBSET Backends]
        /\ art.cm.on = art.sec /\ art.cm.conf = pass.conf
    BY <2>1, InPass
  <2>. HIDE DEF art
  <2>. QED
    BY <1>4, <2>2, <2>3
<1>6. CASE ~ pass.proj.valid
  <2>1. /\ lastGoodArtifacts \in [cm : Mounted, sec : SUBSET Backends]
        /\ lastGoodArtifacts.cm.on = lastGoodArtifacts.sec
    BY InPass DEF lastGoodArtifacts, Deployments
  <2>. QED
    BY <1>4, <1>6, <2>1 DEF reconcileConfig
<1>. QED
  BY <1>5, <1>6

LEMMA DatabaseKeeps ==
  ASSUME IInv, reconcileDatabase
  PROVE  IInv'
<1>. USE DEF objects, bounds
<1>1. "Database" \in Types /\ "Secrets" \in Types /\ "Backends" \in Types
  BY DEF Types, subConditionTypes
<1>2. UNCHANGED <<cr, dep, schema>> /\ pass.pc \in FromDatabase
      /\ pass.pc \in FromConfig /\ pass.pc \in FromBackends
      /\ pass.pc \in FromSecrets
  BY DEF reconcileDatabase, At, FromSecrets, FromBackends, FromConfig,
         FromDatabase
<1>3. Set("Database", "False") \in Statuses
  BY <1>1, InPass, SetWork
<1>4. CASE UNCHANGED job /\ Ends(Set("Database", "False"), TRUE)
  BY <1>2, <1>3, <1>4, GivesUp
<1>5. CASE RunJob /\ Ends(Set("Database", "False"), TRUE)
  <2>1. job' \in Jobs /\ (job' = job \/ job'.st = "pending")
    BY <1>5, InPass DEF RunJob, Jobs
  <2>2. JobSafe'
    BY <1>2, <2>1 DEF IInv, JobSafe
  <2>. QED
    BY <1>2, <1>3, <1>5, <2>1, <2>2, InPass, EndsSafe
<1>6. CASE /\ RunJob /\ JobDone
           /\ Goes("deployment",
                   [Set("Database", "True") EXCEPT !.installed = pass.rel])
  <2> DEFINE w == [Set("Database", "True") EXCEPT !.installed = pass.rel]
  <2>1. UNCHANGED job
    BY <1>6 DEF RunJob, JobDone
  <2>2. pass.rel <= schema
    BY <1>6 DEF JobDone, JobIsCurrent, glanceJob, IInv, JobSafe
  <2>3. /\ Set("Database", "True") \in Statuses
        /\ Set("Database", "True").conds["Database"].gen = pass.hand
        /\ Set("Database", "True").conds["Secrets"] = work.conds["Secrets"]
        /\ Set("Database", "True").conds["Backends"] = work.conds["Backends"]
    BY <1>1, InPass, SetWork
  <2>4. /\ w \in Statuses /\ w.conds = Set("Database", "True").conds
        /\ w.installed = pass.rel
    BY <2>3, InPass DEF Statuses
  <2>5. Hands("deployment", w, pass.proj, pass.art)
    BY <1>6 DEF Goes
  <2>6. /\ pass'.pc = "deployment" /\ pass'.work = w /\ pass'.hand = pass.hand
        /\ pass'.rel = pass.rel /\ pass'.conf = pass.conf
        /\ pass'.proj = pass.proj /\ pass'.art = pass.art
    BY <2>4, <2>5, InPass, Handed
  <2>7. /\ work.conds["Secrets"].gen = pass.hand
        /\ work.conds["Backends"].gen = pass.hand
        /\ work.conds["Backends"].st = "True" => pass.proj.valid
        /\ pass.proj.valid => pass.art.cm.conf = pass.conf
    BY <1>2 DEF IInv, PassSafe, SecretsDone, BackendsDone, ConfigDone,
                Stamped, Found
  <2>8. (SecretsDone /\ BackendsDone /\ ConfigDone)'
    BY <2>3, <2>4, <2>6, <2>7
       DEF SecretsDone, BackendsDone, ConfigDone, Stamped, Found, work
  <2>9. (DatabaseDone /\ DeploymentDone)'
    BY <1>2, <2>2, <2>3, <2>4, <2>6
       DEF DatabaseDone, DeploymentDone, Stamped, work
  <2>10. JobSafe'
    BY <1>2, <2>1 DEF IInv, JobSafe
  <2>. HIDE DEF w
  <2>. QED
    BY <1>2, <2>1, <2>4, <2>5, <2>8, <2>9, <2>10, InPass, HandsSafe
<1>. QED
  BY <1>4, <1>5, <1>6 DEF reconcileDatabase

LEMMA DeploymentKeeps ==
  ASSUME IInv, reconcileDeployment
  PROVE  IInv'
<1>. USE DEF objects, bounds
<1>1. /\ "Database" \in Types /\ "Secrets" \in Types /\ "Backends" \in Types
      /\ "Deployment" \in Types
  BY DEF Types, subConditionTypes
<1>2. UNCHANGED <<cr, schema, job>> /\ pass.pc \in FromDeployment
      /\ pass.pc \in FromDatabase /\ pass.pc \in FromConfig
      /\ pass.pc \in FromBackends /\ pass.pc \in FromSecrets
  BY DEF reconcileDeployment, At, FromSecrets, FromBackends, FromConfig,
         FromDatabase, FromDeployment
<1>3. JobSafe'
  BY <1>2 DEF IInv, JobSafe
<1>4. /\ work.conds["Secrets"].gen = pass.hand
      /\ work.conds["Backends"].gen = pass.hand
      /\ work.conds["Backends"].st = "True" => pass.proj.valid
      /\ pass.proj.valid => pass.art.cm.conf = pass.conf
      /\ work.conds["Database"].gen = pass.hand
      /\ work.installed = pass.rel /\ pass.rel <= schema
  BY <1>2 DEF IInv, PassSafe, SecretsDone, BackendsDone, ConfigDone,
              DatabaseDone, Stamped, Found
<1>5. ASSUME NEW st \in {"True", "False"}, NEW w \in Statuses, UNCHANGED dep,
             w.conds = Set("Deployment", st).conds,
             w.installed = work.installed,
             st = "True" => dep.observed /\ dep.cm = pass.art.cm
                            /\ dep.rel = pass.rel,
             Goes("group", w)
      PROVE  IInv'
  <2>1. /\ w.conds["Deployment"].st = st
        /\ w.conds["Deployment"].gen = pass.hand
        /\ w.conds["Secrets"] = work.conds["Secrets"]
        /\ w.conds["Backends"] = work.conds["Backends"]
        /\ w.conds["Database"] = work.conds["Database"]
    BY <1>1, <1>5, InPass, SetWork
  <2>2. Hands("group", w, pass.proj, pass.art)
    BY <1>5 DEF Goes
  <2>3. /\ pass'.pc = "group" /\ pass'.work = w /\ pass'.hand = pass.hand
        /\ pass'.rel = pass.rel /\ pass'.conf = pass.conf
        /\ pass'.proj = pass.proj /\ pass'.art = pass.art
    BY <2>2, InPass, Handed
  <2>4. (SecretsDone /\ BackendsDone /\ ConfigDone)'
    BY <1>4, <2>1, <2>3
       DEF SecretsDone, BackendsDone, ConfigDone, Stamped, Found, work
  <2>5. DatabaseDone'
    BY <1>2, <1>4, <1>5, <2>1, <2>3 DEF DatabaseDone, Stamped, work
  <2>6. DeploymentDone'
    BY <1>5, <2>1, <2>3 DEF DeploymentDone, Stamped, Found, work
  <2>. QED
    BY <1>2, <1>3, <1>5, <2>2, <2>4, <2>5, <2>6, InPass, HandsSafe
<1>6. CASE pass.art.cm = NoConfig
  <2>1. Set("Deployment", "False") \in Statuses
        /\ Set("Deployment", "False").installed = work.installed
    BY <1>1, InPass, SetWork
  <2>2. Goes("group", Set("Deployment", "False")) /\ UNCHANGED dep
    BY <1>6 DEF reconcileDeployment
  <2>. QED
    BY <1>5, <2>1, <2>2
<1>7. CASE pass.art.cm # NoConfig /\ IsDeploymentReady
  <2> DEFINE w == [Set("Deployment", "True") EXCEPT !.endpoint = TRUE]
  <2>1. Set("Deployment", "True") \in Statuses
        /\ Set("Deployment", "True").installed = work.installed
    BY <1>1, InPass, SetWork
  <2>2. /\ w \in Statuses /\ w.conds = Set("Deployment", "True").conds
        /\ w.installed = work.installed
    BY <2>1 DEF Statuses
  <2>3. Goes("group", w) /\ UNCHANGED dep
    BY <1>7 DEF reconcileDeployment
  <2>4. dep.observed /\ dep.cm = pass.art.cm /\ dep.rel = pass.rel
    BY <1>7 DEF IsDeploymentReady, buildGlanceDeployment
  <2>. HIDE DEF w
  <2>. QED
    BY <1>5, <2>2, <2>3, <2>4
<1>8. CASE pass.art.cm # NoConfig /\ ~ IsDeploymentReady
  <2>1. Set("Deployment", "False") \in Statuses
    BY <1>1, InPass, SetWork
  <2>2. /\ Ends(Set("Deployment", "False"), TRUE)
        /\ dep' = [cm |-> pass.art.cm, sec |-> pass.art.sec, rel |-> pass.rel,
                   observed |-> FALSE]
    BY <1>8 DEF reconcileDeployment
  <2>3. dep' \in Deployments /\ dep'.cm.on = dep'.sec /\ dep'.rel <= schema
    BY <1>4, <2>2, InPass DEF Deployments
  <2>. QED
    BY <1>2, <1>3, <2>1, <2>2, <2>3, InPass, EndsSafe
<1>. QED
  BY <1>6, <1>7, <1>8

\* The members of the group leave stamps, and those of this pass unless one
\* of them failed.
LEMMA LeavesStamp ==
  ASSUME IInv, NEW fresh \in BOOLEAN,
         NEW down \in {{}, {"HTTPRoute"}, {"HTTPRoute", "API"}}
  PROVE  LET out == LeafOutcomes(fresh, down)
             leaves == {"HTTPRoute", "API", "HPA", "NetworkPolicy"} IN
         /\ DOMAIN out = leaves
         /\ \A t \in leaves : out[t].cond \in Stamps
         /\ ~ GroupFails(out) => \A t \in leaves : out[t].cond.gen = pass.hand
<1> DEFINE leaves == {"HTTPRoute", "API", "HPA", "NetworkPolicy"}
           leaf == [HTTPRoute |-> reconcileHTTPRoute,
                    API |-> reconcileHealthCheck(fresh),
                    HPA |-> reconcileHPA,
                    NetworkPolicy |-> reconcileNetworkPolicy]
           out == LeafOutcomes(fresh, down)
<1>1. pass.hand \in Nat /\ work.conds \in [Types -> Stamps]
  BY InPass DEF Statuses
<1>2. leaves \subseteq Types
  BY DEF Types, subConditionTypes
<1>3. \A st \in {"True", "False"} :
        /\ Condition(st, pass.hand) \in Stamps
        /\ Condition(st, pass.hand).gen = pass.hand
  BY <1>1, ConditionStamps
<1>4. /\ reconcileHTTPRoute.cond \in Stamps
      /\ reconcileHTTPRoute.cond.gen = pass.hand
  BY <1>3 DEF reconcileHTTPRoute, ReconcileHTTPRoute, Outcome
<1>5. /\ reconcileHealthCheck(fresh).cond \in Stamps
      /\ reconcileHealthCheck(fresh).cond.gen = pass.hand
  BY <1>3 DEF reconcileHealthCheck, ReconcileProbe, Outcome
<1>6. /\ reconcileHPA.cond \in Stamps /\ reconcileHPA.cond.gen = pass.hand
  BY <1>3 DEF reconcileHPA, ReconcileHPA, Outcome
<1>7. /\ reconcileNetworkPolicy.cond \in Stamps
      /\ reconcileNetworkPolicy.cond.gen = pass.hand
  BY <1>3 DEF reconcileNetworkPolicy, ReconcileNetworkPolicy, Outcome
<1>8. /\ DOMAIN leaf = leaves
      /\ \A t \in leaves : leaf[t].cond \in Stamps /\ leaf[t].cond.gen = pass.hand
  BY <1>4, <1>5, <1>6, <1>7
<1>9. out = [t \in DOMAIN leaf |->
               IF t \in down THEN Failed(work.conds[t]) ELSE leaf[t]]
  BY DEF LeafOutcomes
<1>10. \A t \in leaves : /\ Failed(work.conds[t]).cond \in Stamps
                         /\ Failed(work.conds[t]).err
  BY <1>1, <1>2 DEF Failed, Outcome
<1>. HIDE DEF leaf, out
<1>11. /\ DOMAIN out = leaves
       /\ \A t \in leaves : out[t].cond \in Stamps
       /\ \A t \in leaves : ~ out[t].err => out[t].cond.gen = pass.hand
  BY <1>8, <1>9, <1>10
<1>12. ~ GroupFails(out) => \A t \in leaves : out[t].cond.gen = pass.hand
  BY <1>11 DEF GroupFails
<1>. QED
  BY <1>11, <1>12 DEF out, leaves

LEMMA GroupKeeps ==
  ASSUME IInv, reconcileParallelGroup
  PROVE  IInv'
<1>. USE DEF objects, bounds
<1> DEFINE leaves == {"HTTPRoute", "API", "HPA", "NetworkPolicy"}
<1>1. UNCHANGED <<cr, dep, schema, job>> /\ pass.pc = "group"
      /\ pass.pc \in FromDeployment
      /\ pass.pc \in FromDatabase /\ pass.pc \in FromConfig
      /\ pass.pc \in FromBackends /\ pass.pc \in FromSecrets
  BY DEF reconcileParallelGroup, At, FromSecrets, FromBackends, FromConfig,
         FromDatabase, FromDeployment
<1>2. PICK fresh \in BOOLEAN, down \in {{}, {"HTTPRoute"}, {"HTTPRoute", "API"}} :
        Ends([work EXCEPT !.conds = MergeGroup(work.conds, LeafOutcomes(fresh, down))],
             GroupFails(LeafOutcomes(fresh, down))
               \/ GroupDelay(LeafOutcomes(fresh, down)) # 0)
  BY DEF reconcileParallelGroup
<1> DEFINE out == LeafOutcomes(fresh, down)
           merged == MergeGroup(work.conds, out)
           w == [work EXCEPT !.conds = merged]
           again == GroupFails(out) \/ GroupDelay(out) # 0
<1>3. /\ DOMAIN out = leaves
      /\ \A t \in leaves : out[t].cond \in Stamps
      /\ ~ GroupFails(out) => \A t \in leaves : out[t].cond.gen = pass.hand
  BY LeavesStamp
<1>4. work.conds \in [Types -> Stamps] /\ work \in Statuses
  BY InPass DEF Statuses
<1>. HIDE DEF out
<1>5. /\ merged \in [Types -> Stamps]
      /\ \A t \in Types \ leaves : merged[t] = work.conds[t]
      /\ \A t \in leaves : merged[t] = out[t].cond
  BY <1>3, <1>4 DEF MergeGroup, Types, subConditionTypes
<1>. HIDE DEF merged
<1>6. w \in Statuses /\ w.conds = merged /\ w.installed = work.installed
  BY <1>4, <1>5, WithConditions
<1>7. Ends(w, again)
  BY <1>2 DEF out, merged
<1>. HIDE DEF w
<1>8. CASE again
  <2>1. Ends(w, TRUE)
    BY <1>7, <1>8 DEF Ends, updateStatus
  <2>. QED
    BY <1>1, <1>6, <2>1, GivesUp
<1>9. CASE ~ again
  <2>. again \in BOOLEAN
    OBVIOUS
  <2>1. /\ pass' = Idle /\ status' \in Statuses
        /\ Parent \in woken' \/ status' = Aggregated(w)
    BY <1>6, <1>7, EndsWith DEF IInv
  <2>2. Shape' /\ Paired' /\ WorkloadIsMigrated' /\ JobSafe'
    BY <1>1, <2>1, IdlePass DEF IInv, Shape, Paired, WorkloadIsMigrated, JobSafe
  <2>3. PassSafe'
    <3>1. pass'.pc = "idle"
      BY <2>1, IdlePass
    <3>. QED
      BY <3>1 DEF PassSafe, ReadSafe, SecretsDone, BackendsDone, ConfigDone,
           DatabaseDone, DeploymentDone, FromSecrets, FromBackends, FromConfig,
           FromDatabase, FromDeployment
  <2>4. \A t \in subConditionTypes : w.conds[t].gen = pass.hand
    <3>1. \A t \in leaves : w.conds[t].gen = pass.hand
      BY <1>3, <1>5, <1>6, <1>9
    <3>2. \A t \in {"Secrets", "Backends", "Database", "Deployment"} :
            w.conds[t] = work.conds[t] /\ work.conds[t].gen = pass.hand
      BY <1>1, <1>5, <1>6
         DEF IInv, PassSafe, SecretsDone, BackendsDone, DatabaseDone,
             DeploymentDone, Stamped, Types, subConditionTypes
    <3>. QED
      BY <3>1, <3>2 DEF subConditionTypes
  <2>5. ReadyIsConverged'
    <3> SUFFICES ASSUME Settled', status'.conds["Ready"] = Condition("True", cr.gen)
                 PROVE  /\ dep.rel = cr.rel /\ dep.cm.conf = cr.conf /\ dep.observed
                        /\ status'.installed = cr.rel /\ schema >= cr.rel
                        /\ \A t \in subConditionTypes :
                             status'.conds[t] = Condition("True", cr.gen)
      BY <1>1 DEF ReadyIsConverged
    <3>1. status' = Aggregated(w)
      BY <2>1 DEF Settled
    <3>2. cr.gen \in Nat /\ pass.hand \in Nat
      BY InPass DEF IInv, Shape, Glances
    <3>3. /\ status'.installed = w.installed
          /\ \A t \in subConditionTypes : status'.conds[t] = w.conds[t]
          /\ status'.conds["Ready"].gen = pass.hand
          /\ status'.conds["Ready"].st = "True" =>
               \A t \in subConditionTypes : w.conds[t].st = "True"
      BY <1>6, <3>1, <3>2, AggregatedStatus
    <3>4. pass.hand = cr.gen /\ \A t \in subConditionTypes : w.conds[t].st = "True"
      BY <3>2, <3>3, ConditionStamps
    <3>5. \A t \in subConditionTypes : status'.conds[t] = Condition("True", cr.gen)
      <4> SUFFICES ASSUME NEW t \in subConditionTypes
                   PROVE  w.conds[t] = Condition("True", cr.gen)
        BY <3>3
      <4>1. w.conds[t] \in Stamps
        BY <1>5, <1>6, ReadyIsType
      <4>. QED
        BY <4>1, <3>2, <3>4, <2>4, StampIsCondition
    <3>6. Found("Backends") /\ Found("Deployment")
      <4>1. /\ "Backends" \in Types \ leaves /\ "Backends" \in subConditionTypes
            /\ "Deployment" \in Types \ leaves /\ "Deployment" \in subConditionTypes
        BY DEF Types, subConditionTypes
      <4>. QED
        BY <4>1, <1>5, <1>6, <3>4 DEF Found
    <3>7. pass.rel = cr.rel /\ pass.conf = cr.conf
      BY <1>1, <3>4 DEF IInv, PassSafe, ReadSafe
    <3>8. dep.observed /\ dep.cm = pass.art.cm /\ dep.rel = pass.rel
      BY <1>1, <3>6 DEF IInv, PassSafe, DeploymentDone
    <3>9. pass.art.cm.conf = pass.conf
      BY <1>1, <3>6 DEF IInv, PassSafe, BackendsDone, ConfigDone
    <3>10. work.installed = pass.rel /\ pass.rel <= schema
      BY <1>1 DEF IInv, PassSafe, DatabaseDone
    <3>. QED
      BY <1>6, <3>3, <3>5, <3>7, <3>8, <3>9, <3>10, InPass
  <2>. QED
    BY <2>2, <2>3, <2>5 DEF IInv
<1>. QED
  BY <1>8, <1>9

LEMMA FaultsKeep ==
  ASSUME IInv, StepFails \/ Crash
  PROVE  IInv'
<1>. USE DEF objects
<1>1. CASE StepFails
  <2> DEFINE w == IF At("config") /\ pass.proj.valid THEN markConfigFailed ELSE work
  <2>1. Set("Secrets", "False") \in Statuses
    BY InPass, SetWork DEF Types, subConditionTypes
  <2>2. w \in Statuses
    BY <2>1, InPass DEF markConfigFailed
  <2>3. Ends(w, TRUE) /\ UNCHANGED <<cr, schema, dep, job>>
    BY <1>1 DEF StepFails
  <2>. QED
    BY <2>2, <2>3, GivesUp
<1>2. CASE Crash
  <2>1. /\ pass' = Idle /\ Parent \in woken'
        /\ UNCHANGED <<cr, status, schema, dep, job>>
    BY <1>2 DEF Crash, Keys
  <2>2. Shape' /\ Paired' /\ WorkloadIsMigrated' /\ JobSafe'
    BY <2>1, IdlePass DEF IInv, Shape, Paired, WorkloadIsMigrated, JobSafe
  <2>3. PassSafe'
    <3>1. pass'.pc = "idle"
      BY <2>1, IdlePass
    <3>. QED
      BY <3>1 DEF PassSafe, ReadSafe, SecretsDone, BackendsDone, ConfigDone,
           DatabaseDone, DeploymentDone, FromSecrets, FromBackends, FromConfig,
           FromDatabase, FromDeployment
  <2>4. ReadyIsConverged'
    BY <2>1 DEF ReadyIsConverged, Settled
  <2>. QED
    BY <2>2, <2>3, <2>4 DEF IInv
<1>. QED
  BY <1>1, <1>2

LEMMA StutterKeeps ==
  ASSUME IInv, UNCHANGED vars
  PROVE  IInv'
<1>. cr \in Glances /\ dep \in Deployments /\ job \in Jobs /\ schema \in Nat
  BY DEF IInv, Shape
<1>1. cr.gen \in Nat
  BY DEF Glances
<1>2. Settled' => Settled
  BY DEF vars, Settled, At
<1>. QED
  BY <1>1, <1>2, AroundSafe DEF vars, IInv, JobSafe

LEMMA InvariantHolds == Spec => []IInv
<1>1. IInv /\ [Next]_vars => IInv'
  <2> SUFFICES ASSUME IInv, [Next]_vars PROVE IInv'
    OBVIOUS
  <2>1. CASE Controller
    BY <2>1, ReconcileKeeps, DeleteKeeps, SecretsKeep, BackendsStepKeeps,
       ConfigKeeps, DatabaseKeeps, DeploymentKeeps, GroupKeeps DEF Controller
  <2>2. ASSUME NEW b \in Backends, ReconcileBackend(b) PROVE IInv'
    BY <2>2, BackendsKeep
  <2>. QED
    BY <2>1, <2>2, UsersKeep, ClusterKeeps, FaultsKeep, StutterKeeps DEF Next
<1>. QED
  BY <1>1, InvariantInitially, PTL DEF Spec

-----------------------------------------------------------------------------

\* The ConfigMap and the Secret that glance-api mounts are always of one
\* rendering, however many backends there are and however they change.
THEOREM EnabledAlwaysHaveSections == Spec => []EnabledHaveSections
<1>1. IInv => EnabledHaveSections
  BY DEF IInv, Paired, EnabledHaveSections
<1>. QED
  BY <1>1, InvariantHolds, PTL

\* No Deployment is ever given a release before its migration has succeeded.
THEOREM WorkloadAlwaysMigrated == Spec => []WorkloadIsMigrated
<1>1. IInv => WorkloadIsMigrated
  BY DEF IInv
<1>. QED
  BY <1>1, InvariantHolds, PTL

\* Ready at the CR's generation, with no pass due, is true of the children:
\* steps cut short, refused writes and crashes never leave it standing on the
\* conditions of an older generation.
THEOREM ReadyAlwaysConverged == Spec => []ReadyIsConverged
<1>1. IInv => ReadyIsConverged
  BY DEF IInv
<1>. QED
  BY <1>1, InvariantHolds, PTL
=============================================================================
