----------------------------- MODULE KeyRotation -----------------------------
(***************************************************************************)
(* The rotation of one Keystone key repository (Fernet or credential): the *)
(* rotation Jobs that compute new keys, the staging Secret they PATCH, the *)
(* operator that commits it onto the production Secret, the kubelet that   *)
(* projects that Secret into the API pods, and the encrypted credential    *)
(* rows of the database.                                                   *)
(*                                                                         *)
(* A repository is a function from key index to key: index 0 is the staged *)
(* key, the highest index the primary one.  Keys are numbers, drawn in the *)
(* order they are generated.  A completion timestamp is the number of the  *)
(* PATCH that wrote it (two in one second are told apart here).            *)
(*                                                                         *)
(* Abstracted: the bytes of a key (those the Jobs write are well-formed),  *)
(* events, the gauge, and the RBAC, CronJob and PushSecret the pass        *)
(* ensures after the commit, which read none of this state.                *)
(***************************************************************************)
EXTENDS Integers, FiniteSets, Functions, FiniteSetsExt

CONSTANTS
  Operators,    \* the operator's replicas; one of them leads
  MaxActive,    \* max_active_keys
  Repositories  \* the repositories a behaviour may be about, as records:
                \*   runs      the pods of rotation Jobs, scheduled or manual
                \*   pods      the Keystone API pods
                \*   migrates  credential keys: the Job re-encrypts the rows
                \*   quiet     Jobs start in the steady state (see Quiet)
                \*   failures  bound: how many PATCHes fail
                \*   crashes   bound: how often a pass or a Job dies or the
                \*             leader changes

ASSUME KeyAssumption ==
  /\ MaxActive \in Nat /\ MaxActive >= 3
  /\ \A r \in Repositories :
       /\ r.migrates \in BOOLEAN /\ r.quiet \in BOOLEAN
       /\ r.failures \in Nat /\ r.crashes \in Nat

Empty == [i \in {} |-> 0]
Absent == [keys |-> Empty, stamp |-> 0]            \* no production Secret
Gone == [uid |-> 0, data |-> Empty, stamp |-> 0]   \* no staging Secret
Nothing == [main |-> Absent, staging |-> Gone]
NoRun == [st |-> "none", keys |-> Empty]

VARIABLES
  repo,         \* the repository of this behaviour; it never changes
  main,         \* the production Secret: its keys and completion stamp
  staging,      \* the staging Secret: its uid, data and completion stamp
  leader,       \* the replica that starts reconcile passes
  seen,         \* each replica's cached copy of the two Secrets
  pc,           \* where each replica's pass stands
  hand,         \* the Secrets as that pass read them
  runs,         \* the rotation Jobs' pods and their working copies
  view,         \* the repository the kubelet has projected into each API pod
  rows,         \* the keys the stored credentials are encrypted under
  fresh,        \* the next key to be generated
  patches,      \* how many PATCHes the staging Secret has taken
  uids,         \* how many staging Secrets have been created
  failures,
  crashes

secrets == <<main, staging, uids>>
operator == <<leader, seen, pc, hand>>
jobs == <<runs, fresh, patches, failures>>
vars == <<repo, main, staging, leader, seen, pc, hand, runs, view, rows, fresh,
          patches, uids, failures, crashes>>

IsRepository(f) ==
  /\ DOMAIN f \subseteq Nat
  /\ \A i \in DOMAIN f : f[i] \in 0 .. fresh - 1
IsMain(m) == IsRepository(m.keys) /\ m.stamp \in 0 .. patches
IsStaging(s) ==
  IsRepository(s.data) /\ s.stamp \in 0 .. patches /\ s.uid \in 0 .. uids

TypeOK ==
  /\ repo \in Repositories
  /\ IsMain(main) /\ IsStaging(staging) /\ leader \in Operators
  /\ \A o \in Operators :
       /\ IsMain(seen[o].main) /\ IsStaging(seen[o].staging)
       /\ IsMain(hand[o].main) /\ IsStaging(hand[o].staging)
       /\ pc[o] \in {"idle", "ensure", "commit", "delete"}
       /\ pc[o] = "idle" => hand[o] = Nothing
  /\ \A r \in repo.runs :
       /\ runs[r].st \in {"none", "copied", "rotated", "migrated", "ended"}
       /\ IsRepository(runs[r].keys)
  /\ \A p \in repo.pods : IsRepository(view[p])
  /\ rows \subseteq 0 .. fresh - 1
  /\ failures \in 0 .. repo.failures /\ crashes \in 0 .. repo.crashes

Init ==
  /\ repo \in Repositories
  /\ main = Absent /\ staging = Gone
  /\ leader \in Operators
  /\ seen = [o \in Operators |-> Nothing]
  /\ pc = [o \in Operators |-> "idle"]
  /\ hand = [o \in Operators |-> Nothing]
  /\ runs = [r \in repo.runs |-> NoRun]
  /\ view = [p \in repo.pods |-> Empty]
  /\ rows = {}
  /\ fresh = 0 /\ patches = 0 /\ uids = 0 /\ failures = 0 /\ crashes = 0

-----------------------------------------------------------------------------
(* Repositories.                                                            *)

Primary(keys) == keys[Max(DOMAIN keys)]

\* keystone-manage fernet_rotate: the staged key becomes the primary one, a
\* new key is staged, and the oldest are purged down to max_active_keys.
Rotated(keys, new) ==
  LET next == Max(DOMAIN keys) + 1
      aged == (DOMAIN keys \ {0}) \union {next}
      kept == {i \in aged : Cardinality({j \in aged : j > i}) < MaxActive - 1}
  IN [i \in kept \union {0} |->
        IF i = 0 THEN new ELSE IF i = next THEN keys[0] ELSE keys[i]]

\* A strategic-merge PATCH of .data: entries it does not name stay.
Merged(patch, data) ==
  [i \in DOMAIN patch \union DOMAIN data |->
     IF i \in DOMAIN patch THEN patch[i] ELSE data[i]]

\* validateRotationOutput, called with the bounds 3 and MaxActive + 1.
Valid(data) ==
  /\ Cardinality(DOMAIN data) \in 3 .. MaxActive + 1
  /\ IsInjective(data)

-----------------------------------------------------------------------------
(* The operator: reconcileFernetKeys, reconcileCredentialKeys.              *)

EndPass(o) ==
  /\ pc' = [pc EXCEPT ![o] = "idle"]
  /\ hand' = [hand EXCEPT ![o] = Nothing]
  /\ UNCHANGED <<leader, seen>>

Goto(o, next) ==
  /\ pc' = [pc EXCEPT ![o] = next]
  /\ UNCHANGED <<leader, seen, hand>>

\* One informer watches all Secrets: its copies are of the same moment.
SyncSecrets(o) ==
  /\ seen[o] # [main |-> main, staging |-> staging]
  /\ seen' = [seen EXCEPT ![o] = [main |-> main, staging |-> staging]]
  /\ UNCHANGED <<secrets, leader, pc, hand, jobs, view, rows, crashes, repo>>

\* A pass starts with a Get of the production Secret.
ReadKeys(o) ==
  /\ pc[o] = "idle" /\ leader = o /\ seen[o].main # Absent
  /\ pc' = [pc EXCEPT ![o] = "ensure"]
  /\ hand' = [hand EXCEPT ![o].main = seen[o].main]
  /\ UNCHANGED <<secrets, leader, seen, jobs, view, rows, crashes, repo>>

\* createKeysSecret; a Secret the cache has not shown yet makes Create fail.
CreateKeysSecret(o) ==
  /\ pc[o] = "idle" /\ leader = o /\ seen[o].main = Absent
  /\ main = Absent
  /\ main' = [keys |-> [i \in 0 .. MaxActive - 1 |-> fresh + i], stamp |-> 0]
  /\ fresh' = fresh + MaxActive
  /\ UNCHANGED <<staging, uids, operator, runs, patches, failures, view, rows,
                 crashes, repo>>

\* EnsureStagingSecret finds none in the cache and creates an empty one (or
\* fails on one the cache has not shown); there is nothing to commit then.
CreateStaging(o) ==
  /\ pc[o] = "ensure" /\ seen[o].staging = Gone
  /\ EndPass(o)
  /\ IF staging = Gone
     THEN /\ uids' = uids + 1
          /\ staging' = [Gone EXCEPT !.uid = uids + 1]
     ELSE UNCHANGED <<uids, staging>>
  /\ UNCHANGED <<main, jobs, view, rows, crashes, repo>>

NothingStaged(o) ==
  /\ pc[o] = "ensure"
  /\ seen[o].staging # Gone /\ seen[o].staging.stamp = 0
  /\ EndPass(o)
  /\ UNCHANGED <<secrets, jobs, view, rows, crashes, repo>>

ReadStaging(o) ==
  /\ pc[o] = "ensure" /\ seen[o].staging.stamp # 0
  /\ pc' = [pc EXCEPT ![o] = "commit"]
  /\ hand' = [hand EXCEPT ![o].staging = seen[o].staging]
  /\ UNCHANGED <<secrets, leader, seen, jobs, view, rows, crashes, repo>>

\* CommitStaged, with the Secrets this pass holds.
Accepts(o) == Valid(hand[o].staging.data)
Committed(o) ==
  /\ hand[o].main.keys = hand[o].staging.data
  /\ hand[o].main.stamp = hand[o].staging.stamp

\* Mutant: a rejected payload is kept (the behaviour before issue #475).
RejectKeeping(o) ==
  /\ pc[o] = "commit" /\ ~ Accepts(o)
  /\ EndPass(o)
  /\ UNCHANGED <<secrets, jobs, view, rows, crashes, repo>>

\* An invalid payload is cleared, unless it changed since it was read.
RejectStaged(o) ==
  /\ pc[o] = "commit" /\ ~ Accepts(o)
  /\ EndPass(o)
  /\ staging' = IF staging = hand[o].staging
                THEN [staging EXCEPT !.data = Empty, !.stamp = 0]
                ELSE staging
  /\ UNCHANGED <<main, uids, jobs, view, rows, crashes, repo>>

\* Mutant: the Update carries no resourceVersion.
UpdateMainUnlocked(o) ==
  /\ pc[o] = "commit" /\ Accepts(o) /\ ~ Committed(o)
  /\ main' = [keys |-> hand[o].staging.data, stamp |-> hand[o].staging.stamp]
  /\ Goto(o, "delete")
  /\ UNCHANGED <<staging, uids, jobs, view, rows, crashes, repo>>

\* The Update fails on a Secret that changed since it was read.
UpdateMain(o) ==
  /\ pc[o] = "commit" /\ Accepts(o) /\ ~ Committed(o)
  /\ IF main = hand[o].main
     THEN /\ main' = [keys |-> hand[o].staging.data,
                      stamp |-> hand[o].staging.stamp]
          /\ Goto(o, "delete")
     ELSE EndPass(o) /\ UNCHANGED main
  /\ UNCHANGED <<staging, uids, jobs, view, rows, crashes, repo>>

\* A pass that died before the delete is made good.
AlreadyCommitted(o) ==
  /\ pc[o] = "commit" /\ Accepts(o) /\ Committed(o)
  /\ Goto(o, "delete")
  /\ UNCHANGED <<secrets, jobs, view, rows, crashes, repo>>

\* Mutant: the delete has no resourceVersion precondition.
DeleteUnconditionally(o) ==
  /\ pc[o] = "delete"
  /\ EndPass(o)
  /\ staging' = Gone
  /\ UNCHANGED <<main, uids, jobs, view, rows, crashes, repo>>

\* A PATCH since the read is a Conflict, which is tolerated.
DeleteStaging(o) ==
  /\ pc[o] = "delete"
  /\ EndPass(o)
  /\ staging' = IF staging = hand[o].staging THEN Gone ELSE staging
  /\ UNCHANGED <<main, uids, jobs, view, rows, crashes, repo>>

\* The process dies in a pass.
Crash(o) ==
  /\ crashes < repo.crashes /\ pc[o] # "idle"
  /\ EndPass(o)
  /\ crashes' = crashes + 1
  /\ UNCHANGED <<secrets, jobs, view, rows, repo>>

\* Another replica takes the lease; the deposed one starts no new pass, but
\* requests of the one it is in may still arrive.
Failover(o) ==
  /\ crashes < repo.crashes /\ o # leader
  /\ leader' = o
  /\ crashes' = crashes + 1
  /\ UNCHANGED <<secrets, seen, pc, hand, jobs, view, rows, repo>>

Pass(o) == ReadKeys(o) \/ CreateKeysSecret(o) \/ CreateStaging(o)
           \/ NothingStaged(o) \/ ReadStaging(o) \/ RejectStaged(o)
           \/ UpdateMain(o) \/ AlreadyCommitted(o) \/ DeleteStaging(o)

-----------------------------------------------------------------------------
(* The rotation Jobs.                                                       *)

\* What a schedule far slower than the operator and the kubelets starts in.
Quiet ==
  /\ staging # Gone /\ staging.stamp = 0
  /\ \A r \in repo.runs : runs[r].st \in {"none", "ended"}
  /\ \A p \in repo.pods : view[p] = main.keys

\* The init container copies the mounted production Secret to the emptyDir.
StartRun(r) ==
  /\ runs[r].st = "none" /\ main # Absent
  /\ repo.quiet => Quiet
  /\ runs' = [runs EXCEPT ![r] = [st |-> "copied", keys |-> main.keys]]
  /\ UNCHANGED <<secrets, operator, view, rows, fresh, patches,
                 failures, crashes, repo>>

\* Mutant: the new key becomes the primary one at once.
RotateRunUnstaged(r) ==
  /\ runs[r].st = "copied"
  /\ runs' = [runs EXCEPT ![r] =
                [st |-> "rotated",
                 keys |-> Rotated([@.keys EXCEPT ![0] = fresh], fresh + 1)]]
  /\ fresh' = fresh + 2
  /\ UNCHANGED <<secrets, operator, view, rows, patches, failures,
                 crashes, repo>>

\* keystone-manage {fernet,credential}_rotate.  The latter refuses while a
\* row is not encrypted under the primary key.
RotateRun(r) ==
  /\ runs[r].st = "copied"
  /\ repo.migrates => rows \subseteq {Primary(runs[r].keys)}
  /\ runs' = [runs EXCEPT ![r] =
                [st |-> "rotated", keys |-> Rotated(@.keys, fresh)]]
  /\ fresh' = fresh + 1
  /\ UNCHANGED <<secrets, operator, view, rows, patches, failures,
                 crashes, repo>>

\* keystone-manage credential_migrate, between the rotation and the PATCH.
MigrateRun(r) ==
  /\ runs[r].st = "rotated" /\ repo.migrates
  /\ rows \subseteq Range(runs[r].keys)
  /\ runs' = [runs EXCEPT ![r].st = "migrated"]
  /\ rows' = IF rows = {} THEN {} ELSE {Primary(runs[r].keys)}
  /\ UNCHANGED <<secrets, operator, view, fresh, patches, failures,
                 crashes, repo>>

Computed(r) == runs[r].st = IF repo.migrates THEN "migrated" ELSE "rotated"

Patch(r) ==
  /\ patches' = patches + 1
  /\ staging' = [staging EXCEPT !.data = Merged(runs[r].keys, @),
                                !.stamp = patches + 1]

PatchRun(r) ==
  /\ Computed(r) /\ staging # Gone
  /\ Patch(r)
  /\ runs' = [runs EXCEPT ![r] = [st |-> "ended", keys |-> Empty]]
  /\ UNCHANGED <<main, uids, operator, view, rows, fresh, failures,
                 crashes, repo>>

\* The PATCH is refused, or lost, or only its answer is: the script exits and
\* the container restarts (RestartPolicyOnFailure) on the same emptyDir.
PatchFails(r) ==
  /\ failures < repo.failures
  /\ Computed(r)
  /\ UNCHANGED <<staging, patches>> \/ (staging # Gone /\ Patch(r))
  /\ runs' = [runs EXCEPT ![r].st = "copied"]
  /\ failures' = failures + 1
  /\ UNCHANGED <<main, uids, operator, view, rows, fresh, crashes, repo>>

\* The pod is evicted or out of retries: its working copy is lost.
RunDies(r) ==
  /\ crashes < repo.crashes
  /\ runs[r].st \in {"copied", "rotated", "migrated"}
  /\ runs' = [runs EXCEPT ![r] = [st |-> "ended", keys |-> Empty]]
  /\ crashes' = crashes + 1
  /\ UNCHANGED <<secrets, operator, view, rows, fresh, patches, failures, repo>>

-----------------------------------------------------------------------------
(* The API pods.                                                            *)

\* A starting pod mounts the Secret; the kubelet refreshes a running one's.
Project(p) ==
  /\ view[p] # main.keys
  /\ view' = [view EXCEPT ![p] = main.keys]
  /\ UNCHANGED <<secrets, operator, jobs, rows, crashes, repo>>

\* A credential is stored, encrypted under the primary key the pod knows.
StoreCredential(p) ==
  /\ repo.migrates /\ view[p] # Empty
  /\ Primary(view[p]) \notin rows
  /\ rows' = rows \union {Primary(view[p])}
  /\ UNCHANGED <<secrets, operator, jobs, view, crashes, repo>>

-----------------------------------------------------------------------------
RunStep(r) == RotateRun(r) \/ MigrateRun(r) \/ PatchRun(r)

Next ==
  \/ \E o \in Operators : Pass(o) \/ SyncSecrets(o) \/ Crash(o) \/ Failover(o)
  \/ \E r \in repo.runs :
       StartRun(r) \/ RunStep(r) \/ PatchFails(r) \/ RunDies(r)
  \/ \E p \in repo.pods : Project(p) \/ StoreCredential(p)

Spec == Init /\ [][Next]_vars

\* The leader requeues after every commit, on its watches and on errors, and
\* informers deliver.  Nothing obliges a Job to start or to end, or a deposed
\* leader to finish its pass.
Fairness ==
  \A o \in Operators : WF_vars(leader = o /\ Pass(o)) /\ WF_vars(SyncSecrets(o))

FairSpec == Spec /\ Fairness

-----------------------------------------------------------------------------
(* Properties.                                                              *)

\* No finished rotation is thrown away: a payload leaves the staging Secret
\* unmerged only if production holds exactly it, or it was invalid, whatever
\* PATCHes, crashes and stale caches fall between the commit and the delete.
NothingLost ==
  [][staging.stamp # 0 /\ staging'.stamp = 0 =>
       \/ main.keys = staging.data /\ main.stamp = staging.stamp
       \/ ~ Valid(staging.data)]_staging

\* Production never goes back: completions are committed in PATCH order, even
\* when the operator works from copies that later ones have overtaken.
CommitsInOrder ==
  [][main # Absent => main'.stamp > main.stamp]_main

\* The staging Secret always becomes a clean base for the next Job again:
\* neither a crash between commit and delete nor a rejected payload wedges it.
StagingRecovers == []<>(staging # Gone /\ staging.stamp = 0)

\* A token issued by any API pod is accepted by every other one, although
\* kubelets refresh the projected keys at different times.
TokensValidEverywhere ==
  \A p, q \in repo.pods :
    view[p] # Empty /\ view[q] # Empty => Primary(view[p]) \in Range(view[q])

\* Every stored credential can be decrypted by every API pod, at all times:
\* before, between and after credential_migrate, the swap and the refresh.
CredentialsReadable ==
  \A p \in repo.pods : view[p] # Empty => rows \subseteq Range(view[p])

-----------------------------------------------------------------------------
(* Two statements of the rotation guide (keystone-key-rotation.md:178, :273) *)
(* that a retried PATCH breaks: the restarted script rotates its copy again. *)

\* "A token minted before the rotation remains valid ..., because the old key
\* is retained in the Secret's active window."
OldPrimaryRetained ==
  [][main # Absent => Primary(main.keys) \in Range(main'.keys)]_main

\* "By the time the operator applies the Secret swap there is no surviving
\* plaintext encrypted under a key scheduled for aging-out."
SwapKeepsRows ==
  [][main # Absent => rows \subseteq Range(main'.keys)]_main
=============================================================================
