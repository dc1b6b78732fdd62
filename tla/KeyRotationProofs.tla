-------------------------- MODULE KeyRotationProofs --------------------------
(***************************************************************************)
(* The commit protocol of a key rotation, for any number of operator       *)
(* replicas, rotation Jobs, failures and crashes: production only moves    *)
(* forward, and no completed rotation leaves the staging Secret unmerged.  *)
(*                                                                         *)
(* What makes it so is not one Secret's resourceVersion but the order in   *)
(* which a pass reads the two: production first, staging after.  A pass    *)
(* that holds a stale production copy can then only hold a payload that is *)
(* at least as new.                                                        *)
(*                                                                         *)
(* The second half is about what the API pods know: tokens are understood  *)
(* and credentials readable on every pod, where a rotation starts once the *)
(* one before it has reached every pod, and its PATCH is not retried.      *)
(***************************************************************************)
EXTENDS KeyRotation, FiniteSetTheorems, TLAPS

\* The copies of the two Secrets that exist anywhere.
Mains == {main} \union {seen[o].main : o \in Operators}
                \union {hand[o].main : o \in Operators}
Staged == {staging} \union {seen[o].staging : o \in Operators}
                    \union {hand[o].staging : o \in Operators}

Shape ==
  /\ DOMAIN staging = {"uid", "data", "stamp"}
  /\ DOMAIN pc = Operators /\ DOMAIN seen = Operators /\ DOMAIN hand = Operators
  /\ \A o \in Operators : DOMAIN hand[o] = {"main", "staging"}
  /\ patches \in Nat
  /\ \A s \in Staged : s.stamp \in 0 .. patches
  /\ \A m \in Mains : m.stamp \in 0 .. patches

\* A stamp names one payload, wherever it is met.
Agree ==
  /\ \A s, t \in Staged : s.stamp = t.stamp /\ s.stamp # 0 => s.data = t.data
  /\ \A m \in Mains, s \in Staged :
       m.stamp = s.stamp /\ s.stamp # 0 => m.keys = s.data

\* A replica's copies age, and a pass holds a payload no older than the keys
\* it would replace.
OrderOf(o) ==
  /\ hand[o].main.stamp <= seen[o].main.stamp
  /\ seen[o].main.stamp <= main.stamp
  /\ seen[o].staging.stamp # 0 => seen[o].main.stamp <= seen[o].staging.stamp
  /\ pc[o] \in {"commit", "delete"} =>
       /\ hand[o].staging.stamp # 0
       /\ hand[o].main.stamp <= hand[o].staging.stamp
  /\ pc[o] = "delete" => hand[o].staging.stamp <= main.stamp
Order ==
  /\ staging.stamp \in {0, patches}
  /\ \A o \in Operators : OrderOf(o)

IInv == Shape /\ Agree /\ Order

-----------------------------------------------------------------------------
(* Copies.                                                                 *)

LEMMA NothingIsEmpty ==
  /\ Nothing.main.stamp = 0 /\ Nothing.staging.stamp = 0
  /\ DOMAIN Nothing = {"main", "staging"}
  /\ DOMAIN Gone = {"uid", "data", "stamp"} /\ Gone.stamp = 0
  /\ Absent.stamp = 0
  BY DEF Nothing, Absent, Gone

\* Copying on what is there breaks no agreement.
LEMMA SameCopies ==
  ASSUME Agree,
         \A s \in Staged' : s.stamp = 0 \/ s \in Staged,
         \A m \in Mains' :
           \/ m.stamp = 0 \/ m \in Mains
           \/ \E s \in Staged : m.stamp = s.stamp /\ m.keys = s.data
  PROVE  Agree'
<1>1. \A s, t \in Staged' : s.stamp = t.stamp /\ s.stamp # 0 => s.data = t.data
  BY DEF Agree
<1>2. \A m \in Mains', s \in Staged' :
        m.stamp = s.stamp /\ s.stamp # 0 => m.keys = s.data
  BY DEF Agree
<1>. QED
  BY <1>1, <1>2 DEF Agree

LEMMA Members ==
  /\ main \in Mains /\ staging \in Staged
  /\ \A o \in Operators : /\ seen[o].main \in Mains /\ hand[o].main \in Mains
                          /\ seen[o].staging \in Staged
                          /\ hand[o].staging \in Staged
  BY DEF Mains, Staged

\* A pass that ends gives up its copies; the staging Secret may have been
\* cleared or removed.
LEMMA PassEnds ==
  ASSUME IInv, NEW o \in Operators, EndPass(o), UNCHANGED <<main, patches>>,
         \/ staging' = staging
         \/ DOMAIN staging' = {"uid", "data", "stamp"} /\ staging'.stamp = 0
  PROVE  IInv'
<1>1. /\ pc' = [pc EXCEPT ![o] = "idle"] /\ hand' = [hand EXCEPT ![o] = Nothing]
      /\ seen' = seen
  BY DEF EndPass
<1>2. /\ hand'[o] = Nothing /\ pc'[o] = "idle"
      /\ \A p \in Operators \ {o} : hand'[p] = hand[p] /\ pc'[p] = pc[p]
  BY <1>1 DEF IInv, Shape
<1>3. \A s \in Staged' : s.stamp = 0 \/ s \in Staged
  BY <1>1, <1>2, Members, NothingIsEmpty DEF Staged
<1>4. \A m \in Mains' : m.stamp = 0 \/ m \in Mains
  BY <1>1, <1>2, Members, NothingIsEmpty DEF Mains
<1>5. Shape'
  <2>1. /\ DOMAIN staging' = {"uid", "data", "stamp"} /\ patches' \in Nat
        /\ DOMAIN pc' = Operators /\ DOMAIN seen' = Operators
        /\ DOMAIN hand' = Operators
    BY <1>1 DEF IInv, Shape
  <2>2. \A p \in Operators : DOMAIN hand'[p] = {"main", "staging"}
    BY <1>2, NothingIsEmpty DEF IInv, Shape
  <2>3. \A s \in Staged' : s.stamp \in 0 .. patches'
    BY <1>3 DEF IInv, Shape
  <2>4. \A m \in Mains' : m.stamp \in 0 .. patches'
    BY <1>4 DEF IInv, Shape
  <2>. QED
    BY <2>1, <2>2, <2>3, <2>4 DEF Shape
<1>6. Agree'
  BY <1>3, <1>4, SameCopies DEF IInv
<1>7. Order'
  <2>1. staging'.stamp \in {0, patches'}
    BY DEF IInv, Order
  <2>2. OrderOf(o)'
    <3>1. /\ seen[o].main.stamp <= main.stamp
          /\ seen[o].staging.stamp # 0 => seen[o].main.stamp <= seen[o].staging.stamp
      BY DEF IInv, Order, OrderOf
    <3>2. 0 <= seen[o].main.stamp
      BY Members DEF IInv, Shape
    <3>. QED
      BY <1>1, <1>2, <3>1, <3>2, NothingIsEmpty DEF OrderOf
  <2>3. \A p \in Operators \ {o} : OrderOf(p)'
    BY <1>1, <1>2 DEF IInv, Order, OrderOf
  <2>. QED
    BY <2>1, <2>2, <2>3 DEF Order
<1>. QED
  BY <1>5, <1>6, <1>7 DEF IInv

\* A step of one replica that copies what is there, or moves production on to
\* a payload that is there.
LEMMA ReplicaMoves ==
  ASSUME IInv, NEW o \in Operators, UNCHANGED <<staging, patches>>,
         DOMAIN pc' = Operators, DOMAIN seen' = Operators,
         DOMAIN hand' = Operators, DOMAIN hand'[o] = {"main", "staging"},
         \A p \in Operators \ {o} :
           seen'[p] = seen[p] /\ hand'[p] = hand[p] /\ pc'[p] = pc[p],
         seen'[o].main \in Mains, hand'[o].main \in Mains,
         seen'[o].staging \in Staged, hand'[o].staging \in Staged,
         \/ main'.stamp = 0 \/ main' \in Mains
         \/ \E s \in Staged : main'.stamp = s.stamp /\ main'.keys = s.data,
         main.stamp <= main'.stamp, OrderOf(o)'
  PROVE  IInv'
<1>1. \A s \in Staged' : s \in Staged
  BY Members DEF Staged
<1>2. \A m \in Mains' : \/ m.stamp = 0 \/ m \in Mains
                        \/ \E s \in Staged : m.stamp = s.stamp /\ m.keys = s.data
  BY Members DEF Mains
<1>3. Shape'
  <2>1. \A p \in Operators : DOMAIN hand'[p] = {"main", "staging"}
    BY DEF IInv, Shape
  <2>2. \A s \in Staged' : s.stamp \in 0 .. patches'
    BY <1>1 DEF IInv, Shape
  <2>3. \A m \in Mains' : m.stamp \in 0 .. patches'
    BY <1>2 DEF IInv, Shape
  <2>. QED
    BY <2>1, <2>2, <2>3 DEF IInv, Shape
<1>4. Agree'
  BY <1>1, <1>2, SameCopies DEF IInv
<1>5. Order'
  <2>1. staging'.stamp \in {0, patches'}
    BY DEF IInv, Order
  <2>2. ASSUME NEW p \in Operators \ {o} PROVE OrderOf(p)'
    <3>1. OrderOf(p)
      BY DEF IInv, Order
    <3>2. /\ seen[p].main.stamp \in Nat /\ hand[p].staging.stamp \in Nat
          /\ main.stamp \in Nat
      BY Members DEF IInv, Shape
    <3>3. main'.stamp \in Nat
      BY <1>3 DEF Shape, Mains
    <3>. QED
      BY <3>1, <3>2, <3>3 DEF OrderOf
  <2>. QED
    BY <2>1, <2>2 DEF Order
<1>. QED
  BY <1>3, <1>4, <1>5 DEF IInv

-----------------------------------------------------------------------------
(* The steps of a replica.                                                 *)

\* What the order of two copies says, as numbers.
LEMMA Stamps ==
  ASSUME IInv, NEW o \in Operators
  PROVE  /\ main.stamp \in Nat /\ staging.stamp \in Nat /\ patches \in Nat
         /\ main.stamp <= patches /\ staging.stamp \in {0, patches}
         /\ seen[o].main.stamp \in Nat /\ seen[o].staging.stamp \in Nat
         /\ hand[o].main.stamp \in Nat /\ hand[o].staging.stamp \in Nat
         /\ hand[o].staging.stamp <= patches
         /\ OrderOf(o)
         /\ DOMAIN pc = Operators /\ DOMAIN seen = Operators
         /\ DOMAIN hand = Operators /\ DOMAIN hand[o] = {"main", "staging"}
  BY Members DEF IInv, Shape, Order

LEMMA SyncKeeps ==
  ASSUME IInv, NEW o \in Operators, SyncSecrets(o)
  PROVE  IInv'
<1>1. /\ UNCHANGED <<main, staging, patches, pc, hand>>
      /\ seen' = [seen EXCEPT ![o] = [main |-> main, staging |-> staging]]
  BY DEF SyncSecrets, secrets, jobs
<1>2. /\ seen'[o].main = main /\ seen'[o].staging = staging
      /\ DOMAIN seen' = Operators
      /\ \A p \in Operators \ {o} : seen'[p] = seen[p]
  BY <1>1, Stamps
<1>3. OrderOf(o)'
  BY <1>1, <1>2, Stamps DEF OrderOf
<1>. QED
  BY <1>1, <1>2, <1>3, Stamps, Members, ReplicaMoves

LEMMA ReadKeysKeeps ==
  ASSUME IInv, NEW o \in Operators, ReadKeys(o)
  PROVE  IInv'
<1>1. /\ UNCHANGED <<main, staging, patches, seen>>
      /\ pc' = [pc EXCEPT ![o] = "ensure"]
      /\ hand' = [hand EXCEPT ![o].main = seen[o].main]
  BY DEF ReadKeys, secrets, jobs
<1>2. /\ hand'[o].main = seen[o].main /\ hand'[o].staging = hand[o].staging
      /\ pc'[o] = "ensure" /\ DOMAIN hand'[o] = {"main", "staging"}
      /\ DOMAIN hand' = Operators /\ DOMAIN pc' = Operators
      /\ \A p \in Operators \ {o} : hand'[p] = hand[p] /\ pc'[p] = pc[p]
  BY <1>1, Stamps
<1>3. OrderOf(o)'
  BY <1>1, <1>2, Stamps DEF OrderOf
<1>. QED
  BY <1>1, <1>2, <1>3, Stamps, Members, ReplicaMoves

LEMMA ReadStagingKeeps ==
  ASSUME IInv, NEW o \in Operators, ReadStaging(o)
  PROVE  IInv'
<1>1. /\ UNCHANGED <<main, staging, patches, seen>>
      /\ pc' = [pc EXCEPT ![o] = "commit"] /\ seen[o].staging.stamp # 0
      /\ hand' = [hand EXCEPT ![o].staging = seen[o].staging]
  BY DEF ReadStaging, secrets, jobs
<1>2. /\ hand'[o].main = hand[o].main /\ hand'[o].staging = seen[o].staging
      /\ pc'[o] = "commit" /\ DOMAIN hand'[o] = {"main", "staging"}
      /\ DOMAIN hand' = Operators /\ DOMAIN pc' = Operators
      /\ \A p \in Operators \ {o} : hand'[p] = hand[p] /\ pc'[p] = pc[p]
  BY <1>1, Stamps
<1>3. OrderOf(o)'
  BY <1>1, <1>2, Stamps DEF OrderOf
<1>. QED
  BY <1>1, <1>2, <1>3, Stamps, Members, ReplicaMoves

LEMMA CreateKeysKeeps ==
  ASSUME IInv, NEW o \in Operators, CreateKeysSecret(o)
  PROVE  IInv'
<1>1. /\ UNCHANGED <<staging, patches, seen, hand, pc>>
      /\ main.stamp = 0 /\ main'.stamp = 0
  BY NothingIsEmpty DEF CreateKeysSecret, operator
<1>2. OrderOf(o)'
  BY <1>1, Stamps DEF OrderOf
<1>. QED
  BY <1>1, <1>2, Stamps, Members, ReplicaMoves

\* The heart of it: what replaces the production keys is newer than they are.
LEMMA CommitIsNewer ==
  ASSUME IInv, NEW o \in Operators, pc[o] = "commit", ~ Committed(o),
         main = hand[o].main
  PROVE  main.stamp < hand[o].staging.stamp
<1>1. /\ hand[o].staging.stamp # 0
      /\ hand[o].main.stamp <= hand[o].staging.stamp
  BY Stamps DEF OrderOf
<1>2. hand[o].main.stamp # hand[o].staging.stamp
  BY <1>1, Members DEF IInv, Agree, Committed
<1>. QED
  BY <1>1, <1>2, Stamps

LEMMA UpdateKeeps ==
  ASSUME IInv, NEW o \in Operators, UpdateMain(o)
  PROVE  IInv'
<1>1. CASE main = hand[o].main
  <2>1. /\ UNCHANGED <<staging, patches, seen, hand>>
        /\ pc' = [pc EXCEPT ![o] = "delete"] /\ pc[o] = "commit"
        /\ ~ Committed(o)
        /\ main' = [keys |-> hand[o].staging.data,
                    stamp |-> hand[o].staging.stamp]
    BY <1>1 DEF UpdateMain, Goto, jobs
  <2>2. /\ pc'[o] = "delete" /\ DOMAIN pc' = Operators
        /\ \A p \in Operators \ {o} : pc'[p] = pc[p]
    BY <2>1, Stamps
  <2>3. main.stamp < main'.stamp
    BY <1>1, <2>1, CommitIsNewer
  <2>4. main'.stamp = hand[o].staging.stamp /\ main'.keys = hand[o].staging.data
    BY <2>1
  <2>5. OrderOf(o)'
    BY <2>1, <2>2, <2>3, <2>4, Stamps DEF OrderOf
  <2>6. main.stamp <= main'.stamp
    BY <2>3, <2>4, Stamps
  <2>. QED
    BY <2>1, <2>2, <2>4, <2>5, <2>6, Stamps, Members, ReplicaMoves
<1>2. CASE main # hand[o].main
  <2>1. EndPass(o) /\ UNCHANGED <<main, staging, patches>>
    BY <1>2 DEF UpdateMain, jobs
  <2>. QED
    BY <2>1, PassEnds
<1>. QED
  BY <1>1, <1>2

LEMMA AlreadyKeeps ==
  ASSUME IInv, NEW o \in Operators, AlreadyCommitted(o)
  PROVE  IInv'
<1>1. /\ UNCHANGED <<main, staging, patches, seen, hand>>
      /\ pc' = [pc EXCEPT ![o] = "delete"] /\ pc[o] = "commit"
      /\ hand[o].main.stamp = hand[o].staging.stamp
  BY DEF AlreadyCommitted, Goto, jobs, secrets, Committed
<1>2. /\ pc'[o] = "delete" /\ DOMAIN pc' = Operators
      /\ \A p \in Operators \ {o} : pc'[p] = pc[p]
  BY <1>1, Stamps
<1>3. OrderOf(o)'
  BY <1>1, <1>2, Stamps DEF OrderOf
<1>. QED
  BY <1>1, <1>2, <1>3, Stamps, Members, ReplicaMoves

LEMMA EndingsKeep ==
  ASSUME IInv, NEW o \in Operators,
         \/ CreateStaging(o) \/ NothingStaged(o) \/ RejectStaged(o)
         \/ DeleteStaging(o) \/ Crash(o)
  PROVE  IInv'
<1>1. EndPass(o) /\ UNCHANGED <<main, patches>>
  BY DEF CreateStaging, NothingStaged, RejectStaged, DeleteStaging, Crash,
         jobs, secrets
<1>2. \/ staging' = staging
      \/ DOMAIN staging' = {"uid", "data", "stamp"} /\ staging'.stamp = 0
  <2>1. DOMAIN staging = {"uid", "data", "stamp"}
    BY DEF IInv, Shape
  <2>2. CASE CreateStaging(o)
    BY <2>2, NothingIsEmpty DEF CreateStaging
  <2>3. CASE RejectStaged(o)
    BY <2>1, <2>3 DEF RejectStaged
  <2>4. CASE NothingStaged(o) \/ DeleteStaging(o) \/ Crash(o)
    BY <2>4, NothingIsEmpty DEF NothingStaged, DeleteStaging, Crash, secrets
  <2>. QED
    BY <2>2, <2>3, <2>4
<1>. QED
  BY <1>1, <1>2, PassEnds

-----------------------------------------------------------------------------
(* The Jobs and the pods.                                                  *)

\* What the protocol looks at; a step that leaves it alone keeps all of it.
protocol == <<main, staging, patches, seen, hand, pc>>

LEMMA OutsideKeeps ==
  ASSUME IInv, UNCHANGED protocol
  PROVE  IInv'
<1>1. Staged' = Staged /\ Mains' = Mains
  BY DEF protocol, Staged, Mains
<1>2. Shape' /\ Agree'
  BY <1>1 DEF protocol, IInv, Shape, Agree
<1>3. Order'
  BY DEF protocol, IInv, Order, OrderOf
<1>. QED
  BY <1>2, <1>3 DEF IInv

\* A PATCH makes a payload that no copy shows yet, under a stamp of its own.
LEMMA PatchKeeps ==
  ASSUME IInv, NEW r \in repo.runs, Patch(r), UNCHANGED <<main, seen, hand, pc>>
  PROVE  IInv'
<1>1. /\ patches \in Nat /\ patches' = patches + 1
      /\ DOMAIN staging' = {"uid", "data", "stamp"}
      /\ staging'.stamp = patches + 1
  BY DEF IInv, Shape, Patch
<1>2. /\ \A s \in Staged' : s = staging' \/ s \in Staged
      /\ \A s \in Staged : s.stamp \in 0 .. patches
  BY DEF Staged, IInv, Shape
<1>3. /\ Mains' = Mains
      /\ \A m \in Mains : m.stamp \in 0 .. patches
  BY DEF Mains, IInv, Shape
<1>4. Shape'
  BY <1>1, <1>2, <1>3 DEF IInv, Shape
<1>5. Agree'
  <2>1. ASSUME NEW s \in Staged', NEW t \in Staged', s.stamp = t.stamp, s.stamp # 0
        PROVE  s.data = t.data
    <3>1. CASE s \in Staged /\ t \in Staged
      BY <2>1, <3>1 DEF IInv, Agree
    <3>2. CASE s \notin Staged \/ t \notin Staged
      BY <1>1, <1>2, <2>1, <3>2
    <3>. QED
      BY <3>1, <3>2
  <2>2. ASSUME NEW m \in Mains', NEW s \in Staged', m.stamp = s.stamp, s.stamp # 0
        PROVE  m.keys = s.data
    <3>1. s \in Staged /\ m \in Mains
      BY <1>1, <1>2, <1>3, <2>2
    <3>. QED
      BY <2>2, <3>1 DEF IInv, Agree
  <2>. QED
    BY <2>1, <2>2 DEF Agree
<1>6. Order'
  BY <1>1 DEF IInv, Order, OrderOf
<1>. QED
  BY <1>4, <1>5, <1>6 DEF IInv

LEMMA RunsKeep ==
  ASSUME IInv, NEW r \in repo.runs,
         StartRun(r) \/ RunStep(r) \/ PatchFails(r) \/ RunDies(r)
  PROVE  IInv'
<1>. USE DEF secrets, operator
<1>1. CASE StartRun(r) \/ RotateRun(r) \/ MigrateRun(r) \/ RunDies(r)
  <2>1. UNCHANGED protocol
    BY <1>1 DEF StartRun, RotateRun, MigrateRun, RunDies, protocol
  <2>. QED
    BY <2>1, OutsideKeeps
<1>2. CASE PatchRun(r)
  BY <1>2, PatchKeeps DEF PatchRun
<1>3. CASE PatchFails(r)
  <2>1. UNCHANGED <<main, seen, hand, pc>>
    BY <1>3 DEF PatchFails
  <2>2. CASE UNCHANGED <<staging, patches>>
    BY <2>1, <2>2, OutsideKeeps DEF protocol
  <2>3. CASE Patch(r)
    BY <2>1, <2>3, PatchKeeps
  <2>. QED
    BY <1>3, <2>2, <2>3 DEF PatchFails
<1>. QED
  BY <1>1, <1>2, <1>3 DEF RunStep

-----------------------------------------------------------------------------

LEMMA InvariantInitially == Init => IInv
<1> SUFFICES ASSUME Init PROVE IInv
  OBVIOUS
<1>1. /\ main = Absent /\ staging = Gone /\ patches = 0
      /\ DOMAIN pc = Operators /\ DOMAIN seen = Operators
      /\ DOMAIN hand = Operators
      /\ \A o \in Operators : seen[o] = Nothing /\ hand[o] = Nothing /\ pc[o] = "idle"
  BY DEF Init
<1>2. /\ \A s \in Staged : s.stamp = 0
      /\ \A m \in Mains : m.stamp = 0
  BY <1>1, NothingIsEmpty DEF Staged, Mains
<1>3. Shape
  BY <1>1, <1>2, NothingIsEmpty DEF Shape
<1>4. Agree
  BY <1>2 DEF Agree
<1>5. Order
  BY <1>1, NothingIsEmpty DEF Order, OrderOf
<1>. QED
  BY <1>3, <1>4, <1>5 DEF IInv

LEMMA InvariantStep == IInv /\ [Next]_vars => IInv'
<1> SUFFICES ASSUME IInv, [Next]_vars PROVE IInv'
  OBVIOUS
<1>1. ASSUME NEW o \in Operators, Pass(o) \/ Crash(o) PROVE IInv'
  BY <1>1, ReadKeysKeeps, CreateKeysKeeps, ReadStagingKeeps, UpdateKeeps,
     AlreadyKeeps, EndingsKeep DEF Pass
<1>2. ASSUME NEW o \in Operators, SyncSecrets(o) PROVE IInv'
  BY <1>2, SyncKeeps
<1>3. ASSUME NEW o \in Operators, Failover(o) PROVE IInv'
  <2>1. UNCHANGED protocol
    BY <1>3 DEF Failover, protocol, secrets, jobs
  <2>. QED
    BY <2>1, OutsideKeeps
<1>4. ASSUME NEW p \in repo.pods, Project(p) \/ StoreCredential(p) PROVE IInv'
  <2>1. UNCHANGED protocol
    BY <1>4 DEF Project, StoreCredential, protocol, secrets, operator, jobs
  <2>. QED
    BY <2>1, OutsideKeeps
<1>5. CASE UNCHANGED vars
  BY <1>5, OutsideKeeps DEF vars, protocol
<1>. QED
  BY <1>1, <1>2, <1>3, <1>4, <1>5, RunsKeep DEF Next

LEMMA InvariantHolds == Spec => []IInv
  BY InvariantInitially, InvariantStep, PTL DEF Spec

\* Production never goes back: also a deposed leader, working from copies that
\* later completions have overtaken, can only replace the keys by newer ones.
THEOREM CommitsAlwaysInOrder == Spec => CommitsInOrder
<1>1. IInv /\ [Next]_vars => [main # Absent => main'.stamp > main.stamp]_main
  <2> SUFFICES ASSUME IInv, [Next]_vars, main' # main, main # Absent
               PROVE  main'.stamp > main.stamp
    OBVIOUS
  <2>1. PICK o \in Operators : UpdateMain(o)
    <3>. USE DEF secrets, operator, jobs
    <3>1. ASSUME NEW o \in Operators,
                 Pass(o) \/ SyncSecrets(o) \/ Crash(o) \/ Failover(o)
          PROVE  UpdateMain(o)
      BY <3>1 DEF Pass, ReadKeys, CreateKeysSecret, CreateStaging,
         NothingStaged, ReadStaging, RejectStaged, AlreadyCommitted,
         DeleteStaging, SyncSecrets, Crash, Failover
    <3>2. ASSUME NEW r \in repo.runs,
                 StartRun(r) \/ RunStep(r) \/ PatchFails(r) \/ RunDies(r)
          PROVE  FALSE
      BY <3>2 DEF StartRun, RunStep, RotateRun, MigrateRun, PatchRun,
         PatchFails, RunDies
    <3>3. ASSUME NEW p \in repo.pods, Project(p) \/ StoreCredential(p)
          PROVE  FALSE
      BY <3>3 DEF Project, StoreCredential
    <3>. QED
      BY <3>1, <3>2, <3>3 DEF Next, vars
  <2>2. /\ main = hand[o].main /\ pc[o] = "commit" /\ ~ Committed(o)
        /\ main'.stamp = hand[o].staging.stamp
    BY <2>1 DEF UpdateMain
  <2>3. main.stamp < hand[o].staging.stamp
    BY <2>2, CommitIsNewer
  <2>. QED
    BY <2>2, <2>3, Stamps
<1>. QED
  BY <1>1, InvariantHolds, PTL DEF Spec, CommitsInOrder

\* No completed rotation is thrown away, by whichever replica and after
\* whichever PATCH, crash or change of leader: what leaves the staging Secret
\* is in production, or was no valid payload.
THEOREM NothingEverLost == Spec => NothingLost
<1> DEFINE Kept == \/ main.keys = staging.data /\ main.stamp = staging.stamp
                   \/ ~ Valid(staging.data)
<1>1. IInv /\ [Next]_vars
        => [staging.stamp # 0 /\ staging'.stamp = 0 => Kept]_staging
  <2> SUFFICES ASSUME IInv, [Next]_vars, staging' # staging,
                      staging.stamp # 0, staging'.stamp = 0
               PROVE  Kept
    OBVIOUS
  <2>1. \E o \in Operators : RejectStaged(o) \/ DeleteStaging(o)
    <3>. USE DEF secrets, operator, jobs
    <3>1. ASSUME NEW o \in Operators,
                 Pass(o) \/ SyncSecrets(o) \/ Crash(o) \/ Failover(o)
          PROVE  RejectStaged(o) \/ DeleteStaging(o)
      BY <3>1, NothingIsEmpty DEF Pass, ReadKeys, CreateKeysSecret,
         CreateStaging, NothingStaged, ReadStaging, UpdateMain,
         AlreadyCommitted, SyncSecrets, Crash, Failover
    <3>2. ASSUME NEW r \in repo.runs, Patch(r) PROVE FALSE
      BY <3>2 DEF Patch, IInv, Shape
    <3>3. ASSUME NEW r \in repo.runs,
                 StartRun(r) \/ RunStep(r) \/ PatchFails(r) \/ RunDies(r)
          PROVE  FALSE
      BY <3>2, <3>3 DEF StartRun, RunStep, RotateRun, MigrateRun, PatchRun,
         PatchFails, RunDies
    <3>4. ASSUME NEW p \in repo.pods, Project(p) \/ StoreCredential(p)
          PROVE  FALSE
      BY <3>4 DEF Project, StoreCredential
    <3>. QED
      BY <3>1, <3>3, <3>4 DEF Next, vars
  <2>2. ASSUME NEW o \in Operators, RejectStaged(o) PROVE Kept
    BY <2>2 DEF RejectStaged, Accepts
  <2>3. ASSUME NEW o \in Operators, DeleteStaging(o) PROVE Kept
    <3>1. staging = hand[o].staging /\ pc[o] = "delete"
      BY <2>3 DEF DeleteStaging
    <3>2. main.stamp = staging.stamp
      BY <3>1, Stamps DEF OrderOf
    <3>3. main.keys = staging.data
      BY <3>2, Members DEF IInv, Agree
    <3>. QED
      BY <3>2, <3>3
  <2>. QED
    BY <2>1, <2>2, <2>3
<1>. QED
  BY <1>1, InvariantHolds, PTL DEF Spec, NothingLost

-----------------------------------------------------------------------------
(***************************************************************************)
(* Tokens and credentials, where Jobs start in the steady state and no     *)
(* PATCH fails.  What a pod knows is then never more than one rotation     *)
(* away from what production holds, and a rotation keeps the two keys that *)
(* are in use: the primary one, and the staged one that becomes primary.   *)
(***************************************************************************)
WellFormed(k) ==
  \E top \in Nat \ {0} : /\ {0, top} \subseteq DOMAIN k
                         /\ DOMAIN k \subseteq 0 .. top
Rotation(k, l) == l = Rotated(k, l[0])
InUse(k) == {Primary(k), k[0]}

Views == {main.keys} \union {view[p] : p \in repo.pods}
Understood(V) ==
  \A k, l \in V : k # Empty /\ l # Empty => Primary(k) \in Range(l)
Readable(V) == \A k \in V : k # Empty => WellFormed(k) /\ rows \subseteq Range(k)

Working(r) == runs[r].st \in {"copied", "rotated", "migrated"}
AllInView == \A p \in repo.pods : view[p] = main.keys
Offered(s) == s.stamp > main.stamp /\ Valid(s.data)

Frame ==
  /\ DOMAIN runs = repo.runs /\ DOMAIN view = repo.pods
  /\ \A r \in repo.runs : DOMAIN runs[r] = {"st", "keys"}
  /\ staging.stamp = 0 => staging.data = Empty
  /\ ~ repo.migrates => rows = {}
  /\ main # Absent => main.keys # Empty
  /\ main = Absent =>
       /\ patches = 0 /\ rows = {} /\ \A p \in repo.pods : view[p] = Empty
       /\ \A r \in repo.runs : ~ Working(r)

\* A Job works alone, from the keys that every pod knows; its payload is the
\* next rotation of them, and no row is under a key that it drops.
WorksAlone(r) ==
  /\ staging # Gone /\ staging.stamp = 0 /\ AllInView
  /\ \A q \in repo.runs \ {r} : ~ Working(q)
  /\ runs[r].st = "copied" => runs[r].keys = main.keys
  /\ runs[r].st # "copied" => /\ Rotation(main.keys, runs[r].keys)
                              /\ rows \subseteq InUse(main.keys)
OfferIsNext(s) ==
  /\ staging.stamp = s.stamp /\ AllInView
  /\ Rotation(main.keys, s.data) /\ rows \subseteq InUse(main.keys)

Steady ==
  /\ Frame /\ Understood(Views) /\ Readable(Views)
  /\ \A r \in repo.runs : Working(r) => WorksAlone(r)
  /\ \A s \in Staged : Offered(s) => OfferIsNext(s)

Undisturbed == repo.quiet /\ repo.failures = 0
SInv ==
  /\ IInv
  /\ repo \in Repositories /\ failures \in Nat
  /\ Undisturbed => Steady

-----------------------------------------------------------------------------
(* What a rotation keeps.                                                   *)

LEMMA MaxIs ==
  ASSUME NEW S, NEW m \in S, S \subseteq 0 .. m, m \in Nat
  PROVE  Max(S) = m
<1>1. m \in S /\ \A y \in S : m >= y
  OBVIOUS
<1>2. Max(S) \in S /\ \A y \in S : Max(S) >= y
  BY <1>1 DEF Max
<1>3. Max(S) \in 0 .. m /\ Max(S) >= m
  BY <1>2
<1>. QED
  BY <1>3

LEMMA InUseKnown ==
  ASSUME NEW k, WellFormed(k)
  PROVE  InUse(k) \subseteq Range(k) /\ k # Empty
<1>1. PICK top \in Nat \ {0} : {0, top} \subseteq DOMAIN k /\ DOMAIN k \subseteq 0 .. top
  BY DEF WellFormed
<1>2. Max(DOMAIN k) = top
  BY <1>1, MaxIs
<1>3. DOMAIN Empty = {}
  BY DEF Empty
<1>. QED
  BY <1>1, <1>2, <1>3 DEF InUse, Primary, Range

LEMMA RotatedIs ==
  ASSUME NEW k, NEW new, WellFormed(k)
  PROVE  LET l == Rotated(k, new) IN
         /\ WellFormed(l) /\ Primary(l) = k[0] /\ l[0] = new
         /\ InUse(k) \subseteq Range(l)
         /\ Merged(l, Empty) = l
<1>1. PICK top \in Nat \ {0} : {0, top} \subseteq DOMAIN k /\ DOMAIN k \subseteq 0 .. top
  BY DEF WellFormed
<1>2. Max(DOMAIN k) = top
  BY <1>1, MaxIs
<1>. DEFINE aged == (DOMAIN k \ {0}) \union {top + 1}
            kept == {i \in aged : Cardinality({j \in aged : j > i}) < MaxActive - 1}
            l == [i \in kept \union {0} |->
                    IF i = 0 THEN new ELSE IF i = top + 1 THEN k[0] ELSE k[i]]
<1>3. Rotated(k, new) = l
  BY <1>2 DEF Rotated
<1>4. top + 1 \in kept
  <2>1. {j \in aged : j > top + 1} = {}
    BY <1>1
  <2>2. Cardinality({j \in aged : j > top + 1}) = 0
    BY <2>1, FS_EmptySet
  <2>. QED
    BY <2>2, KeyAssumption
<1>5. top \in kept
  <2>1. {j \in aged : j > top} = {top + 1}
    BY <1>1
  <2>2. Cardinality({j \in aged : j > top}) = 1
    BY <2>1, FS_Singleton
  <2>. QED
    BY <1>1, <2>2, KeyAssumption
<1>6. DOMAIN l = kept \union {0} /\ kept \subseteq 0 .. top + 1
  BY <1>1
<1>7. l[0] = new /\ l[top + 1] = k[0] /\ l[top] = k[top]
  BY <1>1, <1>4, <1>5
<1>8. /\ top + 1 \in Nat \ {0} /\ {0, top + 1} \subseteq DOMAIN l
      /\ DOMAIN l \subseteq 0 .. top + 1
  BY <1>1, <1>4, <1>6
<1>. HIDE DEF aged, kept, l
<1>9. WellFormed(l)
  BY <1>8 DEF WellFormed
<1>10. Max(DOMAIN l) = top + 1
  BY <1>8, MaxIs
<1>11. InUse(k) \subseteq Range(l)
  BY <1>1, <1>2, <1>7, <1>8, <1>5, <1>6 DEF InUse, Primary, Range
<1>12. Merged(l, Empty) = l
  <2>1. DOMAIN Empty = {}
    BY DEF Empty
  <2>2. Merged(l, Empty) = [i \in DOMAIN l |-> l[i]]
    BY <2>1 DEF Merged
  <2>. QED
    BY <2>2 DEF l
<1>. QED
  BY <1>3, <1>7, <1>9, <1>11, <1>12, <1>10 DEF Primary

LEMMA RotationIs ==
  ASSUME NEW k, NEW l, WellFormed(k), Rotation(k, l)
  PROVE  /\ WellFormed(l) /\ Primary(l) = k[0] /\ Merged(l, Empty) = l
         /\ InUse(k) \subseteq Range(l)
BY RotatedIs DEF Rotation

-----------------------------------------------------------------------------
(* The steps of a replica, in the steady state.                             *)

LEMMA SteadyStart == Init => SInv
<1>. SUFFICES ASSUME Init PROVE SInv
  OBVIOUS
<1>1. IInv
  BY InvariantInitially
<1>2. main = Absent /\ staging = Gone /\ patches = 0 /\ rows = {}
      /\ runs = [r \in repo.runs |-> NoRun] /\ view = [p \in repo.pods |-> Empty]
  BY DEF Init
<1>3. \A r \in repo.runs : runs[r].st = "none" /\ DOMAIN runs[r] = {"st", "keys"}
  BY <1>2 DEF NoRun
<1>4. Frame
  BY <1>2, <1>3 DEF Frame, Gone, Working
<1>5. \A k \in Views : k = Empty
  BY <1>2 DEF Views, Absent
<1>6. \A s \in Staged : ~ Offered(s)
  BY <1>1, <1>2 DEF IInv, Shape, Offered, Absent
<1>7. repo \in Repositories /\ failures \in Nat
  BY DEF Init
<1>. QED
  BY <1>1, <1>3, <1>4, <1>5, <1>6, <1>7
  DEF SInv, Steady, Understood, Readable, Working

LEMMA OffersNone ==
  ASSUME IInv, Steady, NEW s \in Staged, Offered(s)
  PROVE  /\ staging.stamp = patches /\ staging.stamp # 0 /\ main # Absent
         /\ \A r \in repo.runs : ~ Working(r)
<1>1. OfferIsNext(s) /\ s.stamp > main.stamp /\ main.stamp \in Nat
      /\ s.stamp \in 0 .. patches
  BY Members DEF Steady, Offered, IInv, Shape
<1>2. staging.stamp # 0 /\ staging.stamp = patches
  BY <1>1 DEF OfferIsNext, IInv, Order
<1>. QED
  BY <1>1, <1>2 DEF Steady, WorksAlone, Frame

\* A replica reads, waits or ends its pass.
LEMMA ReplicaSteady ==
  ASSUME Steady, UNCHANGED <<main, staging, runs, view, rows, patches, repo>>,
         \A s \in Staged' : s \in Staged \/ s.stamp = 0, main.stamp \in Nat
  PROVE  Steady'
<1>1. Frame' /\ Understood(Views)' /\ Readable(Views)'
  BY DEF Steady, Frame, Understood, Readable, Views, Working
<1>2. \A r \in repo.runs : Working(r)' => WorksAlone(r)'
  BY DEF Steady, Working, WorksAlone, AllInView
<1>3. \A s \in Staged' : Offered(s)' => OfferIsNext(s)'
  BY DEF Steady, Offered, OfferIsNext, AllInView
<1>. QED
  BY <1>1, <1>2, <1>3 DEF Steady

\* The staging Secret is created, cleared or deleted, when nothing is offered
\* in it.
LEMMA StagingSteady ==
  ASSUME IInv, Steady, UNCHANGED <<main, runs, view, rows, patches, repo>>,
         staging'.stamp = 0, staging'.data = Empty,
         \A s \in Staged' : s \in Staged \/ s.stamp = 0,
         staging.stamp # 0 \/ staging = Gone,
         \A s \in Staged : s.stamp = staging.stamp => ~ Offered(s)
  PROVE  Steady'
<1>1. \A s \in Staged : ~ Offered(s)
  BY DEF Steady, OfferIsNext
<1>2. \A r \in repo.runs : ~ Working(r)
  BY DEF Steady, WorksAlone
<1>3. Frame' /\ Understood(Views)' /\ Readable(Views)'
  BY DEF Steady, Frame, Understood, Readable, Views, Working
<1>4. main.stamp \in Nat
  BY Members DEF IInv, Shape
<1>5. \A s \in Staged' : ~ Offered(s)'
  BY <1>1, <1>4 DEF Offered
<1>. QED
  BY <1>2, <1>3, <1>5 DEF Steady, Working

LEMMA CopiesOnly ==
  ASSUME IInv, NEW o \in Operators,
         \A p \in Operators \ {o} : seen'[p] = seen[p] /\ hand'[p] = hand[p],
         staging' \in Staged \/ staging'.stamp = 0,
         seen'[o].staging \in Staged \/ seen'[o].staging.stamp = 0,
         hand'[o].staging \in Staged \/ hand'[o].staging.stamp = 0
  PROVE  \A s \in Staged' : s \in Staged \/ s.stamp = 0
BY DEF Staged

LEMMA PassCopies ==
  ASSUME IInv, NEW o \in Operators, staging' \in Staged \/ staging'.stamp = 0,
         \/ EndPass(o) \/ SyncSecrets(o) \/ ReadKeys(o) \/ ReadStaging(o)
         \/ \E next : Goto(o, next)
  PROVE  \A s \in Staged' : s \in Staged \/ s.stamp = 0
<1>. USE Members, Stamps, NothingIsEmpty
<1>1. CASE EndPass(o)
  BY <1>1, CopiesOnly DEF EndPass
<1>2. CASE SyncSecrets(o)
  BY <1>2, CopiesOnly DEF SyncSecrets
<1>3. CASE ReadKeys(o) \/ ReadStaging(o)
  BY <1>3, CopiesOnly DEF ReadKeys, ReadStaging
<1>4. CASE \E next : Goto(o, next)
  BY <1>4, CopiesOnly DEF Goto
<1>. QED
  BY <1>1, <1>2, <1>3, <1>4

\* The commit replaces the keys that every pod knows by their next rotation.
LEMMA CommitSteady ==
  ASSUME SInv, Undisturbed, NEW o \in Operators, UpdateMain(o), main = hand[o].main
  PROVE  Steady'
<1>. DEFINE s == hand[o].staging
            l == s.data
<1>1. IInv /\ Steady
  BY DEF SInv
<1>2. /\ UNCHANGED <<staging, runs, view, rows, patches, repo, seen, hand>>
      /\ main' = [keys |-> l, stamp |-> s.stamp]
      /\ pc[o] = "commit" /\ Valid(l) /\ ~ Committed(o)
  BY DEF UpdateMain, jobs, Goto, Accepts
<1>3. s \in Staged /\ Offered(s)
  BY <1>1, <1>2, CommitIsNewer, Members, Stamps DEF Offered
<1>4. OfferIsNext(s) /\ staging.stamp = patches /\ staging.stamp # 0 /\ main # Absent
      /\ \A r \in repo.runs : ~ Working(r)
  BY <1>1, <1>3, OffersNone DEF Steady
<1>5. WellFormed(main.keys) /\ main.keys # Empty /\ rows \subseteq Range(main.keys)
  BY <1>1, <1>4 DEF Steady, Frame, Readable, Views
<1>. DEFINE k == main.keys
<1>6. /\ WellFormed(l) /\ Primary(l) = k[0] /\ InUse(k) \subseteq Range(l)
      /\ InUse(k) \subseteq Range(k) /\ l # Empty /\ Primary(l) \in Range(l)
  <2>1. WellFormed(l) /\ Primary(l) = k[0] /\ InUse(k) \subseteq Range(l)
    BY <1>4, <1>5, RotationIs DEF OfferIsNext
  <2>. QED
    BY <1>5, <2>1, InUseKnown DEF InUse
<1>7. \A v \in Views' : v \in {l, k}
  BY <1>2, <1>4 DEF OfferIsNext, AllInView, Views
<1>8. Understood(Views)'
  <2>1. \A a, b \in {l, k} : Primary(a) \in Range(b)
    BY <1>6 DEF InUse
  <2>2. \A a, b \in Views' : Primary(a) \in Range(b)
    BY <1>7, <2>1
  <2>. QED
    BY <2>2 DEF Understood
<1>9. Readable(Views)'
  <2>1. rows \subseteq Range(l)
    BY <1>4, <1>6 DEF OfferIsNext
  <2>. QED
    BY <1>2, <1>5, <1>6, <1>7, <2>1 DEF Readable
<1>10. \A t \in Staged' : ~ Offered(t)'
  <2>1. \A t \in Staged' : t \in Staged
    BY <1>2 DEF Staged
  <2>2. \A t \in Staged : t.stamp \in 0 .. patches
    BY <1>1 DEF IInv, Shape
  <2>3. main'.stamp = patches /\ patches \in Nat
    BY <1>1, <1>2, <1>4 DEF OfferIsNext, IInv, Shape
  <2>. QED
    BY <2>1, <2>2, <2>3 DEF Offered
<1>11. Frame'
  <2>1. main' # Absent
    BY <1>2, <1>4 DEF Absent, OfferIsNext
  <2>. QED
    BY <1>1, <1>2, <1>4, <1>6, <2>1 DEF Steady, Frame, Working
<1>. QED
  BY <1>2, <1>4, <1>8, <1>9, <1>10, <1>11 DEF Steady, Working

LEMMA PassSteady ==
  ASSUME SInv, Undisturbed, NEW o \in Operators,
         Pass(o) \/ SyncSecrets(o) \/ Crash(o) \/ Failover(o)
  PROVE  Steady'
<1>. USE DEF secrets, operator, jobs
<1>1. IInv /\ Steady /\ main.stamp \in Nat
  BY Stamps DEF SInv
<1>2. CASE SyncSecrets(o) \/ ReadKeys(o) \/ NothingStaged(o) \/ ReadStaging(o)
           \/ AlreadyCommitted(o) \/ Crash(o)
  <2>1. UNCHANGED <<main, staging, runs, view, rows, patches, repo>>
    BY <1>2 DEF SyncSecrets, ReadKeys, NothingStaged, ReadStaging, AlreadyCommitted,
                Crash
  <2>2. \A s \in Staged' : s \in Staged \/ s.stamp = 0
    BY <1>1, <1>2, <2>1, PassCopies, Members
    DEF NothingStaged, AlreadyCommitted, Crash
  <2>. QED
    BY <1>1, <2>1, <2>2, ReplicaSteady
<1>3. CASE Failover(o)
  <2>1. UNCHANGED <<main, staging, seen, hand, runs, view, rows, patches, repo>>
    BY <1>3 DEF Failover
  <2>. QED
    BY <1>1, <2>1, ReplicaSteady DEF Staged
<1>4. CASE CreateStaging(o)
  <2>1. UNCHANGED <<main, runs, view, rows, patches, repo>> /\ EndPass(o)
    BY <1>4 DEF CreateStaging
  <2>2. CASE staging = Gone
    <3>1. staging'.stamp = 0 /\ staging'.data = Empty /\ staging.stamp = 0
      BY <1>4, <2>2 DEF CreateStaging, Gone
    <3>2. \A s \in Staged' : s \in Staged \/ s.stamp = 0
      BY <1>1, <2>1, <3>1, PassCopies
    <3>3. \A s \in Staged : s.stamp = staging.stamp => ~ Offered(s)
      BY <1>1, <3>1 DEF Offered
    <3>. QED
      BY <1>1, <2>1, <2>2, <3>1, <3>2, <3>3, StagingSteady
  <2>3. CASE staging # Gone
    <3>1. staging' = staging
      BY <1>4, <2>3 DEF CreateStaging
    <3>. QED
      BY <1>1, <2>1, <3>1, PassCopies, Members, ReplicaSteady
  <2>. QED
    BY <2>2, <2>3
<1>5. CASE RejectStaged(o) \/ DeleteStaging(o)
  <2>1. UNCHANGED <<main, runs, view, rows, patches, repo>> /\ EndPass(o)
    BY <1>5 DEF RejectStaged, DeleteStaging
  <2>2. pc[o] \in {"commit", "delete"}
    BY <1>5 DEF RejectStaged, DeleteStaging
  <2>3. CASE staging = hand[o].staging
    <3>1. staging.stamp # 0
      BY <1>1, <2>2, <2>3, Stamps DEF OrderOf
    <3>2. staging'.stamp = 0 /\ staging'.data = Empty
      <4>1. DOMAIN staging = {"uid", "data", "stamp"}
        BY <1>1 DEF IInv, Shape
      <4>2. CASE RejectStaged(o)
        <5>1. staging' = [staging EXCEPT !.data = Empty, !.stamp = 0]
          BY <2>3, <4>2 DEF RejectStaged
        <5>. QED
          BY <4>1, <5>1
      <4>3. CASE DeleteStaging(o)
        BY <2>3, <4>3 DEF DeleteStaging, Gone
      <4>. QED
        BY <1>5, <4>2, <4>3
    <3>3. \A s \in Staged' : s \in Staged \/ s.stamp = 0
      BY <1>1, <2>1, <3>2, PassCopies
    <3>4. ASSUME NEW s \in Staged, s.stamp = staging.stamp PROVE ~ Offered(s)
      <4>1. s.data = staging.data
        BY <1>1, <3>1, <3>4, Members DEF IInv, Agree
      <4>2. CASE RejectStaged(o)
        BY <2>3, <4>1, <4>2 DEF RejectStaged, Accepts, Offered
      <4>3. CASE DeleteStaging(o)
        <5>1. staging.stamp <= main.stamp
          BY <1>1, <2>3, <4>3, Stamps DEF DeleteStaging, OrderOf
        <5>. QED
          BY <1>1, <3>4, <5>1, Stamps DEF Offered
      <4>. QED
        BY <1>5, <4>2, <4>3
    <3>. QED
      BY <1>1, <2>1, <3>1, <3>2, <3>3, <3>4, StagingSteady
  <2>4. CASE staging # hand[o].staging
    <3>1. staging' = staging
      BY <1>5, <2>4 DEF RejectStaged, DeleteStaging
    <3>. QED
      BY <1>1, <2>1, <3>1, PassCopies, Members, ReplicaSteady
  <2>. QED
    BY <2>3, <2>4
<1>6. CASE UpdateMain(o)
  <2>1. CASE main = hand[o].main
    BY <1>6, <2>1, CommitSteady
  <2>2. CASE main # hand[o].main
    <3>1. UNCHANGED <<main, staging, runs, view, rows, patches, repo>> /\ EndPass(o)
      BY <1>6, <2>2 DEF UpdateMain
    <3>. QED
      BY <1>1, <3>1, PassCopies, Members, ReplicaSteady
  <2>. QED
    BY <2>1, <2>2
<1>7. CASE CreateKeysSecret(o)
  <2>. DEFINE k == [i \in 0 .. MaxActive - 1 |-> fresh + i]
  <2>1. /\ UNCHANGED <<staging, runs, view, rows, patches, repo, seen, hand>>
        /\ main = Absent /\ main' = [keys |-> k, stamp |-> 0]
    BY <1>7 DEF CreateKeysSecret
  <2>2. WellFormed(k)
    <3>1. /\ MaxActive - 1 \in Nat \ {0} /\ {0, MaxActive - 1} \subseteq DOMAIN k
          /\ DOMAIN k \subseteq 0 .. MaxActive - 1
      BY KeyAssumption
    <3>. HIDE DEF k
    <3>. QED
      BY <3>1 DEF WellFormed
  <2>3. k # Empty /\ Primary(k) \in Range(k)
    BY <2>2, InUseKnown DEF InUse
  <2>. HIDE DEF k
  <2>4. /\ patches = 0 /\ rows = {} /\ \A p \in repo.pods : view[p] = Empty
        /\ \A r \in repo.runs : ~ Working(r)
    BY <1>1, <2>1 DEF Steady, Frame
  <2>5. \A v \in Views' : v \in {k, Empty}
    BY <2>1, <2>4 DEF Views
  <2>6. Understood(Views)' /\ Readable(Views)'
    BY <2>1, <2>2, <2>3, <2>4, <2>5 DEF Understood, Readable
  <2>7. \A s \in Staged' : ~ Offered(s)'
    <3>1. \A s \in Staged' : s.stamp = 0
      BY <1>1, <2>1, <2>4 DEF Staged, IInv, Shape
    <3>. QED
      BY <2>1, <3>1 DEF Offered
  <2>8. Frame'
    <3>1. main'.keys = k
      BY <2>1
    <3>2. main' # Absent
      BY <2>3, <3>1 DEF Absent
    <3>. QED
      BY <1>1, <2>1, <2>3, <3>1, <3>2 DEF Steady, Frame
  <2>. QED
    BY <2>1, <2>4, <2>6, <2>7, <2>8 DEF Steady, Working
<1>. QED
  BY <1>2, <1>3, <1>4, <1>5, <1>6, <1>7 DEF Pass

-----------------------------------------------------------------------------
(* The steps of a Job and of a pod, in the steady state.                    *)

\* What a working Job relies on.
LEMMA WhileWorking ==
  ASSUME SInv, Undisturbed, NEW r \in repo.runs, Working(r)
  PROVE  /\ IInv /\ Steady /\ WorksAlone(r) /\ main # Absent
         /\ WellFormed(main.keys) /\ rows \subseteq Range(main.keys)
         /\ DOMAIN runs = repo.runs /\ DOMAIN runs[r] = {"st", "keys"}
         /\ \A s \in Staged : ~ Offered(s)
<1>1. IInv /\ Steady /\ WorksAlone(r)
  BY DEF SInv, Steady
<1>2. main # Absent /\ main.keys # Empty
  BY <1>1 DEF Steady, Frame
<1>3. WellFormed(main.keys) /\ rows \subseteq Range(main.keys)
  BY <1>1, <1>2 DEF Steady, Readable, Views
<1>4. \A s \in Staged : ~ Offered(s)
  BY <1>1, OffersNone
<1>. QED
  BY <1>1, <1>2, <1>3, <1>4 DEF Steady, Frame

\* A Job moves on, no other being at work and nothing being offered.
LEMMA JobSteady ==
  ASSUME SInv, Undisturbed, NEW r \in repo.runs,
         UNCHANGED <<main, staging, seen, hand, view, patches, repo>>,
         DOMAIN runs' = repo.runs, DOMAIN runs'[r] = {"st", "keys"},
         \A q \in repo.runs \ {r} : runs'[q] = runs[q] /\ ~ Working(q),
         \A s \in Staged : ~ Offered(s),
         main # Absent, ~ repo.migrates => rows' = {},
         rows' \subseteq Range(main.keys), Readable(Views)',
         Working(r)' => WorksAlone(r)'
  PROVE  Steady'
<1>1. Steady
  BY DEF SInv
<1>2. Frame'
  BY <1>1 DEF Steady, Frame, Working
<1>3. Understood(Views)'
  BY <1>1 DEF Steady, Understood, Views
<1>4. \A s \in Staged' : ~ Offered(s)'
  BY DEF Staged, Offered
<1>5. ASSUME NEW q \in repo.runs', Working(q)' PROVE WorksAlone(q)'
  BY <1>5 DEF Working
<1>. QED
  BY <1>2, <1>3, <1>4, <1>5 DEF Steady

LEMMA StartSteady ==
  ASSUME SInv, Undisturbed, NEW r \in repo.runs, StartRun(r)
  PROVE  Steady'
<1>1. IInv /\ Steady /\ Quiet /\ main # Absent
  BY DEF SInv, Undisturbed, StartRun
<1>2. /\ UNCHANGED <<main, staging, seen, hand, view, rows, patches, repo>>
      /\ runs' = [runs EXCEPT ![r] = [st |-> "copied", keys |-> main.keys]]
  BY DEF StartRun, secrets, operator
<1>3. /\ DOMAIN runs = repo.runs /\ main.keys # Empty
      /\ ~ repo.migrates => rows = {}
  BY <1>1 DEF Steady, Frame
<1>4. /\ DOMAIN runs' = repo.runs /\ DOMAIN runs'[r] = {"st", "keys"}
      /\ runs'[r].st = "copied" /\ runs'[r].keys = main.keys
      /\ \A q \in repo.runs \ {r} : runs'[q] = runs[q] /\ ~ Working(q)
  BY <1>1, <1>2, <1>3 DEF Quiet, Working
<1>5. \A s \in Staged : ~ Offered(s)
  BY <1>1, OffersNone DEF Quiet
<1>6. rows \subseteq Range(main.keys) /\ Readable(Views)'
  BY <1>1, <1>2, <1>3 DEF Steady, Readable, Views
<1>7. WorksAlone(r)'
  BY <1>1, <1>2, <1>4 DEF WorksAlone, Working, AllInView, Quiet
<1>. QED
  BY <1>1, <1>2, <1>3, <1>4, <1>5, <1>6, <1>7, JobSteady

LEMMA RotateSteady ==
  ASSUME SInv, Undisturbed, NEW r \in repo.runs, RotateRun(r)
  PROVE  Steady'
<1>. DEFINE l == Rotated(runs[r].keys, fresh)
<1>1. /\ UNCHANGED <<main, staging, seen, hand, view, rows, patches, repo>>
      /\ runs' = [runs EXCEPT ![r] = [st |-> "rotated", keys |-> l]]
      /\ Working(r) /\ runs[r].st = "copied"
      /\ repo.migrates => rows \subseteq {Primary(runs[r].keys)}
  BY DEF RotateRun, secrets, operator, Working
<1>2. /\ WorksAlone(r) /\ WellFormed(main.keys) /\ Steady /\ main # Absent
      /\ DOMAIN runs = repo.runs /\ rows \subseteq Range(main.keys)
      /\ \A s \in Staged : ~ Offered(s)
  BY <1>1, WhileWorking
<1>3. runs[r].keys = main.keys
  BY <1>1, <1>2 DEF WorksAlone
<1>4. Rotation(main.keys, l)
  BY <1>2, <1>3, RotatedIs DEF Rotation
<1>. HIDE DEF l
<1>5. /\ DOMAIN runs' = repo.runs /\ DOMAIN runs'[r] = {"st", "keys"}
      /\ runs'[r].st = "rotated" /\ runs'[r].keys = l
      /\ \A q \in repo.runs \ {r} : runs'[q] = runs[q] /\ ~ Working(q)
  BY <1>1, <1>2 DEF WorksAlone
<1>6. ~ repo.migrates => rows = {}
  BY <1>2 DEF Steady, Frame
<1>7. rows \subseteq InUse(main.keys)
  BY <1>1, <1>3, <1>6, KeyAssumption DEF InUse, SInv
<1>8. Readable(Views)'
  BY <1>1, <1>2 DEF Steady, Readable, Views
<1>9. WorksAlone(r)'
  BY <1>1, <1>2, <1>4, <1>5, <1>7 DEF WorksAlone, Working, AllInView
<1>. QED
  BY <1>1, <1>2, <1>5, <1>6, <1>8, <1>9, JobSteady

\* credential_migrate moves the rows to the key that every pod has staged.
LEMMA MigrateSteady ==
  ASSUME SInv, Undisturbed, NEW r \in repo.runs, MigrateRun(r)
  PROVE  Steady'
<1>. DEFINE k == main.keys
<1>1. /\ UNCHANGED <<main, staging, seen, hand, view, patches, repo>>
      /\ runs' = [runs EXCEPT ![r].st = "migrated"]
      /\ Working(r) /\ runs[r].st = "rotated" /\ repo.migrates
      /\ rows' = IF rows = {} THEN {} ELSE {Primary(runs[r].keys)}
  BY DEF MigrateRun, secrets, operator, Working
<1>2. /\ WorksAlone(r) /\ WellFormed(k) /\ Steady /\ main # Absent
      /\ DOMAIN runs = repo.runs /\ DOMAIN runs[r] = {"st", "keys"}
      /\ \A s \in Staged : ~ Offered(s)
  BY <1>1, WhileWorking
<1>3. Rotation(k, runs[r].keys) /\ AllInView
  BY <1>1, <1>2 DEF WorksAlone
<1>4. rows' \subseteq InUse(k) /\ rows' \subseteq Range(k)
  BY <1>1, <1>2, <1>3, RotationIs, InUseKnown DEF InUse
<1>5. /\ DOMAIN runs' = repo.runs /\ DOMAIN runs'[r] = {"st", "keys"}
      /\ runs'[r].st = "migrated" /\ runs'[r].keys = runs[r].keys
      /\ \A q \in repo.runs \ {r} : runs'[q] = runs[q] /\ ~ Working(q)
  BY <1>1, <1>2 DEF WorksAlone
<1>6. Readable(Views)'
  <2>1. \A v \in Views' : v = k
    BY <1>1, <1>3 DEF Views, AllInView
  <2>. QED
    BY <1>2, <1>4, <2>1 DEF Readable
<1>7. WorksAlone(r)'
  BY <1>1, <1>2, <1>3, <1>4, <1>5 DEF WorksAlone, Working, AllInView
<1>. QED
  BY <1>1, <1>2, <1>4, <1>5, <1>6, <1>7, JobSteady

LEMMA DiesSteady ==
  ASSUME SInv, Undisturbed, NEW r \in repo.runs, RunDies(r)
  PROVE  Steady'
<1>1. /\ UNCHANGED <<main, staging, seen, hand, view, rows, patches, repo>>
      /\ runs' = [runs EXCEPT ![r] = [st |-> "ended", keys |-> Empty]]
      /\ Working(r)
  BY DEF RunDies, secrets, operator, Working
<1>2. /\ WorksAlone(r) /\ Steady /\ main # Absent /\ DOMAIN runs = repo.runs
      /\ rows \subseteq Range(main.keys) /\ \A s \in Staged : ~ Offered(s)
  BY <1>1, WhileWorking
<1>3. /\ DOMAIN runs' = repo.runs /\ DOMAIN runs'[r] = {"st", "keys"}
      /\ ~ Working(r)'
      /\ \A q \in repo.runs \ {r} : runs'[q] = runs[q] /\ ~ Working(q)
  BY <1>1, <1>2 DEF WorksAlone, Working
<1>4. Readable(Views)' /\ (~ repo.migrates => rows = {})
  BY <1>1, <1>2 DEF Steady, Readable, Views, Frame
<1>. QED
  BY <1>1, <1>2, <1>3, <1>4, JobSteady

\* The PATCH offers the next rotation, which no other payload then competes
\* with, and the Job is over.
LEMMA PatchSteady ==
  ASSUME SInv, Undisturbed, NEW r \in repo.runs, PatchRun(r)
  PROVE  Steady'
<1>. DEFINE l == runs[r].keys
<1>1. /\ UNCHANGED <<main, seen, hand, view, rows, repo>>
      /\ runs' = [runs EXCEPT ![r] = [st |-> "ended", keys |-> Empty]]
      /\ patches' = patches + 1
      /\ staging' = [staging EXCEPT !.data = Merged(l, @), !.stamp = patches + 1]
      /\ Working(r) /\ runs[r].st # "copied"
  BY KeyAssumption DEF PatchRun, Patch, operator, Computed, Working, SInv
<1>2. /\ IInv /\ Steady /\ WorksAlone(r) /\ WellFormed(main.keys)
      /\ main # Absent /\ DOMAIN runs = repo.runs
      /\ \A s \in Staged : ~ Offered(s)
  BY <1>1, WhileWorking
<1>3. /\ Rotation(main.keys, l) /\ rows \subseteq InUse(main.keys) /\ AllInView
      /\ staging.stamp = 0
  BY <1>1, <1>2 DEF WorksAlone
<1>4. staging.data = Empty /\ DOMAIN staging = {"uid", "data", "stamp"}
  BY <1>2, <1>3 DEF Steady, Frame, IInv, Shape
<1>5. staging'.data = l /\ staging'.stamp = patches + 1 /\ patches \in Nat
  <2>1. Merged(l, Empty) = l
    BY <1>2, <1>3, RotationIs
  <2>. QED
    BY <1>1, <1>2, <1>4, <2>1, Stamps DEF IInv, Shape
<1>6. \A q \in repo.runs : ~ Working(q)'
  BY <1>1, <1>2 DEF WorksAlone, Working
<1>7. Frame'
  <2>1. \A q \in repo.runs : DOMAIN runs'[q] = {"st", "keys"}
    BY <1>1, <1>2 DEF Steady, Frame
  <2>2. DOMAIN runs' = repo.runs /\ staging'.stamp # 0
    BY <1>1, <1>2, <1>5
  <2>. QED
    BY <1>1, <1>2, <1>6, <2>1, <2>2 DEF Steady, Frame
<1>8. Understood(Views)' /\ Readable(Views)'
  BY <1>1, <1>2 DEF Steady, Understood, Readable, Views
<1>9. ASSUME NEW s \in Staged', Offered(s)' PROVE OfferIsNext(s)'
  <2>1. s = staging'
    <3>1. s \in Staged \/ s = staging'
      BY <1>1 DEF Staged
    <3>. QED
      BY <1>1, <1>2, <1>9, <3>1 DEF Offered
  <2>. QED
    BY <1>1, <1>3, <1>5, <2>1 DEF OfferIsNext, AllInView
<1>. QED
  BY <1>1, <1>6, <1>7, <1>8, <1>9 DEF Steady

LEMMA RunsSteady ==
  ASSUME SInv, Undisturbed, NEW r \in repo.runs,
         StartRun(r) \/ RunStep(r) \/ PatchFails(r) \/ RunDies(r)
  PROVE  Steady'
<1>1. ~ PatchFails(r)
  BY DEF PatchFails, Undisturbed, SInv
<1>. QED
  BY <1>1, StartSteady, RotateSteady, MigrateSteady, PatchSteady, DiesSteady
  DEF RunStep

LEMMA ProjectSteady ==
  ASSUME SInv, Undisturbed, NEW p \in repo.pods, Project(p)
  PROVE  Steady'
<1>1. /\ UNCHANGED <<main, staging, seen, hand, runs, rows, patches, repo>>
      /\ view[p] # main.keys /\ view' = [view EXCEPT ![p] = main.keys]
  BY DEF Project, secrets, operator, jobs
<1>2. Steady /\ ~ AllInView
  BY <1>1 DEF SInv, AllInView
<1>3. /\ DOMAIN view' = repo.pods
      /\ \A q \in repo.pods : view'[q] \in {view[q], main.keys}
  BY <1>1, <1>2 DEF Steady, Frame
<1>4. Views' \subseteq Views
  BY <1>1, <1>3 DEF Views
<1>5. Frame'
  <2>1. main # Absent
    BY <1>1, <1>2 DEF Steady, Frame, Absent
  <2>. QED
    BY <1>1, <1>2, <1>3, <2>1 DEF Steady, Frame
<1>6. Understood(Views)' /\ Readable(Views)'
  BY <1>1, <1>2, <1>4 DEF Steady, Understood, Readable
<1>7. \A r \in repo.runs : ~ Working(r)'
  BY <1>1, <1>2 DEF Steady, WorksAlone, Working
<1>8. \A s \in Staged' : ~ Offered(s)'
  BY <1>1, <1>2 DEF Steady, OfferIsNext, Offered, Staged
<1>. QED
  BY <1>1, <1>5, <1>6, <1>7, <1>8 DEF Steady

LEMMA StoreSteady ==
  ASSUME SInv, Undisturbed, NEW p \in repo.pods, StoreCredential(p)
  PROVE  Steady'
<1>. DEFINE new == Primary(view[p])
<1>1. /\ UNCHANGED <<main, staging, seen, hand, runs, view, patches, repo>>
      /\ repo.migrates /\ view[p] # Empty /\ rows' = rows \union {new}
  BY DEF StoreCredential, secrets, operator, jobs
<1>2. Steady /\ main # Absent /\ view[p] \in Views
  BY <1>1 DEF SInv, Steady, Frame, Views
<1>3. Frame'
  BY <1>1, <1>2 DEF Steady, Frame, Working
<1>4. Understood(Views)'
  BY <1>1, <1>2 DEF Steady, Understood, Views
<1>5. \A v \in Views : v # Empty => new \in Range(v)
  BY <1>1, <1>2 DEF Steady, Understood
<1>6. Readable(Views)'
  <2>1. Views' = Views
    BY <1>1 DEF Views
  <2>. QED
    BY <1>1, <1>2, <1>5, <2>1 DEF Steady, Readable
<1>7. AllInView => new \in InUse(main.keys)
  BY DEF AllInView, InUse
<1>. HIDE DEF new
<1>8. ASSUME NEW r \in repo.runs', Working(r)' PROVE WorksAlone(r)'
  BY <1>1, <1>2, <1>7, <1>8 DEF Steady, WorksAlone, Working, AllInView
<1>9. ASSUME NEW s \in Staged', Offered(s)' PROVE OfferIsNext(s)'
  BY <1>1, <1>2, <1>7, <1>9 DEF Steady, OfferIsNext, Offered, AllInView, Staged
<1>. QED
  BY <1>3, <1>4, <1>6, <1>8, <1>9 DEF Steady

-----------------------------------------------------------------------------

LEMMA SteadyStep == SInv /\ [Next]_vars => SInv'
<1> SUFFICES ASSUME SInv, [Next]_vars PROVE SInv'
  OBVIOUS
<1>. USE DEF secrets, operator, jobs
<1>1. IInv'
  BY InvariantStep DEF SInv
<1>2. repo' = repo /\ failures' \in Nat
  <2>1. ASSUME NEW o \in Operators,
               Pass(o) \/ SyncSecrets(o) \/ Crash(o) \/ Failover(o)
        PROVE  UNCHANGED <<repo, failures>>
    BY <2>1 DEF Pass, ReadKeys, CreateKeysSecret, CreateStaging, NothingStaged,
       ReadStaging, RejectStaged, UpdateMain, AlreadyCommitted, DeleteStaging,
       SyncSecrets, Crash, Failover
  <2>2. ASSUME NEW r \in repo.runs,
               StartRun(r) \/ RunStep(r) \/ PatchFails(r) \/ RunDies(r)
        PROVE  repo' = repo /\ failures' \in {failures, failures + 1}
    BY <2>2 DEF StartRun, RunStep, RotateRun, MigrateRun, PatchRun, PatchFails,
       RunDies
  <2>3. ASSUME NEW p \in repo.pods, Project(p) \/ StoreCredential(p)
        PROVE  UNCHANGED <<repo, failures>>
    BY <2>3 DEF Project, StoreCredential
  <2>4. failures \in Nat
    BY DEF SInv
  <2>. QED
    BY <2>1, <2>2, <2>3, <2>4 DEF Next, vars
<1>3. ASSUME Undisturbed PROVE Steady'
  <2>1. CASE UNCHANGED vars
    BY <1>3, <2>1 DEF vars, SInv, Steady, Frame, Understood, Readable, Views,
       Working, WorksAlone, AllInView, Staged, Offered, OfferIsNext
  <2>. QED
    BY <1>3, <2>1, PassSteady, RunsSteady, ProjectSteady, StoreSteady DEF Next
<1>. QED
  BY <1>1, <1>2, <1>3 DEF SInv, Undisturbed

LEMMA SteadyHolds == Spec => []SInv
  BY SteadyStart, SteadyStep, PTL DEF Spec

\* A repository whose pods are modelled is one that nothing disturbs: Jobs
\* start in the steady state and their PATCHes arrive.
LEMMA ServedIsSteady ==
  ASSUME \A r \in Repositories : r.pods # {} => r.quiet /\ r.failures = 0,
         SInv, NEW p \in repo.pods
  PROVE  Steady /\ view[p] \in Views
  BY DEF SInv, Undisturbed, Views

\* A token that any API pod issues is accepted by every other one, also while
\* the kubelets refresh the projected keys one pod at a time and the operator
\* crashes or changes leader, for any number of pods, of Jobs and of active
\* keys: where Jobs start in the steady state and no PATCH is retried.
THEOREM TokensAlwaysValid ==
  ASSUME \A r \in Repositories : r.pods # {} => r.quiet /\ r.failures = 0
  PROVE  Spec => []TokensValidEverywhere
<1>1. SInv => TokensValidEverywhere
  BY ServedIsSteady DEF TokensValidEverywhere, Steady, Understood
<1>. QED
  BY <1>1, SteadyHolds, PTL

\* Every API pod can decrypt every stored credential, before, between and
\* after credential_migrate, the swap and the refresh, under the same two
\* conditions: the rows are always under keys that every projected repository
\* still has.
THEOREM CredentialsAlwaysReadable ==
  ASSUME \A r \in Repositories : r.pods # {} => r.quiet /\ r.failures = 0
  PROVE  Spec => []CredentialsReadable
<1>1. SInv => CredentialsReadable
  BY ServedIsSteady DEF CredentialsReadable, Steady, Readable
<1>. QED
  BY <1>1, SteadyHolds, PTL
=============================================================================
