---------------------------- MODULE TeardownProofs ----------------------------
(***************************************************************************)
(* What the teardown of a ControlPlane guarantees, for any namespaces,     *)
(* accounts and placements of the services, and any number of troubles:    *)
(* what it leaves is named, an orderly release forgets nothing, no store   *)
(* is taken from a service that needs it, nothing of others is deleted.    *)
(***************************************************************************)
EXTENDS Teardown, TLAPS

Stages == {"idle", "namespaces", "objects", "children", "korc", "accounts"}
Phases == {"absent", "live", "dying"}
Owners == {"none", "ours", "theirs"}

ControlPlanes ==
  [declared : SUBSET Accounts, held : BOOLEAN, deleting : BOOLEAN,
   gone : BOOLEAN, stalled : BOOLEAN]
Left == Seq(Everywhere \union Services)
Passes == [at : Stages, sees : SUBSET Accounts, left : Left]
Labelled == [owner : Owners, going : BOOLEAN]
Kinds == {"store", "residue"} \union Accounts
Stocks == [Kinds -> Owners]

Types ==
  /\ cp \in ControlPlanes /\ pass \in Passes
  /\ orc \in [orcObjects -> Phases]
  /\ rows \subseteq managed /\ minted \in BOOLEAN
  /\ push \in [Accounts \union {"admin"} -> Phases]
  /\ bao \subseteq Accounts \union {"admin"}
  /\ place \in [Services -> Everywhere \union {Nowhere}]
  /\ life \in [Namespaces -> {"Managed", "External"}]
  /\ space \in [Everywhere -> Labelled] /\ objs \in [Everywhere -> Stocks]
  /\ child \in [Services -> Phases] /\ keys \in BOOLEAN
  /\ trouble \in Nat /\ refused \in BOOLEAN

\* Without the finalizer no pass has worked, there is nothing yet, and a
\* deletion ends at once.
Fresh ==
  ~ cp.held =>
    /\ pass.at = "idle" /\ rows = {} /\ bao = {} /\ (cp.deleting => cp.gone)
    /\ Present(orc) = {} /\ Present(push) = {} /\ Present(child) = {}
    /\ \A n \in Everywhere, x \in Kinds : objs[n][x] # "ours"

\* After the release no pass works, and nothing is left from which K-ORC or
\* External Secrets would make anything again.
Quiet ==
  cp.gone => /\ cp.deleting /\ pass.at = "idle"
             /\ managed \intersect Present(orc) = {} /\ Present(push) = {}

\* What exists in OpenStack and OpenBao is held by an object, or was named
\* when its finalizer was forced.
Backed ==
  /\ ~ refused => rows \subseteq Present(orc) \union named
  /\ \A p \in bao : p \in Present(push) \/ Path(p) \in named

\* Objects are in a namespace that exists, Keystone's keys with a Keystone.
Housed ==
  \A n \in Everywhere, x \in Kinds : objs[n][x] # "none" => Exists(n)
KeysHeld == keys => "keystone" \in Present(child)

\* An account's credentials are where the sweep looks for them.
Delivery ==
  \A n \in Everywhere, a \in Accounts :
    objs[n][a] = "ours" => serviceAccountDeliveryNamespace = n

TInv ==
  Types /\ Fresh /\ Quiet /\ Backed /\ Housed /\ KeysHeld /\ Delivery /\ OrderlyIsClean

-----------------------------------------------------------------------------
(* The operators the model is built from.                                  *)

LEMMA Handled ==
  ASSUME NEW D, NEW f \in [D -> Phases], NEW S
  PROVE  /\ Condemn(f, S) \in [D -> Phases] /\ Present(Condemn(f, S)) = Present(f)
         /\ Drop(f, S) \in [D -> Phases] /\ Present(Drop(f, S)) = Present(f) \ S
         /\ Create(f, S) \in [D -> Phases]
         /\ Present(Create(f, S)) = Present(f) \union (D \intersect S)
BY DEF Condemn, Drop, Create, Present, Absent, Phases

LEMMA PresentIs ==
  ASSUME NEW D, NEW f \in [D -> Phases], NEW x \in D
  PROVE  x \in Present(f) <=> f[x] \in {"live", "dying"}
BY DEF Present, Absent, Phases

LEMMA FieldSet ==
  /\ \A c \in ControlPlanes, b \in BOOLEAN :
       /\ [c EXCEPT !.held = b] \in ControlPlanes
       /\ [c EXCEPT !.gone = b] \in ControlPlanes
       /\ [c EXCEPT !.stalled = b] \in ControlPlanes
       /\ \A d \in BOOLEAN :
            [c EXCEPT !.deleting = d, !.gone = b] \in ControlPlanes
  /\ \A c \in ControlPlanes, D \in SUBSET Accounts :
       [c EXCEPT !.declared = D] \in ControlPlanes
  /\ \A l \in Labelled, b \in BOOLEAN : [l EXCEPT !.going = b] \in Labelled
BY DEF ControlPlanes, Labelled

\* The kinds of objects, and what may be done to a stock of them.
LEMMA Stocked ==
  /\ DOMAIN NoObjects = Kinds /\ "store" \notin Accounts /\ NoObjects \in Stocks
  /\ \A o \in Stocks, w \in Owners :
       /\ \A x \in Kinds : [o EXCEPT ![x] = w] \in Stocks
       /\ \A v \in Owners : [o EXCEPT !.residue = w, !.store = v] \in Stocks
BY TeardownAssumption DEF Stocks, NoObjects, Kinds, Owners

LEMMA Placed ==
  ASSUME Types
  PROVE  /\ DedicatedServiceNamespaces \in Seq(Namespaces)
         /\ Dedicated \subseteq Namespaces
         /\ Home \notin Namespaces /\ Nowhere \notin Everywhere
<1>1. DedicatedServiceNamespaces \in Seq(Namespaces)
  BY DEF DedicatedServiceNamespaces, Types
<1>2. \A s \in Seq(Namespaces) : ToSet(s) \subseteq Namespaces
  BY DEF ToSet
<1>. QED
  BY <1>1, <1>2, TeardownAssumption DEF Dedicated, Home, Nowhere, Everywhere

\* A sweep takes only what is the ControlPlane's.
LEMMA SweepIs ==
  ASSUME NEW n, objs[n] \in Stocks, NEW missed
  PROVE  /\ sweepExternalNamespaceResidue(n, missed) \in Stocks
         /\ \A x \in Kinds :
              sweepExternalNamespaceResidue(n, missed)[x] =
                IF x \in residueObjects(n) /\ objs[n][x] = "ours" /\ <<n, x>> \notin missed
                THEN "none" ELSE objs[n][x]
<1>. DEFINE f == [x \in Kinds |->
                   IF x \in residueObjects(n) /\ objs[n][x] = "ours" /\ <<n, x>> \notin missed
                   THEN "none" ELSE objs[n][x]]
<1>1. sweepExternalNamespaceResidue(n, missed) = f
  BY Stocked DEF sweepExternalNamespaceResidue
<1>2. f \in Stocks
  BY DEF Stocks, Owners
<1>. QED
  BY <1>1, <1>2

LEMMA Collected ==
  ASSUME Types, NEW n \in Everywhere, CollectObjects(n)
  PROVE  /\ Leaving(n)
         /\ \E S : objs' = [objs EXCEPT ![n] =
                              [x \in Kinds |-> IF x \in S THEN "none" ELSE objs[n][x]]]
<1>1. PICK S : objs' = [objs EXCEPT ![n] =
                  [x \in DOMAIN NoObjects |-> IF x \in S THEN "none" ELSE objs[n][x]]]
  BY DEF CollectObjects, Types
<1>2. DOMAIN NoObjects = Kinds
  BY Stocked
<1>3. Leaving(n)
  BY DEF CollectObjects
<1>. QED
  BY <1>1, <1>2, <1>3

LEMMA Occupied ==
  ASSUME NEW n, OccupyObject(n)
  PROVE  \E x \in Kinds : objs[n][x] = "none" /\ objs' = [objs EXCEPT ![n][x] = "theirs"]
BY Stocked DEF OccupyObject

LEMMA Objects == managed \subseteq orcObjects /\ AdminImports \subseteq orcObjects
BY DEF managed, orcObjects, AdminImports

-----------------------------------------------------------------------------
(* Types.                                                                   *)

LEMMA TypesAtFirst == Init => Types
<1>. SUFFICES ASSUME Init PROVE Types
  OBVIOUS
<1>1. place \in [Services -> Everywhere \union {Nowhere}]
  BY TeardownAssumption DEF Init, Services, Everywhere, Home, Nowhere
<1>2. Idle \in Passes
  BY DEF Idle, Stages, Passes, Left
<1>3. space \in [Everywhere -> Labelled]
  BY DEF Init, Owners, Labelled
<1>4. objs \in [Everywhere -> Stocks]
  BY Stocked DEF Init
<1>. QED
  BY <1>1, <1>2, <1>3, <1>4 DEF Init, Types, Phases, ControlPlanes

LEMMA PassTypes ==
  ASSUME Types, NEW a \in Stages, NEW l \in Left, Enter(a, l) \/ End
  PROVE  pass' \in Passes
<1>1. Idle \in Passes
  BY DEF Idle, Stages, Passes, Left
<1>2. pass \in Passes
  BY DEF Types
<1>. QED
  BY <1>1, <1>2 DEF Enter, End, Passes

LEMMA Queues ==
  ASSUME Types
  PROVE  /\ << >> \in Left /\ <<"keystone", "horizon">> \in Left
         /\ DedicatedServiceNamespaces \in Left /\ controlPlaneNamespaces \in Left
         /\ pass.left # <<>> => Tail(pass.left) \in Left
<1>1. Seq(Namespaces) \subseteq Left
  BY DEF Left, Everywhere
<1>2. <<Home>> \in Left
  BY DEF Left, Everywhere
<1>3. pass.left \in Left
  BY DEF Types, Passes
<1>4. DedicatedServiceNamespaces \in Left
  BY <1>1, Placed
<1>5. controlPlaneNamespaces \in Left
  BY <1>2, <1>4 DEF controlPlaneNamespaces, Left
<1>6. pass.left # <<>> => Tail(pass.left) \in Left
  BY <1>3 DEF Left
<1>7. << >> \in Left /\ <<"keystone", "horizon">> \in Left
  BY DEF Left, Services
<1>. QED
  BY <1>4, <1>5, <1>6, <1>7

LEMMA LivePassTypes == ASSUME Types, LivePass PROVE Types'
<1>. USE DEF korc, eso, spaces, services, told, bounds
<1>0. cp \in ControlPlanes /\ pass \in Passes /\ space \in [Everywhere -> Labelled]
      /\ objs \in [Everywhere -> Stocks]
  BY DEF Types
<1>1. CASE Begin
  <2>1. cp' \in {cp, [cp EXCEPT !.held = TRUE]}
        /\ (pass' = pass \/ pass' = [at |-> "namespaces", sees |-> cp.declared,
                                     left |-> DedicatedServiceNamespaces])
    BY <1>1 DEF Begin
  <2>2. cp' \in ControlPlanes
    BY <1>0, <2>1, FieldSet
  <2>3. cp.declared \subseteq Accounts
    BY <1>0 DEF ControlPlanes
  <2>4. pass' \in Passes
    BY <1>0, <2>1, <2>3, Queues DEF Passes, Stages
  <2>. QED
    BY <1>1, <2>2, <2>4 DEF Begin, Types
<1>2. CASE reconcileNamespaces
  <2>1. pass' \in Passes
    BY <1>2, Queues, PassTypes DEF reconcileNamespaces, Stages
  <2>2. Labels \in Labelled
    BY DEF Labels, Labelled, Owners
  <2>3. space' = space \/ \E n : space' = [space EXCEPT ![n] = Labels]
    BY <1>2 DEF reconcileNamespaces
  <2>4. space' \in [Everywhere -> Labelled]
    BY <1>0, <2>2, <2>3
  <2>. QED
    BY <1>2, <2>1, <2>4 DEF reconcileNamespaces, Types
<1>3. CASE ensureObjects
  <2>1. pass' \in Passes
    BY <1>3, Queues, PassTypes DEF ensureObjects, Stages
  <2>2. objs' = objs \/ \E n : \E w, v :
          /\ objs' = [objs EXCEPT ![n] = [@ EXCEPT !.residue = w, !.store = v]]
          /\ n \in Everywhere => w \in Owners /\ v \in Owners
    <3>. DEFINE n == Head(pass.left)
                Ours(x) == IF x = "none" THEN "ours" ELSE x
    <3>1. CASE objs' = objs
      BY <3>1
    <3>2. CASE objs' # objs
      <4>1. objs' = [objs EXCEPT ![n].residue = Ours(@), ![n].store = Ours(@)]
        BY <1>3, <3>2 DEF ensureObjects
      <4>2. objs' = [objs EXCEPT ![n] = [@ EXCEPT !.residue = Ours(objs[n].residue),
                                                 !.store = Ours(objs[n].store)]]
        BY <4>1, <1>0
      <4>3. n \in Everywhere => /\ Ours(objs[n].residue) \in Owners
                                /\ Ours(objs[n].store) \in Owners
        BY <1>0 DEF Stocks, Owners, Kinds
      <4>. QED
        BY <4>2, <4>3
    <3>. QED
      BY <3>1, <3>2
  <2>3. objs' \in [Everywhere -> Stocks]
    <3>1. CASE objs' = objs
      BY <1>0, <3>1
    <3>2. ASSUME NEW n, NEW w, NEW v,
                 objs' = [objs EXCEPT ![n] = [@ EXCEPT !.residue = w, !.store = v]],
                 n \in Everywhere => w \in Owners /\ v \in Owners
          PROVE  objs' \in [Everywhere -> Stocks]
      <4>1. n \in Everywhere =>
              [objs[n] EXCEPT !.residue = w, !.store = v] \in Stocks
        BY <1>0, <3>2, Stocked
      <4>. QED
        BY <1>0, <3>2, <4>1
    <3>. QED
      BY <2>2, <3>1, <3>2
  <2>. QED
    BY <1>3, <2>1, <2>3 DEF ensureObjects, Types
<1>4. CASE reconcileChildren
  <2>1. pass' \in Passes
    BY <1>4, Queues, PassTypes DEF reconcileChildren, Stages
  <2>2. child' \in [Services -> Phases]
    BY <1>4, Handled DEF reconcileChildren, Types
  <2>. QED
    BY <1>4, <2>1, <2>2 DEF reconcileChildren, Types
<1>5. CASE reconcileKORC
  <2>1. pass' \in Passes
    BY <1>5, Queues, PassTypes DEF reconcileKORC, Stages
  <2>. QED
    BY <1>5, <2>1, Handled DEF reconcileKORC, Types
<1>6. CASE reconcileServiceAccounts
  <2>1. pass' \in Passes
    BY <1>6, Queues, PassTypes DEF reconcileServiceAccounts, Stages
  <2>2. orc' \in [orcObjects -> Phases]
    BY <1>6, Handled DEF reconcileServiceAccounts, Types
  <2>3. push' \in [Accounts \union {"admin"} -> Phases]
    BY <1>6, Handled DEF reconcileServiceAccounts, Types
  <2>4. objs' \in [Everywhere -> Stocks]
    <3>0. \A m \in Everywhere :
            /\ objs'[m] = [x \in Kinds |-> objs'[m][x]]
            /\ \A x \in Kinds : objs'[m][x] \in {"none", "ours", objs[m][x]}
      BY <1>6, Stocked DEF reconcileServiceAccounts
    <3>1. \A m \in Everywhere : objs'[m] \in Stocks
      <4>1. \A m \in Everywhere, x \in Kinds : objs'[m][x] \in Owners
        BY <1>0, <3>0 DEF Stocks, Owners
      <4>. QED
        BY <3>0, <4>1 DEF Stocks
    <3>2. objs' = [m \in Everywhere |-> objs'[m]]
      BY <1>6 DEF reconcileServiceAccounts
    <3>. QED
      BY <3>1, <3>2
  <2>. QED
    BY <1>6, <2>1, <2>2, <2>3, <2>4 DEF reconcileServiceAccounts, Types
<1>. QED
  BY <1>1, <1>2, <1>3, <1>4, <1>5, <1>6 DEF LivePass

LEMMA DeletionPassTypes ==
  ASSUME Types, DeletionPass \/ EscapeFails \/ ReleaseRefused PROVE Types'
<1>. USE DEF korc, eso, spaces, services, told, bounds, deleteORCResources,
             deleteOwnedPushSecrets, forceRemoveKORCFinalizers, Released
<1>0. cp \in ControlPlanes /\ space \in [Everywhere -> Labelled]
      /\ objs \in [Everywhere -> Stocks]
  BY DEF Types
<1>1. [cp EXCEPT !.gone = TRUE] \in ControlPlanes
  BY <1>0, FieldSet
<1>2. \A S : Drop(Condemn(orc, orcTeardownChildren), S) \in [orcObjects -> Phases]
  BY Handled DEF Types
<1>3. Condemn(orc, orcTeardownChildren) \in [orcObjects -> Phases]
  BY Handled DEF Types
<1>4. /\ Condemn(push, DOMAIN push) \in [Accounts \union {"admin"} -> Phases]
      /\ Drop(push, pushRemaining) \in [Accounts \union {"admin"} -> Phases]
  BY Handled DEF Types
<1>5. ASSUME NEW result \in ControlPlanes, ReleaseTo(result) PROVE Types'
  <2>0. PICK missed \in SUBSET Residue : teardownDedicatedNamespaces(missed)
    BY <1>5 DEF ReleaseTo
  <2>1. child' \in [Services -> Phases]
    BY <2>0, Handled DEF teardownDedicatedNamespaces, Types
  <2>2. \A n \in Everywhere : deleteManagedNamespace(n) \in Labelled
    BY <1>0 DEF deleteManagedNamespace, Labelled
  <2>3. \A n \in Everywhere : sweepExternalNamespaceResidue(n, missed) \in Stocks
    BY <1>0, SweepIs
  <2>4. space' \in [Everywhere -> Labelled] /\ objs' \in [Everywhere -> Stocks]
    BY <1>0, <2>0, <2>2, <2>3 DEF teardownDedicatedNamespaces
  <2>5. cp' \in ControlPlanes /\ trouble' \in Nat /\ refused' \in BOOLEAN
    BY <1>0, <1>5 DEF ReleaseTo, Spends, Types
  <2>. QED
    BY <1>5, <2>1, <2>4, <2>5 DEF ReleaseTo, Types
<1>6. CASE ReleaseImports
  BY <1>2, <1>4, <1>6 DEF ReleaseImports, Types
<1>7. CASE Wait
  BY <1>3, <1>4, <1>7 DEF Wait, Types
<1>8. ASSUME NEW result \in ControlPlanes, EscapeTo(result) PROVE Types'
  BY <1>2, <1>4, <1>8 DEF EscapeTo, Spends, Types
<1>9. CASE EscapeFails
  <2>1. orc' \in [orcObjects -> Phases]
    BY <1>2, <1>9 DEF EscapeFails
  <2>2. trouble' \in Nat /\ refused' = TRUE
    BY <1>9 DEF EscapeFails, Types
  <2>3. /\ push' = Condemn(push, DOMAIN push)
        /\ UNCHANGED <<cp, pass, rows, minted, bao, spaces, services>>
    BY <1>9 DEF EscapeFails
  <2>. QED
    BY <1>4, <2>1, <2>2, <2>3 DEF Types
<1>. QED
  BY <1>0, <1>1, <1>5, <1>6, <1>7, <1>8, <1>9
  DEF DeletionPass, Release, Escape, ReleaseRefused

LEMMA CloudTypes == ASSUME Types, Cloud PROVE Types'
<1>. USE DEF korc, eso, spaces, services, told, bounds
<1>1. ASSUME NEW o \in orcObjects, CreateResource(o) PROVE Types'
  BY <1>1 DEF CreateResource, Types
<1>2. ASSUME NEW o \in orcObjects, FinalizeResource(o) PROVE Types'
  BY <1>2, Handled DEF FinalizeResource, Types
<1>3. ASSUME NEW p \in DOMAIN push, SyncPush(p) PROVE Types'
  BY <1>3 DEF SyncPush, Types
<1>4. ASSUME NEW p \in DOMAIN push, PurgePush(p) PROVE Types'
  BY <1>4, Handled DEF PurgePush, Types
<1>5. CASE MirrorKeys \/ PurgeKeys
  BY <1>5 DEF MirrorKeys, PurgeKeys, Types
<1>6. ASSUME NEW s \in Services, FinalizeChild(s) PROVE Types'
  BY <1>6, Handled DEF FinalizeChild, Types
<1>. QED
  BY <1>1, <1>2, <1>3, <1>4, <1>5, <1>6 DEF Cloud

LEMMA KubernetesTypes == ASSUME Types, Kubernetes PROVE Types'
<1>. USE DEF korc, eso, spaces, services, told, bounds
<1>1. ASSUME NEW s \in Services, CollectChild(s) PROVE Types'
  BY <1>1, Handled DEF CollectChild, Types
<1>2. ASSUME NEW p \in DOMAIN push, CollectPush(p) PROVE Types'
  BY <1>2, Handled DEF CollectPush, Types
<1>3. ASSUME NEW o \in orcObjects, CollectResource(o) PROVE Types'
  BY <1>3, Handled DEF CollectResource, Types
<1>4. ASSUME NEW n \in Everywhere, CollectObjects(n) PROVE Types'
  <2>1. objs[n] \in Stocks
    BY DEF Types
  <2>2. \A S : [x \in Kinds |-> IF x \in S THEN "none" ELSE objs[n][x]] \in Stocks
    BY <2>1 DEF Stocks, Owners
  <2>3. objs' \in [Everywhere -> Stocks]
    <3>1. PICK S : objs' = [objs EXCEPT ![n] =
                      [x \in Kinds |-> IF x \in S THEN "none" ELSE objs[n][x]]]
      BY <1>4, Collected
    <3>. QED
      BY <2>2, <3>1 DEF Types
  <2>. QED
    BY <1>4, <2>3 DEF CollectObjects, Types
<1>5. ASSUME NEW n \in Everywhere, CollectNamespace(n) PROVE Types'
  <2>1. [owner |-> "none", going |-> FALSE] \in Labelled
    BY DEF Labelled, Owners
  <2>. QED
    BY <1>5, <2>1 DEF CollectNamespace, Types
<1>. QED
  BY <1>1, <1>2, <1>3, <1>4, <1>5 DEF Kubernetes

LEMMA WorldTypes == ASSUME Types, World PROVE Types'
<1>. USE DEF korc, eso, spaces, services, told, bounds, Trouble
<1>0. cp \in ControlPlanes
  BY DEF Types
<1>1. CASE Undeclare
  <2>1. PICK a \in cp.declared : cp' = [cp EXCEPT !.declared = @ \ {a}]
    BY <1>1 DEF Undeclare
  <2>2. cp' \in ControlPlanes
    BY <1>0, <2>1 DEF ControlPlanes
  <2>. QED
    BY <1>1, <2>2 DEF Undeclare, Types
<1>2. CASE Delete
  <2>1. cp' \in ControlPlanes
    BY <1>0, <1>2, FieldSet DEF Delete
  <2>. QED
    BY <1>2, <2>1 DEF Delete, Types
<1>3. CASE Stall
  <2>1. cp' \in ControlPlanes
    BY <1>0, <1>3, FieldSet DEF Stall
  <2>. QED
    BY <1>3, <2>1 DEF Stall, Types
<1>4. CASE Outage \/ Recover
  BY <1>4 DEF Outage, Recover, Types
<1>5. ASSUME NEW n \in Namespaces, OccupyNamespace(n) PROVE Types'
  <2>1. [owner |-> "theirs", going |-> FALSE] \in Labelled
    BY DEF Labelled, Owners
  <2>2. space' \in [Everywhere -> Labelled]
    BY <1>5, <2>1 DEF OccupyNamespace, Types
  <2>. QED
    BY <1>5, <2>2 DEF OccupyNamespace, Types
<1>6. ASSUME NEW n \in Namespaces, OccupyObject(n) PROVE Types'
  <2>1. objs[n] \in Stocks
    BY DEF Types, Everywhere
  <2>2. \A x \in Kinds : [objs[n] EXCEPT ![x] = "theirs"] \in Stocks
    BY <2>1, Stocked DEF Owners
  <2>3. objs' \in [Everywhere -> Stocks]
    <3>1. PICK x \in Kinds : objs' = [objs EXCEPT ![n][x] = "theirs"]
      BY <1>6, Occupied
    <3>2. objs' = [objs EXCEPT ![n] = [objs[n] EXCEPT ![x] = "theirs"]]
      BY <3>1 DEF Types, Everywhere
    <3>. QED
      BY <2>2, <3>2 DEF Types
  <2>. QED
    BY <1>6, <2>3 DEF OccupyObject, Types
<1>7. ASSUME NEW n \in Namespaces, DeleteNamespace(n) PROVE Types'
  <2>1. [space[n] EXCEPT !.going = TRUE] \in Labelled
    BY FieldSet DEF Types, Everywhere
  <2>2. space' \in [Everywhere -> Labelled]
    BY <1>7, <2>1 DEF DeleteNamespace, Types
  <2>. QED
    BY <1>7, <2>2 DEF DeleteNamespace, Types
<1>. QED
  BY <1>1, <1>2, <1>3, <1>4, <1>5, <1>6, <1>7 DEF World

LEMMA TypesKept == ASSUME Types, [Next]_vars PROVE Types'
<1>1. CASE UNCHANGED vars
  BY <1>1 DEF vars, korc, eso, spaces, services, told, bounds, Types
<1>. QED
  BY <1>1, LivePassTypes, DeletionPassTypes, CloudTypes, KubernetesTypes,
     WorldTypes DEF Next

-----------------------------------------------------------------------------
(* The invariant, where a live pass works.                                  *)

LEMMA ChildrenAre ==
  ASSUME Types
  PROVE  /\ AllChildren = {s \in Present(child) : place[s] \in Dedicated}
         /\ \A n \in Dedicated : Children(n) = {s \in Present(child) : place[s] = n}
BY DEF AllChildren, Children, crossNamespaceServiceChildren, Types, Present

LEMMA AtFirst == Init => TInv
<1>. SUFFICES ASSUME Init PROVE TInv
  OBVIOUS
<1>1. Types
  BY TypesAtFirst
<1>2. Present(orc) = {} /\ Present(push) = {} /\ Present(child) = {}
  BY DEF Init, Present, Absent
<1>3. cp.held = FALSE /\ cp.gone = FALSE
  BY DEF Init
<1>4. \A n \in Everywhere, x \in Kinds : objs[n][x] = "none"
  BY DEF Init, NoObjects, Kinds
<1>. QED
  BY <1>1, <1>2, <1>3, <1>4
  DEF Init, TInv, Fresh, Quiet, Backed, Housed, KeysHeld, Delivery, Kinds,
      OrderlyIsClean, Idle

\* A pass works only where the finalizer is held and not yet released.
LEMMA PassStep ==
  ASSUME TInv, Types', pass.at # "idle", Housed', Delivery',
         UNCHANGED <<cp, rows, bao, keys, named, refused>>,
         Present(orc) \subseteq Present(orc)',
         Present(push) \subseteq Present(push)',
         Present(child) \subseteq Present(child)'
  PROVE  TInv'
<1>1. cp.held /\ ~ cp.gone
  BY DEF TInv, Fresh, Quiet
<1>. QED
  BY <1>1 DEF TInv, Fresh, Quiet, Backed, KeysHeld, OrderlyIsClean

\* No step moves a service, so the credentials stay where they are looked for.
LEMMA Stays ==
  ASSUME TInv, place' = place,
         \A n \in Everywhere, a \in Accounts :
           objs'[n][a] = "ours" => \/ objs[n][a] = "ours"
                                  \/ n = serviceAccountDeliveryNamespace
  PROVE  Delivery'
BY DEF TInv, Delivery, serviceAccountDeliveryNamespace

LEMMA LivePassKeeps == ASSUME TInv, LivePass PROVE TInv'
<1>. USE DEF korc, eso, spaces, services, told, bounds, Working
<1>0. Types /\ Types'
  BY LivePassTypes DEF TInv
<1>1. CASE Begin
  <2>1. ~ cp.gone /\ ~ cp'.gone /\ cp'.held
    BY <1>0, <1>1 DEF Begin, TInv, Quiet, Types, ControlPlanes
  <2>2. Backed' /\ Housed' /\ KeysHeld' /\ Delivery'
    BY <1>1, Stays DEF Begin, TInv, Backed, Housed, KeysHeld, Exists, Present, Absent
  <2>. QED
    BY <1>0, <2>1, <2>2 DEF TInv, Fresh, Quiet, OrderlyIsClean
<1>2. CASE reconcileNamespaces
  <2>1. \A n \in Everywhere : Exists(n) => Exists(n)'
    BY <1>0, <1>2 DEF reconcileNamespaces, Exists, Types, Labelled, Labels
  <2>2. Housed' /\ Delivery'
    BY <1>2, <2>1, Stays DEF reconcileNamespaces, TInv, Housed
  <2>. QED
    BY <1>0, <1>2, <2>2, PassStep DEF reconcileNamespaces, Present, Absent
<1>3. CASE ensureObjects
  <2>1. \A n \in Everywhere : objs'[n] = objs[n] \/ Exists(n)
    BY <1>0, <1>3 DEF ensureObjects, Usable, Types
  <2>3. \A n \in Everywhere, a \in Accounts : objs'[n][a] = objs[n][a]
    BY <1>0, <1>3, TeardownAssumption DEF ensureObjects, Types, Stocks, Kinds
  <2>2. Housed' /\ Delivery'
    BY <1>3, <2>1, <2>3, Stays DEF ensureObjects, TInv, Housed, Exists
  <2>. QED
    BY <1>0, <1>3, <2>2, PassStep DEF ensureObjects, Present, Absent
<1>4. CASE reconcileChildren
  <2>1. Present(child) \subseteq Present(child)'
    BY <1>0, <1>4, Handled DEF reconcileChildren, Types
  <2>2. Housed' /\ Delivery'
    BY <1>4, Stays DEF reconcileChildren, TInv, Housed, Exists
  <2>. QED
    BY <1>0, <1>4, <2>1, <2>2, PassStep DEF reconcileChildren, Present, Absent
<1>5. CASE reconcileKORC
  <2>1. Present(orc) \subseteq Present(orc)' /\ Present(push) \subseteq Present(push)'
    BY <1>0, <1>5, Handled DEF reconcileKORC, Types
  <2>2. Housed' /\ Delivery'
    BY <1>5, Stays DEF reconcileKORC, TInv, Housed, Exists
  <2>. QED
    BY <1>0, <1>5, <2>1, <2>2, PassStep DEF reconcileKORC, Present, Absent
<1>6. CASE reconcileServiceAccounts
  <2>1. Present(orc) \subseteq Present(orc)'
    <3>1. PICK S, T : orc' = Condemn(Create(orc, S), T)
      BY <1>6 DEF reconcileServiceAccounts
    <3>. QED
      BY <1>0, <3>1, Handled DEF Types
  <2>2. Present(push) \subseteq Present(push)'
    <3>1. PICK S, T : push' = Condemn(Create(push, S), T)
      BY <1>6 DEF reconcileServiceAccounts
    <3>. QED
      BY <1>0, <3>1, Handled DEF Types
  <2>4. Delivery'
    <3>1. \A n \in Everywhere, a \in Accounts :
            objs'[n][a] = "ours" => \/ objs[n][a] = "ours"
                                   \/ n = serviceAccountDeliveryNamespace
      BY <1>6, Stocked DEF reconcileServiceAccounts, Kinds
    <3>. QED
      BY <1>6, <3>1, Stays DEF reconcileServiceAccounts
  <2>3. Housed'
    <3>1. \A n \in Everywhere, x \in Kinds :
            objs'[n][x] # "none" => objs[n][x] # "none" \/ Exists(n)
      BY <1>6, Stocked DEF reconcileServiceAccounts, Usable
    <3>. QED
      BY <1>6, <3>1 DEF reconcileServiceAccounts, TInv, Housed, Exists
  <2>. QED
    BY <1>0, <1>6, <2>1, <2>2, <2>3, <2>4, PassStep
    DEF reconcileServiceAccounts, Present, Absent
<1>. QED
  BY <1>1, <1>2, <1>3, <1>4, <1>5, <1>6 DEF LivePass

-----------------------------------------------------------------------------
(* The invariant, where a deletion pass works.                              *)

LEMMA ManagedAwaited == managed \subseteq orcTeardownChildren
BY DEF managed, orcTeardownChildren, orcChildObjects, ownedServiceAccountChildren

\* The orderly release: nothing is held, and the namespaces are swept.
LEMMA ReleaseIsClean ==
  ASSUME TInv, Types', NEW result \in {Released, cp}, ReleaseTo(result),
         AllChildren = {}
  PROVE  OrderlyIsClean'
<1>0. PICK missed \in SUBSET Residue : teardownDedicatedNamespaces(missed)
  BY DEF ReleaseTo
<1>1. Types /\ Dedicated \subseteq Namespaces /\ Namespaces \subseteq Everywhere
  BY Placed DEF TInv, Everywhere
<1>2. Swept = Dedicated /\ Dedicated' = Dedicated
  BY <1>1, ChildrenAre
  DEF Swept, ReleaseTo, Dedicated, DedicatedServiceNamespaces
<1>3. child' = child /\ AllChildren' = {}
  <2>1. child' = child
    BY <1>0, <1>1 DEF teardownDedicatedNamespaces, Condemn, Types
  <2>. QED
    BY <1>2, <2>1
    DEF ReleaseTo, AllChildren, Children, crossNamespaceServiceChildren, Present, Absent
<1>4. place["keystone"]' \in Dedicated' => ~ keys'
  BY <1>1, <1>2, ChildrenAre DEF ReleaseTo, TInv, KeysHeld
<1>5. cp'.declared = cp.declared
  BY <1>1 DEF ReleaseTo, Released, Types, ControlPlanes
<1>6. ASSUME NEW n \in Dedicated, NEW x \in Kinds, objs'[n][x] = "ours"
      PROVE  \/ space'[n].going \/ Namespace(n) \in named'
             \/ <<n, x>> \in logged' \/ x \in Accounts \ cp'.declared
  <2>1. n \in Everywhere /\ n \in Namespaces
    BY <1>1
  <2>2. CASE life[n] = "External"
    <3>1. objs'[n] = sweepExternalNamespaceResidue(n, missed)
      BY <1>0, <1>2, <2>1, <2>2 DEF teardownDedicatedNamespaces
    <3>2. x \notin residueObjects(n) \/ <<n, x>> \in missed
      BY <1>6, <3>1, Stocked DEF sweepExternalNamespaceResidue
    <3>3. x \notin residueObjects(n) => x \in Accounts \ cp.declared
      <4>1. ASSUME x \in Accounts, x \in cp.declared PROVE x \in residueObjects(n)
        <5>1. objs[n][x] = "ours"
          BY <1>6, <3>1, Stocked DEF sweepExternalNamespaceResidue
        <5>. QED
          BY <2>1, <4>1, <5>1 DEF residueObjects, TInv, Delivery
      <4>. QED
        BY <4>1 DEF residueObjects, Kinds
    <3>. QED
      BY <1>0, <1>5, <3>2, <3>3 DEF teardownDedicatedNamespaces
  <2>3. CASE life[n] = "Managed"
    <3>1. objs'[n] = objs[n] /\ space'[n] = deleteManagedNamespace(n)
      BY <1>0, <1>2, <2>1, <2>3 DEF teardownDedicatedNamespaces
    <3>2. Exists(n)
      BY <1>6, <2>1, <3>1 DEF TInv, Housed
    <3>3. space'[n].going = (space[n].going \/ space[n].owner = "ours")
      BY <1>1, <2>1, <3>1 DEF deleteManagedNamespace, Types, Labelled
    <3>4. ~ space[n].going /\ space[n].owner # "ours" => n \in NotOwned
      BY <1>2, <2>3, <3>2 DEF NotOwned, Usable
    <3>. QED
      BY <3>3, <3>4 DEF ReleaseTo
  <2>. QED
    BY <1>1, <2>1, <2>2, <2>3 DEF Types
<1>. QED
  BY <1>2, <1>3, <1>4, <1>6, Stocked DEF OrderlyIsClean

LEMMA ReleaseKeeps ==
  ASSUME TInv, Types', NEW result \in {Released, cp}, ReleaseTo(result)
  PROVE  TInv'
<1>. USE DEF korc, eso, spaces, services, told, bounds, Deleting, Working
<1>0. Types /\ ~ cp.gone /\ cp.deleting
  BY DEF TInv, ReleaseTo
<1>1. cp.held
  BY <1>0 DEF TInv, Fresh, Quiet
<1>2. cp'.held /\ cp'.deleting /\ pass'.at = "idle"
  BY <1>0, <1>1 DEF ReleaseTo, Released, Types, ControlPlanes
<1>3. PICK missed \in SUBSET Residue : teardownDedicatedNamespaces(missed)
  BY DEF ReleaseTo
<1>4. Present(orc)' = Present(orc) /\ Present(push)' = Present(push)
  BY DEF ReleaseTo, Present, Absent
<1>5. Quiet'
  BY <1>2, <1>4, ManagedAwaited
  DEF ReleaseTo, AllGone, remaining, pushRemaining, Quiet, managed
<1>6. Backed'
  BY <1>4 DEF ReleaseTo, Spends, TInv, Backed
<1>7. Present(child)' = Present(child)
  BY <1>0, <1>3, Handled DEF teardownDedicatedNamespaces, Types
<1>8. KeysHeld'
  BY <1>7 DEF ReleaseTo, TInv, KeysHeld
<1>9. ASSUME NEW n \in Everywhere, NEW x \in Kinds, objs'[n][x] # "none"
      PROVE  Exists(n)'
  <2>1. objs[n] \in Stocks /\ space[n] \in Labelled
    BY <1>0 DEF Types
  <2>2. objs'[n] \in {objs[n], sweepExternalNamespaceResidue(n, missed)}
        /\ space'[n] \in {space[n], deleteManagedNamespace(n)}
    BY <1>3 DEF teardownDedicatedNamespaces
  <2>3. objs[n][x] # "none"
    BY <1>9, <2>1, <2>2, Stocked DEF sweepExternalNamespaceResidue
  <2>4. space'[n].owner = space[n].owner
    BY <2>1, <2>2 DEF deleteManagedNamespace, Labelled
  <2>. QED
    BY <2>3, <2>4 DEF TInv, Housed, Exists
<1>10. Delivery'
  <2>1. \A n \in Everywhere, x \in Kinds : objs'[n][x] = "ours" => objs[n][x] = "ours"
    BY <1>3, Stocked DEF teardownDedicatedNamespaces, sweepExternalNamespaceResidue
  <2>. QED
    BY <2>1 DEF ReleaseTo, TInv, Delivery, serviceAccountDeliveryNamespace, Kinds
<1>11. OrderlyIsClean'
  <2>1. CASE AllChildren = {}
    BY <2>1, ReleaseIsClean
  <2>2. CASE AllChildren # {}
    BY <1>0, <2>2 DEF ReleaseTo, Released, OrderlyIsClean, Types, ControlPlanes
  <2>. QED
    BY <2>1, <2>2
<1>. QED
  BY <1>0, <1>2, <1>5, <1>6, <1>8, <1>9, <1>10, <1>11 DEF TInv, Fresh, Housed

LEMMA DeletionPassKeeps ==
  ASSUME TInv, DeletionPass \/ EscapeFails \/ ReleaseRefused PROVE TInv'
<1>. USE DEF korc, eso, spaces, services, told, bounds, deleteORCResources,
             deleteOwnedPushSecrets, forceRemoveKORCFinalizers, Deleting, Working
<1>. DEFINE Escapes == \E result \in {Released, cp} : EscapeTo(result)
<1>0. Types /\ Types' /\ ~ cp.gone /\ cp.deleting
  BY DeletionPassTypes
  DEF TInv, DeletionPass, Release, ReleaseTo, ReleaseImports, Wait, Escape, EscapeTo,
      EscapeFails, ReleaseRefused
<1>1. cp.held
  BY <1>0 DEF TInv, Fresh, Quiet
<1>3. /\ Present(Condemn(push, DOMAIN push)) = Present(push)
      /\ Present(Drop(push, pushRemaining)) = {}
      /\ Present(Condemn(orc, orcTeardownChildren)) = Present(orc)
      /\ \A S : Present(Drop(Condemn(orc, orcTeardownChildren), S)) = Present(orc) \ S
  BY <1>0, Handled DEF Types, pushRemaining
<1>4. CASE \E result \in {Released, cp} : ReleaseTo(result)
  BY <1>0, <1>4, ReleaseKeeps
<1>5. CASE ReleaseImports \/ Wait \/ Escapes \/ EscapeFails
  <2>0. cp'.held /\ cp'.deleting /\ pass'.at = "idle" /\ (~ Escapes => cp' = cp)
        /\ cp'.stalled = cp.stalled
    BY <1>0, <1>1, <1>5
    DEF ReleaseImports, Wait, EscapeTo, EscapeFails, Released, Types, ControlPlanes
  <2>1. Housed' /\ KeysHeld' /\ Delivery'
    BY <1>5 DEF ReleaseImports, Wait, EscapeTo, EscapeFails, TInv, Housed, Exists,
                KeysHeld, Delivery, serviceAccountDeliveryNamespace, Present, Absent
  <2>2. Quiet'
    <3>1. CASE Escapes
      BY <1>3, <2>0, <3>1, ManagedAwaited DEF EscapeTo, remaining, Quiet, managed
    <3>2. CASE ReleaseImports \/ Wait \/ EscapeFails
      BY <1>0, <3>2 DEF ReleaseImports, Wait, EscapeFails, Quiet
    <3>. QED
      BY <1>5, <3>1, <3>2
  <2>3. OrderlyIsClean'
    BY <1>0, <1>5, <2>0 DEF ReleaseImports, Wait, EscapeTo, EscapeFails, OrderlyIsClean
  <2>4. Backed'
    <3>0. rows \intersect Present(orc) \subseteq remaining
      BY <1>0, ManagedAwaited DEF remaining, Types
    <3>1. CASE ReleaseImports
      <4>1. rows \intersect Present(orc) = {}
        BY <1>0, <3>0, <3>1 DEF ReleaseImports, onlyUnmanagedLeft, orphaned,
           isManagedORCChild, Types
      <4>. QED
        BY <1>3, <3>1, <4>1 DEF ReleaseImports, TInv, Backed
    <3>2. CASE Wait
      BY <1>3, <3>2 DEF Wait, TInv, Backed
    <3>3. CASE Escapes
      <4>1. rows \intersect Present(orc) \subseteq orphaned
        BY <1>0, <3>0 DEF orphaned, isManagedORCChild, Types
      <4>. QED
        BY <1>3, <3>3, <4>1 DEF EscapeTo, Spends, TInv, Backed, pushRemaining
    <3>4. CASE EscapeFails
      BY <1>3, <3>4 DEF EscapeFails, TInv, Backed
    <3>. QED
      BY <1>5, <3>1, <3>2, <3>3, <3>4
  <2>. QED
    BY <1>0, <2>0, <2>1, <2>2, <2>3, <2>4 DEF TInv, Fresh
<1>. QED
  BY <1>4, <1>5 DEF DeletionPass, Release, Escape, ReleaseRefused

-----------------------------------------------------------------------------
(* The invariant, where the others act.                                     *)

\* A clean release stays clean: what is of the ControlPlane only goes.
LEMMA CleanStays ==
  ASSUME TInv, UNCHANGED <<place, life, cp>>, named \subseteq named',
         logged \subseteq logged',
         Present(child)' \subseteq Present(child),
         keys' => keys \/ "keystone" \in Present(child),
         \A n \in Namespaces :
           /\ \A x \in Kinds : objs'[n][x] = "ours" => objs[n][x] = "ours"
           /\ space[n].going /\ ~ space'[n].going =>
                \A x \in Kinds : objs'[n][x] # "ours"
  PROVE  OrderlyIsClean'
<1>. SUFFICES ASSUME cp.gone, ~ cp.stalled PROVE OrderlyIsClean'
  BY DEF OrderlyIsClean
<1>1. Types /\ Dedicated \subseteq Namespaces /\ Dedicated' = Dedicated
  BY Placed DEF TInv, Dedicated, DedicatedServiceNamespaces
<1>2. AllChildren = {} /\ OrderlyIsClean
  BY DEF TInv, OrderlyIsClean
<1>3. AllChildren' = {}
  BY <1>1, <1>2
  DEF AllChildren, Children, crossNamespaceServiceChildren
<1>4. place["keystone"] \in Dedicated => ~ keys'
  BY <1>1, <1>2, ChildrenAre DEF OrderlyIsClean
<1>5. ASSUME NEW n \in Dedicated, NEW x \in Kinds
      PROVE  objs'[n][x] = "ours" =>
               \/ space'[n].going \/ Namespace(n) \in named'
               \/ <<n, x>> \in logged' \/ x \in Accounts \ cp'.declared
  BY <1>1, <1>2, Stocked DEF OrderlyIsClean
<1>. QED
  BY <1>1, <1>3, <1>4, <1>5, Stocked DEF OrderlyIsClean

LEMMA CloudKeeps == ASSUME TInv, Cloud PROVE TInv'
<1>. USE DEF korc, eso, spaces, services, told, bounds
<1>0. Types /\ Types'
  BY CloudTypes DEF TInv
<1>. DEFINE Rest == Fresh' /\ Quiet' /\ Backed' /\ Housed' /\ KeysHeld' /\ Delivery'
<1>1. ASSUME NEW o \in orcObjects, CreateResource(o) PROVE TInv'
  <2>1. o \in Present(orc) /\ Present(orc)' = Present(orc)
    BY <1>0, <1>1, PresentIs DEF CreateResource, Types, Present, Absent
  <2>2. Rest
    BY <1>1, <2>1 DEF CreateResource, TInv, Fresh, Quiet, Backed, Housed, Exists,
                      KeysHeld, Delivery, serviceAccountDeliveryNamespace, Present, Absent
  <2>3. OrderlyIsClean'
    BY <1>1, CleanStays DEF CreateResource, Present, Absent
  <2>. QED
    BY <1>0, <2>2, <2>3 DEF TInv
<1>2. ASSUME NEW o \in orcObjects, FinalizeResource(o) PROVE TInv'
  <2>1. o \in Present(orc) /\ Present(orc)' = Present(orc) \ {o}
    BY <1>0, <1>2, PresentIs, Handled DEF FinalizeResource, Types
  <2>2. Rest
    BY <1>2, <2>1 DEF FinalizeResource, TInv, Fresh, Quiet, Backed, Housed, Exists,
                      KeysHeld, Delivery, serviceAccountDeliveryNamespace, Present, Absent
  <2>3. OrderlyIsClean'
    BY <1>2, CleanStays DEF FinalizeResource, Present, Absent
  <2>. QED
    BY <1>0, <2>2, <2>3 DEF TInv
<1>3. ASSUME NEW p \in DOMAIN push, SyncPush(p) PROVE TInv'
  <2>1. p \in Present(push) /\ Present(push)' = Present(push)
    BY <1>0, <1>3, PresentIs DEF SyncPush, Types, Present, Absent
  <2>2. Rest
    BY <1>3, <2>1 DEF SyncPush, TInv, Fresh, Quiet, Backed, Housed, Exists,
                      KeysHeld, Delivery, serviceAccountDeliveryNamespace, Present, Absent
  <2>3. OrderlyIsClean'
    BY <1>3, CleanStays DEF SyncPush, Present, Absent
  <2>. QED
    BY <1>0, <2>2, <2>3 DEF TInv
<1>4. ASSUME NEW p \in DOMAIN push, PurgePush(p) PROVE TInv'
  <2>1. p \in Present(push) /\ Present(push)' = Present(push) \ {p}
    BY <1>0, <1>4, PresentIs, Handled DEF PurgePush, Types
  <2>2. Rest
    BY <1>4, <2>1 DEF PurgePush, TInv, Fresh, Quiet, Backed, Housed, Exists,
                      KeysHeld, Delivery, serviceAccountDeliveryNamespace, Present, Absent
  <2>3. OrderlyIsClean'
    BY <1>4, CleanStays DEF PurgePush, Present, Absent
  <2>. QED
    BY <1>0, <2>2, <2>3 DEF TInv
<1>5. CASE MirrorKeys \/ PurgeKeys
  <2>1. "keystone" \in Present(child)
    BY <1>0, <1>5, PresentIs DEF MirrorKeys, PurgeKeys, Types, Services
  <2>2. Rest
    BY <1>5, <2>1 DEF MirrorKeys, PurgeKeys, TInv, Fresh, Quiet, Backed, Housed,
                      Exists, KeysHeld, Delivery, serviceAccountDeliveryNamespace, Present, Absent
  <2>3. OrderlyIsClean'
    BY <1>5, <2>1, CleanStays DEF MirrorKeys, PurgeKeys, Present, Absent
  <2>. QED
    BY <1>0, <2>2, <2>3 DEF TInv
<1>6. ASSUME NEW s \in Services, FinalizeChild(s) PROVE TInv'
  <2>1. s \in Present(child) /\ Present(child)' = Present(child) \ {s}
    BY <1>0, <1>6, PresentIs, Handled DEF FinalizeChild, Types
  <2>2. Rest
    BY <1>6, <2>1 DEF FinalizeChild, TInv, Fresh, Quiet, Backed, Housed, Exists,
                      KeysHeld, Delivery, serviceAccountDeliveryNamespace, Present, Absent
  <2>3. OrderlyIsClean'
    BY <1>6, <2>1, CleanStays DEF FinalizeChild
  <2>. QED
    BY <1>0, <2>2, <2>3 DEF TInv
<1>. QED
  BY <1>1, <1>2, <1>3, <1>4, <1>5, <1>6 DEF Cloud

LEMMA KubernetesKeeps == ASSUME TInv, Kubernetes PROVE TInv'
<1>. USE DEF korc, eso, spaces, services, told, bounds
<1>0. Types /\ Types'
  BY KubernetesTypes DEF TInv
<1>. DEFINE Rest == Fresh' /\ Quiet' /\ Backed' /\ Housed' /\ KeysHeld' /\ Delivery'
<1>1. ASSUME NEW s \in Services, CollectChild(s) PROVE TInv'
  <2>1. Present(child)' = Present(child)
    BY <1>0, <1>1, Handled DEF CollectChild, Types
  <2>2. Rest
    BY <1>1, <2>1 DEF CollectChild, TInv, Fresh, Quiet, Backed, Housed, Exists,
                      KeysHeld, Delivery, serviceAccountDeliveryNamespace, Present, Absent
  <2>3. OrderlyIsClean'
    BY <1>1, <2>1, CleanStays DEF CollectChild
  <2>. QED
    BY <1>0, <2>2, <2>3 DEF TInv
<1>2. ASSUME NEW p \in DOMAIN push, CollectPush(p) PROVE TInv'
  <2>1. Present(push)' = Present(push)
    BY <1>0, <1>2, Handled DEF CollectPush, Types
  <2>2. Rest
    BY <1>2, <2>1 DEF CollectPush, TInv, Fresh, Quiet, Backed, Housed, Exists,
                      KeysHeld, Delivery, serviceAccountDeliveryNamespace, Present, Absent
  <2>3. OrderlyIsClean'
    BY <1>2, CleanStays DEF CollectPush, Present, Absent
  <2>. QED
    BY <1>0, <2>2, <2>3 DEF TInv
<1>3. ASSUME NEW o \in orcObjects, CollectResource(o) PROVE TInv'
  <2>1. Present(orc)' = Present(orc)
    BY <1>0, <1>3, Handled DEF CollectResource, Types
  <2>2. Rest
    BY <1>3, <2>1 DEF CollectResource, TInv, Fresh, Quiet, Backed, Housed, Exists,
                      KeysHeld, Delivery, serviceAccountDeliveryNamespace, Present, Absent
  <2>3. OrderlyIsClean'
    BY <1>3, CleanStays DEF CollectResource, Present, Absent
  <2>. QED
    BY <1>0, <2>2, <2>3 DEF TInv
<1>4. ASSUME NEW n \in Everywhere, CollectObjects(n) PROVE TInv'
  <2>1. \A m \in Everywhere, x \in Kinds : objs'[m][x] \in {objs[m][x], "none"}
    BY <1>0, <1>4, Collected DEF Types, Stocks
  <2>4. UNCHANGED <<cp, pass, korc, eso, place, life, space, services, told, refused>>
    BY <1>4 DEF CollectObjects
  <2>2. Rest
    <3>1. Fresh' /\ Housed'
      BY <2>1, <2>4 DEF TInv, Fresh, Housed, Exists, Present, Absent
    <3>2. Delivery'
      BY <2>1, <2>4, Stays DEF Kinds
    <3>. QED
      BY <2>4, <3>1, <3>2 DEF TInv, Quiet, Backed, KeysHeld, Present, Absent
  <2>3. OrderlyIsClean'
    BY <1>4, <2>1, CleanStays DEF CollectObjects, Present, Absent, Everywhere
  <2>. QED
    BY <1>0, <2>2, <2>3 DEF TInv
<1>5. ASSUME NEW n \in Everywhere, CollectNamespace(n) PROVE TInv'
  <2>1. /\ \A x \in Kinds : objs[n][x] = "none"
        /\ \A m \in Everywhere \ {n} : space'[m] = space[m]
    BY <1>0, <1>5 DEF CollectNamespace, Types, NoObjects, Kinds
  <2>2. Rest
    BY <1>5, <2>1 DEF CollectNamespace, TInv, Fresh, Quiet, Backed, Housed, Exists,
                      KeysHeld, Delivery, serviceAccountDeliveryNamespace, Present, Absent
  <2>3. OrderlyIsClean'
    BY <1>5, <2>1, CleanStays DEF CollectNamespace, Present, Absent, Everywhere
  <2>. QED
    BY <1>0, <2>2, <2>3 DEF TInv
<1>. QED
  BY <1>1, <1>2, <1>3, <1>4, <1>5 DEF Kubernetes

LEMMA WorldKeeps == ASSUME TInv, World PROVE TInv'
<1>. USE DEF korc, eso, spaces, services, told, bounds, Trouble
<1>0. Types /\ Types'
  BY WorldTypes DEF TInv
<1>. DEFINE Rest == Fresh' /\ Quiet' /\ Backed' /\ Housed' /\ KeysHeld' /\ Delivery'
<1>1. CASE Undeclare
  <2>1. ~ cp.gone /\ ~ cp'.gone /\ cp'.held = cp.held /\ ~ cp'.deleting
    BY <1>0, <1>1 DEF Undeclare, TInv, Quiet, Types, ControlPlanes
  <2>2. Rest /\ OrderlyIsClean'
    BY <1>1, <2>1 DEF Undeclare, TInv, Fresh, Quiet, Backed, Housed, Exists,
                      KeysHeld, Delivery, serviceAccountDeliveryNamespace, Present, Absent, OrderlyIsClean
  <2>. QED
    BY <1>0, <2>2 DEF TInv
<1>2. CASE Delete
  <2>1. cp'.gone = ~ cp.held /\ cp'.held = cp.held /\ cp'.deleting
    BY <1>0, <1>2 DEF Delete, Types, ControlPlanes
  <2>2. Rest
    BY <1>2, <2>1 DEF Delete, TInv, Fresh, Quiet, Backed, Housed, Exists,
                      KeysHeld, Delivery, serviceAccountDeliveryNamespace, Present, Absent
  <2>3. ASSUME ~ cp.held PROVE OrderlyIsClean'
    <3>1. /\ Present(child) = {} /\ ~ keys
          /\ \A n \in Everywhere, x \in Kinds : objs[n][x] # "ours"
      BY <2>3 DEF TInv, Fresh, KeysHeld
    <3>2. AllChildren' = {}
      BY <1>2, <3>1 DEF Delete, AllChildren, Children, Present, Absent
    <3>3. Dedicated' \subseteq Everywhere
      BY <1>0, <1>2, Placed
      DEF Delete, Dedicated, DedicatedServiceNamespaces, Everywhere
    <3>. QED
      BY <1>2, <3>1, <3>2, <3>3, Stocked DEF Delete, OrderlyIsClean
  <2>. QED
    BY <1>0, <2>1, <2>2, <2>3 DEF TInv, OrderlyIsClean
<1>3. CASE Stall
  <2>1. ~ cp.gone /\ ~ cp'.gone /\ cp'.held = cp.held
    BY <1>0, <1>3 DEF Stall, Deleting, Types, ControlPlanes
  <2>2. Rest /\ OrderlyIsClean'
    BY <1>3, <2>1 DEF Stall, Deleting, TInv, Fresh, Quiet, Backed, Housed, Exists,
                      KeysHeld, Delivery, serviceAccountDeliveryNamespace, Present, Absent, OrderlyIsClean
  <2>. QED
    BY <1>0, <2>2 DEF TInv
<1>4. CASE Outage \/ Recover
  <2>1. Rest
    BY <1>4 DEF Outage, Recover, TInv, Fresh, Quiet, Backed, Housed, Exists,
                KeysHeld, Delivery, serviceAccountDeliveryNamespace, Present, Absent
  <2>2. OrderlyIsClean'
    BY <1>4, CleanStays DEF Outage, Recover, Present, Absent
  <2>. QED
    BY <1>0, <2>1, <2>2 DEF TInv
<1>5. ASSUME NEW n \in Namespaces, OccupyNamespace(n) PROVE TInv'
  <2>1. /\ Exists(n)' /\ \A m \in Everywhere \ {n} : space'[m] = space[m]
        /\ \A x \in Kinds : objs[n][x] = "none"
    BY <1>0, <1>5 DEF OccupyNamespace, Types, Exists, Everywhere, TInv, Housed
  <2>2. Rest
    BY <1>5, <2>1 DEF OccupyNamespace, TInv, Fresh, Quiet, Backed, Housed, Exists,
                      KeysHeld, Delivery, serviceAccountDeliveryNamespace, Present, Absent
  <2>3. OrderlyIsClean'
    BY <1>5, <2>1, CleanStays DEF OccupyNamespace, Present, Absent, Everywhere
  <2>. QED
    BY <1>0, <2>2, <2>3 DEF TInv
<1>6. ASSUME NEW n \in Namespaces, OccupyObject(n) PROVE TInv'
  <2>1. /\ \A m \in Everywhere, x \in Kinds : objs'[m][x] \in {objs[m][x], "theirs"}
        /\ \A m \in Everywhere \ {n} : objs'[m] = objs[m]
        /\ Exists(n)
    <3>1. PICK x \in Kinds : objs' = [objs EXCEPT ![n][x] = "theirs"]
      BY <1>6, Occupied
    <3>. QED
      BY <1>0, <1>6, <3>1 DEF OccupyObject, Usable, Types, Stocks, Everywhere
  <2>2. Rest
    BY <1>6, <2>1 DEF OccupyObject, TInv, Fresh, Quiet, Backed, Housed, Exists,
                      KeysHeld, Delivery, serviceAccountDeliveryNamespace, Present, Absent
  <2>3. OrderlyIsClean'
    BY <1>6, <2>1, CleanStays DEF OccupyObject, Present, Absent, Everywhere
  <2>. QED
    BY <1>0, <2>2, <2>3 DEF TInv
<1>7. ASSUME NEW n \in Namespaces, DeleteNamespace(n) PROVE TInv'
  <2>1. \A m \in Everywhere : /\ space'[m].owner = space[m].owner
                             /\ space[m].going => space'[m].going
    BY <1>0, <1>7 DEF DeleteNamespace, Types, Labelled
  <2>2. Rest
    BY <1>7, <2>1 DEF DeleteNamespace, TInv, Fresh, Quiet, Backed, Housed, Exists,
                      KeysHeld, Delivery, serviceAccountDeliveryNamespace, Present, Absent
  <2>3. OrderlyIsClean'
    BY <1>7, <2>1, CleanStays DEF DeleteNamespace, Present, Absent, Everywhere
  <2>. QED
    BY <1>0, <2>2, <2>3 DEF TInv
<1>. QED
  BY <1>1, <1>2, <1>3, <1>4, <1>5, <1>6, <1>7 DEF World

LEMMA NextKeeps == ASSUME TInv, [Next]_vars PROVE TInv'
<1>1. CASE UNCHANGED vars
  BY <1>1, TypesKept
  DEF vars, korc, eso, spaces, services, told, bounds, TInv, Fresh, Quiet, Backed, Housed,
      Exists, KeysHeld, Delivery, serviceAccountDeliveryNamespace, Present, Absent,
      OrderlyIsClean, AllChildren, Children,
      crossNamespaceServiceChildren, Dedicated, DedicatedServiceNamespaces
<1>. QED
  BY <1>1, LivePassKeeps, DeletionPassKeeps, CloudKeeps, KubernetesKeeps, WorldKeeps
  DEF Next

LEMMA Invariance == Spec => []TInv
BY AtFirst, NextKeeps, PTL DEF Spec

-----------------------------------------------------------------------------
(* What a step may do to a namespace and to the objects in it.              *)

OnlyAdds(n) == \A x \in Kinds :
  objs[n][x] = "theirs" \/ (objs[n][x] = "ours" /\ x \notin Accounts) =>
    objs'[n][x] = objs[n][x]

LEMMA NamespaceMoves ==
  ASSUME Types, Next, NEW n \in Namespaces
  PROVE  \/ space'[n] = space[n] \/ ~ Exists(n)
         \/ ~ Exists(n)' /\ ~ space'[n].going
         \/ n \in Swept /\ space'[n] = deleteManagedNamespace(n)
         \/ DeleteNamespace(n)
<1>. USE DEF korc, eso, spaces, services, told, bounds, Trouble
<1>. DEFINE Releases == \E result \in {Released, cp} : ReleaseTo(result)
<1>0. n \in Everywhere /\ space \in [Everywhere -> Labelled]
  BY DEF Everywhere, Types
<1>1. CASE reconcileNamespaces
  BY <1>0, <1>1 DEF reconcileNamespaces
<1>2. ASSUME NEW result, ReleaseTo(result)
      PROVE  \/ space'[n] = space[n]
             \/ n \in Swept /\ space'[n] = deleteManagedNamespace(n)
  BY <1>0, <1>2 DEF ReleaseTo, teardownDedicatedNamespaces
<1>3. CASE \E m \in Everywhere : CollectNamespace(m)
  BY <1>0, <1>3 DEF CollectNamespace, Exists
<1>4. CASE \E m \in Namespaces : OccupyNamespace(m) \/ DeleteNamespace(m)
  BY <1>0, <1>4 DEF OccupyNamespace, DeleteNamespace
<1>5. CASE UNCHANGED space
  BY <1>5
<1>6. UNCHANGED space \/ reconcileNamespaces \/ Releases
      \/ (\E m \in Everywhere : CollectNamespace(m))
      \/ (\E m \in Namespaces : OccupyNamespace(m) \/ DeleteNamespace(m))
  <2>1. CASE LivePass
    BY <2>1 DEF LivePass, Begin, reconcileNamespaces, ensureObjects,
                reconcileChildren, reconcileKORC, reconcileServiceAccounts
  <2>2. CASE DeletionPass \/ EscapeFails \/ ReleaseRefused
    BY <2>2 DEF DeletionPass, Release, ReleaseImports, Wait, Escape, EscapeTo,
                EscapeFails, ReleaseRefused
  <2>3. CASE Cloud
    BY <2>3 DEF Cloud, CreateResource, FinalizeResource, SyncPush, PurgePush,
                MirrorKeys, PurgeKeys, FinalizeChild
  <2>4. CASE Kubernetes
    BY <2>4 DEF Kubernetes, CollectChild, CollectObjects, CollectPush,
                CollectResource
  <2>5. CASE World
    BY <2>5 DEF World, Undeclare, Delete, Stall, Outage, Recover, OccupyObject
  <2>. QED
    BY <2>1, <2>2, <2>3, <2>4, <2>5 DEF Next
<1>. QED
  BY <1>1, <1>2, <1>3, <1>4, <1>5, <1>6

LEMMA ObjectMoves ==
  ASSUME Types, Next, NEW n \in Namespaces
  PROVE  \/ OnlyAdds(n) \/ Leaving(n)
         \/ n \in Swept /\ \E missed : objs'[n] = sweepExternalNamespaceResidue(n, missed)
<1>. USE DEF korc, eso, spaces, services, told, bounds, Trouble
<1>. DEFINE Releases == \E result \in {Released, cp} : ReleaseTo(result)
<1>0. n \in Everywhere /\ objs \in [Everywhere -> Stocks]
  BY DEF Everywhere, Types
<1>1. CASE ensureObjects
  BY <1>0, <1>1 DEF ensureObjects, OnlyAdds, Stocks
<1>7. CASE reconcileServiceAccounts
  BY <1>0, <1>7, Stocked DEF reconcileServiceAccounts, OnlyAdds
<1>2. ASSUME NEW result, ReleaseTo(result)
      PROVE  \/ OnlyAdds(n)
             \/ n \in Swept /\ \E missed : objs'[n] = sweepExternalNamespaceResidue(n, missed)
  BY <1>0, <1>2 DEF ReleaseTo, teardownDedicatedNamespaces, OnlyAdds
<1>3. CASE \E m \in Everywhere : CollectObjects(m)
  <2>1. PICK m \in Everywhere : CollectObjects(m)
    BY <1>3
  <2>2. m # n => objs'[n] = objs[n]
    BY <1>0, <2>1 DEF CollectObjects
  <2>. QED
    BY <2>1, <2>2 DEF CollectObjects, OnlyAdds
<1>4. CASE \E m \in Namespaces : OccupyObject(m)
  <2>1. PICK m \in Namespaces : OccupyObject(m)
    BY <1>4
  <2>2. PICK x \in Kinds : objs[m][x] = "none" /\ objs' = [objs EXCEPT ![m][x] = "theirs"]
    BY <2>1, Occupied
  <2>. QED
    BY <1>0, <2>2 DEF OnlyAdds, Stocks
<1>5. CASE UNCHANGED objs
  BY <1>5 DEF OnlyAdds
<1>6. UNCHANGED objs \/ ensureObjects \/ reconcileServiceAccounts \/ Releases
      \/ (\E m \in Everywhere : CollectObjects(m))
      \/ (\E m \in Namespaces : OccupyObject(m))
  <2>1. CASE LivePass
    BY <2>1 DEF LivePass, Begin, reconcileNamespaces, ensureObjects,
                reconcileChildren, reconcileKORC, reconcileServiceAccounts
  <2>2. CASE DeletionPass \/ EscapeFails \/ ReleaseRefused
    BY <2>2 DEF DeletionPass, Release, ReleaseImports, Wait, Escape, EscapeTo,
                EscapeFails, ReleaseRefused
  <2>3. CASE Cloud
    BY <2>3 DEF Cloud, CreateResource, FinalizeResource, SyncPush, PurgePush,
                MirrorKeys, PurgeKeys, FinalizeChild
  <2>4. CASE Kubernetes
    BY <2>4 DEF Kubernetes, CollectChild, CollectNamespace, CollectPush,
                CollectResource
  <2>5. CASE World
    BY <2>5 DEF World, Undeclare, Delete, Stall, Outage, Recover, OccupyNamespace,
                DeleteNamespace
  <2>. QED
    BY <2>1, <2>2, <2>3, <2>4, <2>5 DEF Next
<1>. QED
  BY <1>1, <1>2, <1>3, <1>4, <1>5, <1>6, <1>7

-----------------------------------------------------------------------------
(* The theorems.                                                            *)

\* Whatever a released ControlPlane leaves in OpenStack and OpenBao is named in
\* a warning, unless a force-removal stopped half-way (reconcile_delete.go:526).
THEOREM LeftoversAlwaysNamed == Spec => []Accounted
<1>1. TInv => Accounted
  BY DEF TInv, Types, Quiet, Backed, Accounted, AllNamed
<1>. QED
  BY <1>1, Invariance, PTL

\* A release before the stall timeout leaves no service and no key behind in a
\* dedicated namespace, and of its objects those of a namespace that goes or was
\* named, what the sweep logged, and credentials of undeclared accounts
\* (reconcile_delete.go:441, :835, :865).
THEOREM OrderlyAlwaysClean == Spec => []OrderlyIsClean
<1>1. TInv => OrderlyIsClean
  BY DEF TInv
<1>. QED
  BY <1>1, Invariance, PTL

\* Only once no service of a namespace is left does the teardown take its
\* tenant store, alone or with the namespace (reconcile_delete.go:601).
THEOREM StoreAlwaysOutlivesChild == Spec => StoreOutlivesChild
<1>1. ASSUME TInv, [Next]_vars, NEW n \in Dedicated,
             \/ objs[n].store = "ours" /\ objs'[n].store = "none" /\ ~ Leaving(n)
             \/ Usable(n) /\ space'[n].going /\ ~ DeleteNamespace(n)
      PROVE  Children(n) = {}
  <2>1. Types /\ n \in Namespaces
    BY <1>1, Placed DEF TInv
  <2>2. Next
    BY <1>1 DEF vars, korc, eso, spaces, services, told, bounds, Usable, Leaving
  <2>3. n \in Swept
    BY <1>1, <2>1, <2>2, NamespaceMoves, ObjectMoves, Stocked DEF OnlyAdds, Usable, Kinds
  <2>. QED
    BY <2>3 DEF Swept
<1>2. TInv /\ [Next]_vars =>
        [\A n \in Dedicated :
           \/ objs[n].store = "ours" /\ objs[n].store' = "none" /\ ~ Leaving(n)
           \/ Usable(n) /\ space[n]'.going /\ ~ DeleteNamespace(n)
           => Children(n) = {}]_vars
  BY <1>1
<1>. QED
  BY <1>2, Invariance, PTL DEF StoreOutlivesChild, Spec

\* A namespace, store or database of somebody else's is never deleted
\* (reconcile_delete.go:728, reconcile_namespaces.go:162).
THEOREM ForeignAlwaysKept == Spec => ForeignKept
<1>1. ASSUME TInv, [Next]_vars, NEW n \in Namespaces
      PROVE  /\ space[n].owner = "theirs" /\ ~ DeleteNamespace(n) =>
                  space'[n].going = space[n].going \/ ~ Exists(n)'
             /\ \A x \in DOMAIN NoObjects :
                  objs[n][x] = "theirs" /\ ~ Leaving(n) => objs'[n][x] = "theirs"
  <2>1. Types /\ n \in Everywhere /\ space[n] \in Labelled /\ objs[n] \in Stocks
    BY <1>1 DEF TInv, Types, Everywhere
  <2>2. CASE UNCHANGED vars
    BY <2>2 DEF vars, spaces
  <2>3. CASE Next
    <3>1. ASSUME space[n].owner = "theirs", ~ DeleteNamespace(n)
          PROVE  space'[n].going = space[n].going \/ ~ Exists(n)'
      <4>1. Exists(n)
        BY <3>1 DEF Exists
      <4>2. space'[n] = deleteManagedNamespace(n) => space'[n].going = space[n].going
        BY <2>1, <3>1 DEF deleteManagedNamespace, Labelled
      <4>. QED
        BY <2>1, <2>3, <3>1, <4>1, <4>2, NamespaceMoves
    <3>2. ASSUME NEW x \in Kinds, objs[n][x] = "theirs", ~ Leaving(n)
          PROVE  objs'[n][x] = "theirs"
      <4>1. ASSUME NEW missed, objs'[n] = sweepExternalNamespaceResidue(n, missed)
            PROVE  objs'[n][x] = "theirs"
        BY <2>1, <3>2, <4>1, Stocked DEF sweepExternalNamespaceResidue
      <4>. QED
        BY <2>1, <2>3, <3>2, <4>1, ObjectMoves DEF OnlyAdds
    <3>. QED
      BY <3>1, <3>2, Stocked
  <2>. QED
    BY <1>1, <2>2, <2>3
<1>2. TInv /\ [Next]_vars =>
        [\A n \in Namespaces :
           /\ space[n].owner = "theirs" /\ ~ DeleteNamespace(n) =>
                space[n]'.going = space[n].going \/ ~ Exists(n)'
           /\ \A x \in DOMAIN NoObjects :
                objs[n][x] = "theirs" /\ ~ Leaving(n) => objs[n][x]' = "theirs"]_vars
  BY <1>1
<1>. QED
  BY <1>2, Invariance, PTL DEF ForeignKept, Spec
===============================================================================
