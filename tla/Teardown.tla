------------------------------- MODULE Teardown -------------------------------
(***************************************************************************)
(* One ControlPlane from its first pass to its garbage collection: the     *)
(* passes that place its services in namespaces, its resources with K-ORC  *)
(* and its secrets in OpenBao, and the finalizer that takes all of it down *)
(* in an order the others can follow: K-ORC and External Secrets, which    *)
(* need Keystone and the tenant stores, the service operators, Kubernetes. *)
(*                                                                         *)
(* A live pass works, stage after stage, with the copy of the spec it read *)
(* first; a deletion pass is one step.  Reads are current, and the release *)
(* of a K-ORC finalizer frees the object: nobody else holds one.           *)
(***************************************************************************)
EXTENDS FiniteSets, SequencesExt

CONSTANTS
  Namespaces,       \* the namespaces a service may be placed in
  Accounts,         \* the service accounts, each with a domain of its own
  Placements,       \* where each service may be: see place
  MaxTrouble        \* bounds what users, outages and refused updates do

ASSUME TeardownAssumption ==
  /\ MaxTrouble \in Nat
  /\ {"admin", "store", "residue"} \cap Accounts = {}
  /\ {"home", "none"} \cap Namespaces = {}
  /\ Placements \subseteq
       [{"keystone", "horizon"} -> Namespaces \union {"home", "none"}]

VARIABLES
  cp,               \* the ControlPlane
  pass,             \* the live pass under way
  orc,              \* the K-ORC objects: "absent", "live" or "dying"
  rows,             \* the managed ones that exist in OpenStack
  minted,           \* whether the application credential ever did
  push, bao,        \* the PushSecrets, and the paths they filled in OpenBao
  place, life,      \* the namespace of each service, the lifecycle of each
  space, objs,      \* the namespaces, and the kinds of objects in them
  child, keys,      \* the services; whether Keystone's keys are in OpenBao
  down,             \* which of Keystone and OpenBao cannot be reached
  named, logged,    \* what the warnings told the operator to clean up, and what
                    \* the log says could not be deleted
  trouble, refused  \* what the bound counts; that an update was refused

korc == <<orc, rows, minted>>
eso == <<push, bao>>
spaces == <<place, life, space, objs>>
services == <<child, keys>>
bounds == <<trouble, refused>>
told == <<named, logged>>
vars == <<cp, pass, korc, eso, spaces, services, down, told, bounds>>

Services == {"keystone", "horizon"}
Home == "home"        \* the ControlPlane's own namespace
Nowhere == "none"     \* of a Keystone that is External, a Horizon not asked for
Everywhere == Namespaces \union {Home}

Absent(f) == {x \in DOMAIN f : f[x] = "absent"}
Present(f) == DOMAIN f \ Absent(f)
Condemn(f, S) ==
  [x \in DOMAIN f |-> IF x \in S /\ f[x] = "live" THEN "dying" ELSE f[x]]
Drop(f, S) == [x \in DOMAIN f |-> IF x \in S THEN "absent" ELSE f[x]]
Create(f, S) == [x \in DOMAIN f |-> IF x \in S /\ f[x] = "absent" THEN "live" ELSE f[x]]

-----------------------------------------------------------------------------
(* Names and places.                                                       *)

ApplicationCredential == [kind |-> "ApplicationCredential", of |-> "admin"]
User(a)   == [kind |-> "User", of |-> a]
Domain(a) == [kind |-> "Domain", of |-> a]
Path(p)   == [kind |-> "OpenBaoPath", of |-> p]
Service(t) == [kind |-> "Service", of |-> t]
Namespace(n) == [kind |-> "Namespace", of |-> n]
AdminImports == {User("admin"), Domain("admin")}

orcObjects == {ApplicationCredential} \union
  UNION {{User(a), Domain(a)} : a \in Accounts \union {"admin"}}
managed == {ApplicationCredential} \union {User(a) : a \in Accounts}
RevokesOnly(o) == o = ApplicationCredential
isManagedORCChild(o) == o \in managed

DedicatedServiceNamespaces ==
  LET Assigned(s) == IF place[s] \in Namespaces THEN <<place[s]>> ELSE <<>>
  IN  IF place["keystone"] = place["horizon"] THEN Assigned("keystone")
      ELSE Assigned("keystone") \o Assigned("horizon")
controlPlaneNamespaces == <<Home>> \o DedicatedServiceNamespaces
Dedicated == ToSet(DedicatedServiceNamespaces)

\* An account's credentials go where Keystone is, if that is a namespace of
\* its own.
serviceAccountDeliveryNamespace ==
  IF place["keystone"] \in Namespaces THEN place["keystone"] ELSE Home
PushNamespace(p) == IF p = "admin" THEN Home ELSE serviceAccountDeliveryNamespace

crossNamespaceServiceChildren(n) == {s \in Services : place[s] = n}
Children(n) == crossNamespaceServiceChildren(n) \intersect Present(child)

\* The tenant store, the source Secret and ExternalSecret of each account, and
\* the backing services with their credentials.
NoObjects == [x \in {"store", "residue"} \union Accounts |-> "none"]
Exists(n) == space[n].owner # "none"
Usable(n) == Exists(n) /\ ~ space[n].going

-----------------------------------------------------------------------------
(* A live pass.                                                            *)

Idle == [at |-> "idle", sees |-> {}, left |-> <<>>]
End == pass' = Idle
Enter(stage, todo) == pass' = [pass EXCEPT !.at = stage, !.left = todo]
Working(stage) == pass.at = stage

\* The finalizer first, and a pass of its own for it.
Begin ==
  /\ ~ cp.deleting /\ Working("idle")
  /\ IF cp.held
       THEN /\ pass' = [at |-> "namespaces", sees |-> cp.declared,
                        left |-> DedicatedServiceNamespaces]
            /\ UNCHANGED cp
       ELSE cp' = [cp EXCEPT !.held = TRUE] /\ UNCHANGED pass
  /\ UNCHANGED <<korc, eso, spaces, services, down, told, bounds>>

Labels == [owner |-> "ours", going |-> FALSE]

reconcileNamespaces ==
  /\ Working("namespaces")
  /\ IF pass.left = <<>>
       THEN Enter("objects", controlPlaneNamespaces) /\ UNCHANGED space
       ELSE LET n == Head(pass.left) IN
            CASE life[n] = "Managed" /\ ~ Exists(n) ->
                   /\ space' = [space EXCEPT ![n] = Labels]
                   /\ Enter("namespaces", Tail(pass.left))
              [] Usable(n) /\ (life[n] = "External" \/ space[n].owner = "ours") ->
                   Enter("namespaces", Tail(pass.left)) /\ UNCHANGED space
              [] OTHER -> End /\ UNCHANGED space
  /\ UNCHANGED <<cp, korc, eso, place, life, objs, services, down, told, bounds>>

\* Backing services that are there already are used as they are; a tenant
\* store of somebody else's is refused.
ensureObjects ==
  /\ Working("objects")
  /\ IF pass.left = <<>>
       THEN Enter("children", <<"keystone", "horizon">>) /\ UNCHANGED objs
       ELSE LET n == Head(pass.left)
                Ours(x) == IF x = "none" THEN "ours" ELSE x
            IN  IF ~ Usable(n) THEN End /\ UNCHANGED objs
                ELSE /\ objs' = [objs EXCEPT ![n].residue = Ours(@), ![n].store = Ours(@)]
                     /\ IF objs[n].store = "theirs" THEN End
                        ELSE Enter("objects", Tail(pass.left))
  /\ UNCHANGED <<cp, korc, eso, place, life, space, services, down, told, bounds>>

reconcileChildren ==
  /\ Working("children")
  /\ IF pass.left = <<>>
       THEN Enter("korc", <<>>) /\ UNCHANGED child
       ELSE LET s == Head(pass.left) IN
            CASE place[s] = Nowhere \/ child[s] = "live" ->
                   Enter("children", Tail(pass.left)) /\ UNCHANGED child
              [] place[s] # Nowhere /\ child[s] = "absent" /\ Usable(place[s]) ->
                   child' = Create(child, {s}) /\ Enter("children", Tail(pass.left))
              [] OTHER -> End /\ UNCHANGED child
  /\ UNCHANGED <<cp, korc, eso, spaces, keys, down, told, bounds>>

\* Catalog and accounts wait for the administrator's credential.
reconcileKORC ==
  /\ Working("korc")
  /\ orc' = Create(orc, AdminImports \union {ApplicationCredential})
  /\ push' = Create(push, {"admin"})
  /\ IF ApplicationCredential \in rows THEN Enter("accounts", <<>>) ELSE End
  /\ UNCHANGED <<cp, rows, minted, bao, spaces, services, down, told, bounds>>

\* A foreign object of the name is refused, what is undeclared pruned.  At home
\* the source Secret and ExternalSecret are the garbage collector's: left out.
reconcileServiceAccounts ==
  LET n == serviceAccountDeliveryNamespace
      undeclared == Accounts \ pass.sees
      published == {a \in pass.sees : User(a) \in rows /\ Usable(n) /\ objs[n][a] # "theirs"}
      Gone == UNION {{User(a), Domain(a)} : a \in undeclared}
      Delivered(m, x) ==
        IF x \in undeclared /\ objs[m][x] = "ours" THEN "none"
        ELSE IF m = n /\ n # Home /\ x \in published THEN "ours" ELSE objs[m][x]
  IN
  /\ Working("accounts") /\ End
  /\ orc' = Condemn(Create(orc, UNION {{User(a), Domain(a)} : a \in pass.sees}), Gone)
  /\ push' = Condemn(Create(push, published), undeclared)
  /\ objs' = [m \in Everywhere |-> [x \in DOMAIN NoObjects |-> Delivered(m, x)]]
  /\ UNCHANGED <<cp, rows, minted, bao, place, life, space, services, down, told, bounds>>

-----------------------------------------------------------------------------
(* A deletion pass.                                                        *)

\* What the spec names, and the users that are owned whether it does or not.
orcChildObjects ==
  {ApplicationCredential} \union AdminImports \union
  UNION {{User(a), Domain(a)} : a \in cp.declared}
ownedServiceAccountChildren == {User(a) : a \in Accounts}
orcTeardownChildren == orcChildObjects \union ownedServiceAccountChildren

remaining == orcTeardownChildren \intersect Present(orc)
orphaned == {o \in remaining : isManagedORCChild(o)}
pushRemaining == Present(push)
AllGone == remaining = {} /\ pushRemaining = {}
onlyUnmanagedLeft == remaining # {} /\ orphaned = {}

Deleting == cp.deleting /\ ~ cp.gone /\ Working("idle")

deleteORCResources == Condemn(orc, orcTeardownChildren)
deleteOwnedPushSecrets == Condemn(push, DOMAIN push)
forceRemoveKORCFinalizers(S) == Drop(deleteORCResources, S)
Released == [cp EXCEPT !.gone = TRUE]
Spends(failing) == /\ failing => trouble < MaxTrouble
                   /\ trouble' = IF failing THEN trouble + 1 ELSE trouble
                   /\ UNCHANGED refused

\* What is deleted by name in a namespace that stays, the tenant store last: of
\* the credentials those of the accounts still declared.  An object whose read
\* or delete fails is logged and skipped.
residueObjects(n) ==
  {"residue", "store"} \union
  {a \in cp.declared : serviceAccountDeliveryNamespace = n}
ResidueOnly(n, missed) == [objs[n] EXCEPT !.residue = IF @ = "ours" THEN "none" ELSE @]
sweepExternalNamespaceResidue(n, missed) ==
  [x \in DOMAIN NoObjects |->
     IF x \in residueObjects(n) /\ objs[n][x] = "ours" /\ <<n, x>> \notin missed
     THEN "none" ELSE objs[n][x]]
DeleteAnyNamespace(n) == [space[n] EXCEPT !.going = @ \/ Exists(n)]
deleteManagedNamespace(n) ==
  [space[n] EXCEPT !.going = @ \/ space[n].owner = "ours"]

AllChildren == UNION {Children(n) : n \in Dedicated}
SweepAtOnce == Dedicated
Swept == {n \in Dedicated : Children(n) = {}}
NotOwned == {n \in Swept : life[n] = "Managed" /\ Usable(n) /\ space[n].owner # "ours"}

Residue ==
  UNION {{<<n, x>> : x \in {y \in residueObjects(n) : objs[n][y] = "ours"}} :
           n \in {m \in Swept : life[m] = "External"}}

teardownDedicatedNamespaces(missed) ==
  /\ child' = Condemn(child, AllChildren)
  /\ objs' = [n \in Everywhere |->
       IF n \in Swept /\ life[n] = "External" THEN sweepExternalNamespaceResidue(n, missed)
       ELSE objs[n]]
  /\ space' = [n \in Everywhere |->
       IF n \in Swept /\ life[n] = "Managed" THEN deleteManagedNamespace(n)
       ELSE space[n]]
  /\ logged' = logged \union missed

\* Nothing of K-ORC's and External Secrets' is left: the namespaces are next,
\* and past the stall timeout they are not waited for either.
ReleaseTo(result) ==
  /\ Deleting /\ AllGone
  /\ \E missed \in SUBSET Residue :
       /\ teardownDedicatedNamespaces(missed)
       /\ Spends(missed # {} \/ result # Released)
  /\ IF AllChildren = {} \/ cp.stalled
       THEN /\ cp' = result
            /\ named' = named \union {Service(s) : s \in AllChildren} \union
                               {Namespace(n) : n \in NotOwned}
       ELSE UNCHANGED cp /\ named' = named \union {Namespace(n) : n \in NotOwned}
  /\ UNCHANGED <<pass, korc, eso, place, life, keys, down>>
Release == ReleaseTo(Released)

ReleaseImports ==
  /\ Deleting /\ onlyUnmanagedLeft
  /\ orc' = forceRemoveKORCFinalizers(remaining)
  /\ push' = deleteOwnedPushSecrets
  /\ UNCHANGED <<cp, pass, rows, minted, bao, spaces, services, down, told, bounds>>

Wait ==
  /\ Deleting /\ ~ AllGone /\ ~ onlyUnmanagedLeft /\ ~ cp.stalled
  /\ orc' = deleteORCResources /\ push' = deleteOwnedPushSecrets
  /\ UNCHANGED <<cp, pass, rows, minted, bao, spaces, services, down, told, bounds>>

\* Past the timeout every finalizer is removed and the loss is named; the
\* ControlPlane is released in the same pass.
EscapeButPushes(result) ==
  /\ Deleting /\ cp.stalled /\ ~ AllGone /\ ~ onlyUnmanagedLeft
  /\ orc' = forceRemoveKORCFinalizers(remaining)
  /\ push' = deleteOwnedPushSecrets
  /\ named' = named \union orphaned
  /\ cp' = IF pushRemaining = {} THEN result ELSE cp
  /\ Spends(result # Released)
  /\ UNCHANGED <<pass, rows, minted, bao, spaces, services, down, logged>>
EscapeTo(result) ==
  /\ Deleting /\ cp.stalled /\ ~ AllGone /\ ~ onlyUnmanagedLeft
  /\ orc' = forceRemoveKORCFinalizers(remaining)
  /\ push' = Drop(push, pushRemaining)
  /\ named' = named \union orphaned \union {Path(p) : p \in pushRemaining}
  /\ cp' = result
  /\ Spends(result # Released)
  /\ UNCHANGED <<pass, rows, minted, bao, spaces, services, down, logged>>
Escape == EscapeTo(Released)

\* The last update of either pass, which releases the ControlPlane, is refused.
ReleaseRefused ==
  \/ (AllChildren = {} \/ cp.stalled) /\ ReleaseTo(cp)
  \/ EscapeTo(cp)

\* One of the updates is refused, and the pass ends before its warnings.
EscapeFails ==
  /\ Deleting /\ cp.stalled /\ orphaned # {}
  /\ trouble < MaxTrouble /\ trouble' = trouble + 1 /\ refused' = TRUE
  /\ \E done \in SUBSET remaining :
       done # remaining /\ orc' = forceRemoveKORCFinalizers(done)
  /\ push' = deleteOwnedPushSecrets
  /\ UNCHANGED <<cp, pass, rows, minted, bao, spaces, services, down, told>>

-----------------------------------------------------------------------------
(* K-ORC, External Secrets and the service operators.                      *)

\* K-ORC has the clouds.yaml Secrets of the ControlPlane's namespace.
Authenticates ==
  /\ "keystone" \notin down /\ objs[Home].residue = "ours"
  /\ place["keystone"] = Nowhere \/ child["keystone"] # "absent"

\* What refers to an object holds it back.
Referrers(o) ==
  IF o \in AdminImports THEN {ApplicationCredential}
  ELSE IF o.kind = "Domain" THEN {User(o.of)} ELSE {}

CreateResource(o) ==
  /\ Authenticates /\ orc[o] = "live" /\ o \in managed \ rows
  /\ rows' = rows \union {o}
  /\ minted' = (minted \/ o = ApplicationCredential)
  /\ UNCHANGED <<cp, pass, orc, eso, spaces, services, down, told, bounds>>

\* An import is read again first, with the application credential once that
\* was minted.
FinalizeResource(o) ==
  /\ Authenticates /\ orc[o] = "dying" /\ Referrers(o) \subseteq Absent(orc)
  /\ o \notin managed /\ minted => ApplicationCredential \in rows
  /\ orc' = Drop(orc, {o}) /\ rows' = rows \ {o}
  /\ UNCHANGED <<cp, pass, minted, eso, spaces, services, down, told, bounds>>

StoreWorks(n) == "openbao" \notin down /\ objs[n].store = "ours"

SyncPush(p) ==
  /\ push[p] = "live" /\ StoreWorks(PushNamespace(p)) /\ p \notin bao
  /\ bao' = bao \union {p}
  /\ UNCHANGED <<cp, pass, korc, push, spaces, services, down, told, bounds>>

PurgePush(p) ==
  /\ push[p] = "dying" /\ StoreWorks(PushNamespace(p))
  /\ push' = Drop(push, {p}) /\ bao' = bao \ {p}
  /\ UNCHANGED <<cp, pass, korc, spaces, services, down, told, bounds>>

\* Keystone mirrors its keys, and does not go before they are purged.
MirrorKeys ==
  /\ child["keystone"] = "live" /\ StoreWorks(place["keystone"]) /\ ~ keys
  /\ keys' = TRUE
  /\ UNCHANGED <<cp, pass, korc, eso, spaces, child, down, told, bounds>>

PurgeKeys ==
  /\ child["keystone"] = "dying" /\ StoreWorks(place["keystone"]) /\ keys
  /\ keys' = FALSE
  /\ UNCHANGED <<cp, pass, korc, eso, spaces, child, down, told, bounds>>

\* With the service go its database and what K-ORC made in it.
FinalizeChild(s) ==
  /\ child[s] = "dying" /\ (s = "keystone" => ~ keys)
  /\ child' = Drop(child, {s})
  /\ rows' = IF s = "keystone" THEN {} ELSE rows
  /\ UNCHANGED <<cp, pass, orc, minted, eso, spaces, keys, down, told, bounds>>

-----------------------------------------------------------------------------
(* Kubernetes: what goes with a namespace, and with its owner.             *)

Leaving(n) == IF n = Home THEN cp.gone ELSE space[n].going

CollectChild(s) ==
  /\ place[s] # Nowhere /\ Leaving(place[s]) /\ child[s] = "live"
  /\ child' = Condemn(child, {s})
  /\ UNCHANGED <<cp, pass, korc, eso, spaces, keys, down, told, bounds>>

\* The store before or after the rest, whose order nothing depends on.
CollectObjects(n) ==
  /\ Leaving(n)
  /\ \E S \in {{"store"}, DOMAIN NoObjects \ {"store"}} :
       /\ \E x \in S : objs[n][x] # "none"
       /\ objs' = [objs EXCEPT ![n] =
                     [x \in DOMAIN NoObjects |-> IF x \in S THEN "none" ELSE @[x]]]
  /\ UNCHANGED <<cp, pass, korc, eso, place, life, space, services, down, told, bounds>>

CollectPush(p) ==
  /\ Leaving(PushNamespace(p)) /\ push[p] = "live"
  /\ push' = Condemn(push, {p})
  /\ UNCHANGED <<cp, pass, korc, bao, spaces, services, down, told, bounds>>

CollectResource(o) ==
  /\ cp.gone /\ orc[o] = "live" /\ orc' = Condemn(orc, {o})
  /\ UNCHANGED <<cp, pass, rows, minted, eso, spaces, services, down, told, bounds>>

CollectNamespace(n) ==
  /\ n # Home /\ space[n].going /\ objs[n] = NoObjects /\ Children(n) = {}
  /\ \A p \in Present(push) : PushNamespace(p) # n
  /\ space' = [space EXCEPT ![n] = [owner |-> "none", going |-> FALSE]]
  /\ UNCHANGED <<cp, pass, korc, eso, place, life, objs, services, down, told, bounds>>

-----------------------------------------------------------------------------
(* Users, other tenants, outages and the clock.                            *)

Trouble == trouble < MaxTrouble /\ trouble' = trouble + 1 /\ UNCHANGED refused

Undeclare ==
  /\ Trouble /\ ~ cp.deleting
  /\ \E a \in cp.declared : cp' = [cp EXCEPT !.declared = @ \ {a}]
  /\ UNCHANGED <<pass, korc, eso, spaces, services, down, told>>

\* Without the finalizer it is gone at once.
Delete ==
  /\ ~ cp.deleting /\ cp' = [cp EXCEPT !.deleting = TRUE, !.gone = ~ cp.held]
  /\ UNCHANGED <<pass, korc, eso, spaces, services, down, told, bounds>>

Stall ==
  /\ Deleting /\ ~ cp.stalled /\ cp' = [cp EXCEPT !.stalled = TRUE]
  /\ UNCHANGED <<pass, korc, eso, spaces, services, down, told, bounds>>

OccupyNamespace(n) ==
  /\ Trouble /\ n \in Dedicated /\ ~ Exists(n)
  /\ space' = [space EXCEPT ![n] = [owner |-> "theirs", going |-> FALSE]]
  /\ UNCHANGED <<cp, pass, korc, eso, place, life, objs, services, down, told>>

OccupyObject(n) ==
  /\ Trouble /\ n \in Dedicated /\ Usable(n)
  /\ \E x \in DOMAIN NoObjects :
       objs[n][x] = "none" /\ objs' = [objs EXCEPT ![n][x] = "theirs"]
  /\ UNCHANGED <<cp, pass, korc, eso, place, life, space, services, down, told>>

DeleteNamespace(n) ==
  /\ Trouble /\ n \in Dedicated /\ Usable(n)
  /\ space' = [space EXCEPT ![n].going = TRUE]
  /\ UNCHANGED <<cp, pass, korc, eso, place, life, objs, services, down, told>>

Outage ==
  /\ Trouble /\ \E x \in {"keystone", "openbao"} \ down : down' = down \union {x}
  /\ UNCHANGED <<cp, pass, korc, eso, spaces, services, told>>

Recover ==
  /\ \E x \in down : down' = down \ {x}
  /\ UNCHANGED <<cp, pass, korc, eso, spaces, services, told, bounds>>

-----------------------------------------------------------------------------
Init ==
  /\ cp = [declared |-> Accounts, held |-> FALSE, deleting |-> FALSE,
           gone |-> FALSE, stalled |-> FALSE]
  /\ pass = Idle
  /\ orc = [o \in orcObjects |-> "absent"] /\ rows = {} /\ minted = FALSE
  /\ push = [p \in Accounts \union {"admin"} |-> "absent"] /\ bao = {}
  /\ place \in Placements
  /\ life \in [Namespaces -> {"Managed", "External"}]
  /\ \A n \in Namespaces \ Dedicated : life[n] = "Managed"
  /\ space = [n \in Everywhere |->
       [owner |-> IF n = Home \/ life[n] = "External" THEN "theirs" ELSE "none",
        going |-> FALSE]]
  /\ objs = [n \in Everywhere |-> NoObjects]
  /\ child = [s \in Services |-> "absent"] /\ keys = FALSE
  /\ down = {} /\ named = {} /\ logged = {} /\ trouble = 0 /\ refused = FALSE

LivePass ==
  \/ Begin \/ reconcileNamespaces \/ ensureObjects \/ reconcileChildren
  \/ reconcileKORC \/ reconcileServiceAccounts
DeletionPass == Release \/ ReleaseImports \/ Wait \/ Escape
Cloud ==
  \/ \E o \in orcObjects : CreateResource(o) \/ FinalizeResource(o)
  \/ \E p \in DOMAIN push : SyncPush(p) \/ PurgePush(p)
  \/ MirrorKeys \/ PurgeKeys
  \/ \E s \in Services : FinalizeChild(s)
Kubernetes ==
  \/ \E s \in Services : CollectChild(s)
  \/ \E p \in DOMAIN push : CollectPush(p)
  \/ \E o \in orcObjects : CollectResource(o)
  \/ \E n \in Everywhere : CollectObjects(n) \/ CollectNamespace(n)
World ==
  \/ Undeclare \/ Delete \/ Stall \/ Outage \/ Recover
  \/ \E n \in Namespaces : OccupyNamespace(n) \/ OccupyObject(n) \/ DeleteNamespace(n)

Next == LivePass \/ DeletionPass \/ EscapeFails \/ ReleaseRefused \/ Cloud \/ Kubernetes \/ World

\* The queue retries a pass until it is done, and time passes.  Nothing is
\* asked of Keystone, OpenBao, K-ORC or the service operators.
Spec == Init /\ [][Next]_vars /\ WF_vars(LivePass \/ DeletionPass) /\ WF_vars(Stall)

-----------------------------------------------------------------------------
(* Properties.                                                             *)

\* What a released ControlPlane leaves in OpenStack and OpenBao is named in a
\* warning: the resources behind the K-ORC objects whose finalizers were
\* forced (reconcile_delete.go:526), and the paths of stuck PushSecrets.
\* Only of a force-removal that stopped half-way is that not required.
AllNamed == cp.gone => rows \union {Path(p) : p \in bao} \subseteq named
Accounted == ~ refused => AllNamed

\* A release before the stall timeout forgets nothing in a dedicated namespace,
\* where no garbage collector looks (reconcile_delete.go:441): no service and no
\* key of Keystone's is left, and an object only in a namespace that goes or is
\* named in the NamespaceNotOwned warning, or as one that the sweep logged, or
\* as the credential of an account that is no longer declared.
OrderlyIsClean ==
  cp.gone /\ ~ cp.stalled =>
    /\ AllChildren = {}
    /\ place["keystone"] \in Dedicated => ~ keys
    /\ \A n \in Dedicated : \A x \in DOMAIN NoObjects :
         objs[n][x] = "ours" => \/ space[n].going \/ Namespace(n) \in named
                               \/ <<n, x>> \in logged \/ x \in Accounts \ cp.declared

\* The teardown takes away a tenant store, alone or with its namespace, only
\* once no service that purges its keys through it is left in the namespace
\* (reconcile_delete.go:601).
StoreOutlivesChild ==
  [][\A n \in Dedicated :
       \/ objs[n].store = "ours" /\ objs[n].store' = "none" /\ ~ Leaving(n)
       \/ Usable(n) /\ space[n]'.going /\ ~ DeleteNamespace(n)
       => Children(n) = {}]_vars

\* A namespace, a store or a database that somebody else created under the
\* same name is never deleted, whatever became of ours before
\* (reconcile_delete.go:728, reconcile_namespaces.go:162).
ForeignKept ==
  [][\A n \in Namespaces :
       /\ space[n].owner = "theirs" /\ ~ DeleteNamespace(n) =>
            space[n]'.going = space[n].going \/ ~ Exists(n)'
       /\ \A x \in DOMAIN NoObjects :
            objs[n][x] = "theirs" /\ ~ Leaving(n) => objs[n][x]' = "theirs"]_vars

\* A ControlPlane that is deleted goes, whether or not Keystone, OpenBao or
\* the operators ever answer (reconcile_delete.go:399).
DeletionEnds == cp.deleting ~> cp.gone

\* A release leaves no service behind in a dedicated namespace that the
\* warnings do not name (reconcile_delete.go:441).
NothingStranded == cp.gone => {Service(s) : s \in AllChildren} \subseteq named

\* No K-ORC object is left to a garbage collector that cannot finish it
\* (reconcile_delete.go:248).
NoOrphanCR == cp.gone => Present(orc) = {}

\* "Any service-account credential delivered into this namespace" is swept
\* (reconcile_delete.go:829), whether or not its account is still declared.
CredentialsSwept ==
  cp.gone /\ ~ cp.stalled =>
    \A n \in Dedicated : \A a \in Accounts :
      objs[n][a] = "ours" /\ life[n] = "External" => <<n, a>> \in logged

\* The store that purges Keystone's keys is there as long as they are
\* (reconcile_delete.go:601).
StoreOutlivesKeys == keys => objs[place["keystone"]].store = "ours"
===============================================================================
