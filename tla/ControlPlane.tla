----------------------------- MODULE ControlPlane -----------------------------
(***************************************************************************)
(* The ControlPlanes of a cluster: their admission as the API server does  *)
(* it, concurrently; the guard that leaves one of them in charge of a      *)
(* namespace; the pass that projects its Keystone and Horizon children and *)
(* mirrors their readiness; and the children themselves, which belong to   *)
(* it by an owner reference in its own namespace and by labels in another. *)
(*                                                                         *)
(* A pass reads the informer cache once and is one step here.  Teardown    *)
(* details the deletion of which Finalize is the outline.                  *)
(***************************************************************************)
EXTENDS Admission, ReconcileFlow

CONSTANTS
  CPs,              \* pairs of a namespace and a name a ControlPlane may have
  Drafts,           \* for each, the specs a user may create it with
  Edits(_),         \* the specs a user may submit in place of a given one
  Places,           \* the namespaces and names a child may have
  Strangers,        \* the places of Keystones that nobody here created
  StrangerSpec,     \* and what they look like
  Earlier(_, _),    \* the lexical order of names
  MaxCreates, MaxChanges      \* bounds

\* No object is nameless, and a child may be in any namespace that a spec can
\* declare.
Nobody == <<"", "">>
ASSUME ControlPlaneAssumption ==
  /\ Nobody \notin CPs
  /\ \A c \in CPs : \A ns \in {c[1]} \union Labels : <<ns, c[2]>> \in Places

VARIABLES
  stored,           \* the ControlPlanes in the API server
  pending,          \* creations that were admitted and are not stored yet
  raced,            \* the pairs, name and UID, whose admissions overlapped
  conds,            \* their status conditions
  queue,            \* the ControlPlanes due for a pass
  keystones, horizons,   \* the children, by place
  down,             \* the step, other than these two, that cannot succeed
  sso,              \* the OIDC backends: "none" attached, "awaiting", "ready"
  creates, spent                                  \* what the bounds count

api  == <<stored, pending, raced>>
children == <<keystones, horizons>>
world == <<down, sso>>
bounds == <<creates, spent>>
vars == <<api, conds, queue, children, world, bounds>>

\* An edit costs one, a trouble of the rest of the cluster two.
Spend(cost) == spent' = spent + cost /\ spent' <= MaxChanges

Home(c) == c[1]
Name(c) == c[2]
Id(c, object) == [cp |-> c, uid |-> object.uid]

-----------------------------------------------------------------------------
(* Ownership.                                                              *)

Labelled(c) == [cp |-> c, uid |-> 0]
Foreign == Labelled(Nobody)

claimChildOwnership(c, cp, place) ==
  IF place[1] = Home(c) THEN Id(c, cp) ELSE Labelled(c)
isControlPlaneChild(child, c, cp) ==
  child.owner \in {Id(c, cp), Labelled(c)}

\* A second controller reference is refused; a label is overwritten, and an
\* object that nothing controls is adopted.
Owns(child, claim) == child.owner.uid \in {0, claim.uid}

KeystonePlace(c, s) == <<KeystoneNamespace(Home(c), s), Name(c)>>
HorizonPlace(c, s)  == <<HorizonNamespace(Home(c), s), Name(c)>>

-----------------------------------------------------------------------------
(* Users and the API server.                                               *)

TypesInOrder ==
  <<"Namespaces", "Infrastructure", "ESOTenantStore", "DBCredentials", "AdminPassword",
    "Keystone", "Horizon", "KORC", "AdminCredential", "Catalog", "ServiceAccounts">>
subConditionTypes == ToSet(TypesInOrder)
NoConditions == [t \in subConditionTypes \union {"Ready"} |-> Unset]

Existing ==
  UNION {{[home |-> Home(c), spec |-> cp.spec] : cp \in stored[c]} : c \in CPs}

\* A creationTimestamp orders the ControlPlanes of a namespace, down to the
\* second: one that is admitted after another may have the same.
Timestamps(c) ==
  LET peers == {p \in pending : Home(p.cp) = Home(c)} \union
               UNION {stored[d] : d \in {e \in CPs : Home(e) = Home(c)}}
      latest == Max({p.created : p \in peers} \union {0})
  IN  IF peers = {} THEN {0} ELSE {latest, latest + 1}

\* The webhook lists the ControlPlanes that are stored; what another request
\* has had admitted and not stored yet it cannot see.
AdmitCreate(c, draft) ==
  /\ creates < MaxCreates
  /\ stored[c] = {} /\ \A p \in pending : p.cp # c
  /\ \E s \in {Default(draft)} :
       /\ ValidateCreate(Home(c), Name(c), s, Existing)
       /\ \E t \in Timestamps(c) :
            pending' = pending \union
              {[cp |-> c, uid |-> creates + 1, spec |-> s, created |-> t]}
  /\ creates' = creates + 1
  /\ UNCHANGED <<stored, raced, spent, conds, queue, children, world>>

StoreCreate(p) ==
  /\ pending' = pending \ {p}
  /\ stored' = [stored EXCEPT ![p.cp] =
       {[spec |-> p.spec, uid |-> p.uid, gen |-> 1, created |-> p.created,
         finalizer |-> FALSE, deleting |-> FALSE, allow |-> FALSE]}]
  /\ raced' = raced \union {{Id(p.cp, p), Id(q.cp, q)} : q \in pending \ {p}}
  /\ conds' = [conds EXCEPT ![p.cp] = NoConditions]
  /\ queue' = queue \union {p.cp}
  /\ UNCHANGED <<children, world, bounds>>

\* Generation, annotations and a new deletionTimestamp pass CRUpdatePredicate.
\* What an edit of a terminating one changes is read by nothing here.
Store(c, cp) ==
  /\ stored' = [stored EXCEPT ![c] = {cp}]
  /\ queue' = queue \union {c}
  /\ UNCHANGED <<pending, raced, creates, conds, children, world>>

Update(c, edit) ==
  /\ Spend(1)
  /\ \E cp \in stored[c] : \E s \in {Default(edit)} :
       /\ ~ cp.deleting /\ s # cp.spec
       /\ ValidateUpdate(Home(c), Name(c), cp.spec, s)
       /\ Store(c, [cp EXCEPT !.spec = s, !.gen = @ + 1])

AllowDeletion(c) ==
  /\ Spend(1)
  /\ \E cp \in stored[c] : ~ cp.allow /\ Store(c, [cp EXCEPT !.allow = TRUE])

Forget(c) ==
  /\ stored' = [stored EXCEPT ![c] = {}]
  /\ queue' = queue \ {c}
  /\ UNCHANGED <<pending, raced, creates, conds, children, world>>

\* Without a finalizer the object is gone at once.
Delete(c) ==
  \E cp \in stored[c] :
    /\ ~ cp.deleting /\ UNCHANGED spent
    /\ IF cp.finalizer THEN Store(c, [cp EXCEPT !.deleting = TRUE]) ELSE Forget(c)

-----------------------------------------------------------------------------
(* The duplicate guard.                                                    *)

Older(d, c) ==
  \E o \in stored[d], cp \in stored[c] :
    \/ o.created < cp.created
    \/ o.created = cp.created /\ Earlier(Name(d), Name(c))
duplicateControlPlaneIncumbent(c) ==
  {d \in CPs \ {c} : Home(d) = Home(c) /\ Older(d, c)}

Requeue(c) == queue' = queue
Done(c) == queue' = queue \ {c}

\* Mutant: the parked one is not requeued.
ParkedForgotten(c, cp) ==
  /\ conds' = [conds EXCEPT ![c] = SetCondition(@, "Ready", "False", cp.gen)]
  /\ Done(c)
  /\ UNCHANGED <<api, children, world, bounds>>

\* Only Ready is written; the requeue is what notices that the incumbent went.
parkDuplicateControlPlane(c, cp) ==
  /\ conds' = [conds EXCEPT ![c] = SetCondition(@, "Ready", "False", cp.gen)]
  /\ Requeue(c)
  /\ UNCHANGED <<api, children, world, bounds>>

-----------------------------------------------------------------------------
(* The children.  A child's status is current once its operator has seen   *)
(* the spec; until then it says what it said of the previous one.          *)

NewChild(claim, spec) ==
  [owner |-> claim, spec |-> spec, ready |-> FALSE, current |-> FALSE, deleting |-> FALSE]

\* Server-side apply, and create-or-update, of a desired spec.
ApplyChild(old, claim, spec) ==
  IF old = {} THEN {NewChild(claim, spec)}
  ELSE {[o EXCEPT !.owner = claim, !.spec = spec, !.current = @ /\ o.spec = spec] : o \in old}

\* What a step leaves of its child, and how it ended.
Step(child, end) == [child |-> child, end |-> end]

\* Rejected, by a webhook, a transition rule or a second controller, the
\* apply leaves the child as it is.
ProjectChild(old, claim, spec, accepted) ==
  IF ~ accepted \/ \E o \in old : ~ Owns(o, claim) THEN Step(old, "failed")
  ELSE LET new == ApplyChild(old, claim, spec)
       IN  Step(new, IF \A n \in new : n.ready THEN "ready" ELSE "waiting")

\* Mutant: the block's removal is taken for the request.
DeleteOrphanUnasked(old, c, cp) ==
  Step({IF isControlPlaneChild(o, c, cp) THEN [o EXCEPT !.deleting = TRUE]
        ELSE o : o \in old}, "ready")

\* The service's block is gone: its child is deleted only on request.  One flag
\* stands for the annotations of the two services.
DeleteOrphan(old, c, cp) ==
  Step({IF cp.allow /\ isControlPlaneChild(o, c, cp) THEN [o EXCEPT !.deleting = TRUE]
        ELSE o : o \in old}, "ready")

reconcileKeystone(c, cp) ==
  LET s == cp.spec
      place == KeystonePlace(c, s)
      old == keystones[place]
  IN  IF s.ks = {} THEN DeleteOrphan(old, c, cp)
      ELSE IF IsExternalKeystone(s) THEN Step(old, "ready")
      ELSE ProjectChild(old, claimChildOwnership(c, cp, place), keystoneChild(s),
             KeystoneAccepts({o.spec : o \in old}, keystoneChild(s)))

\* The login page offers SSO when a backend is ready and both ends of the
\* hand-off are published; a backend that lost its readiness keeps it.
projectWebSSO(s, current) ==
  \/ sso = "ready" /\ Has(trustedDashboards(s)) /\ Has(keystonePublicEndpoint(s))
  \/ sso = "awaiting" /\ current
horizonChild(s, old) ==
  LET hz == CHOOSE h \in s.hz : TRUE
  IN  [image |-> Or(hz.image, DefaultImage(s.rel)), cache |-> effectiveHorizonCache(s),
       secretKey |-> hz.secretKey, store |-> s.store, gateway |-> hz.gateway,
       websso |-> projectWebSSO(s, \E o \in old : o.spec.websso)]

reconcileHorizon(c, cp) ==
  LET s == cp.spec
      place == HorizonPlace(c, s)
      old == horizons[place]
  IN  IF s.hz = {} THEN DeleteOrphan(old, c, cp)
      ELSE ProjectChild(old, claimChildOwnership(c, cp, place), horizonChild(s, old), TRUE)

-----------------------------------------------------------------------------
(* The pass.                                                               *)

SetFinalizer(c, cp) ==
  /\ stored' = [stored EXCEPT ![c] = {[cp EXCEPT !.finalizer = TRUE]}]
  /\ Requeue(c)
  /\ UNCHANGED <<pending, raced, conds, children, world, bounds>>

\* What the pipeline leaves in the conditions when the step at index `stop'
\* ends it: the later ones keep what an earlier pass found.  The store lookup
\* of DBCredentials fails without a word in its own.
AfterPipeline(old, gen, stop) ==
  [t \in DOMAIN old |->
     IF \E i \in DOMAIN TypesInOrder : i < stop /\ TypesInOrder[i] = t
     THEN Condition("True", gen)
     ELSE IF stop \in DOMAIN TypesInOrder /\ t = TypesInOrder[stop] /\ t # "DBCredentials"
     THEN Condition("False", gen) ELSE old[t]]

IndexOf(type) ==
  IF type = "" THEN Len(TypesInOrder) + 1
  ELSE CHOOSE i \in DOMAIN TypesInOrder : TypesInOrder[i] = type

\* A creation is stored before the platform of a namespace is up that had no
\* ControlPlane when the creation was admitted.
NotYet(c) ==
  IF \E p \in pending : Home(p.cp) = Home(c) THEN "Infrastructure" ELSE down

\* The first step that does not succeed ends the pass, and its requeue or its
\* error brings the next; a pass that finds all well waits for an event.
RunPipeline(c, cp) ==
  \E ks \in {reconcileKeystone(c, cp)}, hz \in {reconcileHorizon(c, cp)},
     other \in {IndexOf(NotYet(c))} :
  \E atKS \in {other > IndexOf("Keystone")} :
  \E atHZ \in {other > IndexOf("Horizon") /\ ks.end = "ready"} :
  \E stop \in {IF atKS /\ ks.end # "ready" THEN IndexOf("Keystone")
               ELSE IF atHZ /\ hz.end # "ready" THEN IndexOf("Horizon") ELSE other} :
    /\ keystones' = IF atKS THEN [keystones EXCEPT ![KeystonePlace(c, cp.spec)] = ks.child]
                    ELSE keystones
    /\ horizons' = IF atHZ THEN [horizons EXCEPT ![HorizonPlace(c, cp.spec)] = hz.child]
                   ELSE horizons
    /\ conds' = [conds EXCEPT ![c] =
         SetAggregateReady(AfterPipeline(@, cp.gen, stop), cp.gen, subConditionTypes)]
    /\ IF stop > Len(TypesInOrder) THEN Done(c) ELSE Requeue(c)
    /\ UNCHANGED <<api, world, bounds>>

\* Deletion: children in other namespaces are deleted by hand and waited for;
\* those at home follow the object.
Abroad(c, objs) ==
  {p \in Places : p[1] # Home(c) /\ \E o \in objs[p] : o.owner = Labelled(c)}
Condemn(objs, places) ==
  [p \in Places |-> IF p \in places THEN {[o EXCEPT !.deleting = TRUE] : o \in objs[p]}
                    ELSE objs[p]]
Finalize(c, cp) ==
  IF cp.finalizer /\ Abroad(c, keystones) \union Abroad(c, horizons) = {}
  THEN Forget(c) /\ UNCHANGED spent
  ELSE /\ keystones' = Condemn(keystones, Abroad(c, keystones))
       /\ horizons' = Condemn(horizons, Abroad(c, horizons))
       /\ Requeue(c)
       /\ UNCHANGED <<api, conds, world, bounds>>

Reconcile(c) ==
  /\ c \in queue
  /\ \E cp \in stored[c] :
       \/ cp.deleting /\ Finalize(c, cp)
       \/ /\ ~ cp.deleting /\ Has(duplicateControlPlaneIncumbent(c))
          /\ parkDuplicateControlPlane(c, cp)
       \/ /\ ~ cp.deleting /\ ~ Has(duplicateControlPlaneIncumbent(c))
          /\ ~ cp.finalizer /\ SetFinalizer(c, cp)
       \/ /\ ~ cp.deleting /\ ~ Has(duplicateControlPlaneIncumbent(c))
          /\ cp.finalizer /\ RunPipeline(c, cp)

-----------------------------------------------------------------------------
(* The rest of the cluster.                                                *)

\* An event on a child wakes its owner: Owns at home, the labels abroad.
Wakes(child) == {child.owner.cp} \intersect {c \in CPs : Has(stored[c])}

\* The service's operator reports on the spec it has just reconciled.
Report(objs, p) ==
  \E o \in objs[p], r \in BOOLEAN :
    /\ ~ o.deleting /\ (o.current => r # o.ready)
    /\ IF r THEN UNCHANGED spent ELSE Spend(2)
    /\ objs' = [objs EXCEPT ![p] = {[o EXCEPT !.ready = r, !.current = TRUE]}]
    /\ queue' = queue \union Wakes(o)

\* Gone: deleted, or collected because what owned it is.
Orphan(o) == o.owner.uid # 0 /\ \A cp \in stored[o.owner.cp] : cp.uid # o.owner.uid
Collect(objs, p) ==
  \E o \in objs[p] :
    /\ o.deleting \/ Orphan(o)
    /\ objs' = [objs EXCEPT ![p] = {}]
    /\ queue' = queue \union Wakes(o)
    /\ UNCHANGED spent

KeystoneEvent(p) ==
  /\ Report(keystones, p) \/ Collect(keystones, p)
  /\ UNCHANGED <<api, conds, horizons, down, sso, creates>>
HorizonEvent(p) ==
  /\ Report(horizons, p) \/ Collect(horizons, p)
  /\ UNCHANGED <<api, conds, keystones, down, sso, creates>>

\* Every object of the other steps is watched, as the backends are.
Live == {c \in CPs : Has(stored[c])}
BreakDown(step) ==
  /\ down = "" /\ Spend(2)
  /\ down' = step /\ queue' = queue \union Live
  /\ UNCHANGED <<api, conds, children, sso, creates>>
Recover ==
  /\ down # "" /\ down' = "" /\ queue' = queue \union Live
  /\ UNCHANGED <<api, conds, children, sso, bounds>>
Attach(state) ==
  /\ sso # state /\ Spend(2)
  /\ sso' = state /\ queue' = queue \union Live
  /\ UNCHANGED <<api, conds, children, down, creates>>

-----------------------------------------------------------------------------
Init ==
  /\ stored = [c \in CPs |-> {}] /\ pending = {} /\ raced = {}
  /\ conds = [c \in CPs |-> NoConditions] /\ queue = {}
  /\ keystones = [p \in Places |->
       IF p \in Strangers
       THEN {[NewChild(Foreign, StrangerSpec) EXCEPT !.ready = TRUE, !.current = TRUE]} ELSE {}]
  /\ horizons = [p \in Places |-> {}]
  /\ down = "" /\ sso = "ready"
  /\ creates = 0 /\ spent = 0

User ==
  \/ \E c \in CPs : \E s \in Drafts[c] : AdmitCreate(c, s)
  \/ \E p \in pending : StoreCreate(p)
  \/ \E c \in CPs : \E cp \in stored[c] : \E s \in Edits(cp.spec) : Update(c, s)
  \/ \E c \in CPs : AllowDeletion(c) \/ Delete(c)
World ==
  \/ \E p \in Places : KeystoneEvent(p) \/ HorizonEvent(p)
  \/ \E step \in {"Infrastructure", "DBCredentials", "Catalog"} : BreakDown(step)
  \/ Recover
  \/ \E state \in {"none", "awaiting", "ready"} : Attach(state)
Next == User \/ World \/ \E c \in CPs : Reconcile(c)

\* Users and troubles are not fair; what the API server has admitted it
\* stores, and passes, the services' operators, garbage collection and the end
\* of an outage are fair.
Spec ==
  /\ Init /\ [][Next]_vars /\ WF_vars(Recover)
  /\ WF_vars(\E p \in pending : StoreCreate(p))
  /\ \A c \in CPs : WF_vars(Reconcile(c))
  /\ WF_vars(\E p \in Places : KeystoneEvent(p) \/ HorizonEvent(p))

-----------------------------------------------------------------------------
(* Properties.                                                             *)

\* A namespace is the key of OpenBao paths and of a tenant's store, so it is
\* claimed by one ControlPlane (validateUniqueInNamespace and
\* validateNamespaceClaims, at creation only).  What creation checked no edit
\* undoes: two ControlPlanes meet in a namespace only when their admissions
\* overlapped, so that neither could see the other.
Namespaces(c, cp) == controlPlaneNamespaces(Home(c), cp.spec)
OnlyRacesCollide ==
  \A c, d \in CPs : \A cp \in stored[c], dp \in stored[d] :
    c # d /\ {Id(c, cp), Id(d, dp)} \notin raced =>
      Namespaces(c, cp) \intersect Namespaces(d, dp) = {}

\* A field that the Keystone API freezes is frozen on the ControlPlane too,
\* so that no legal sequence of edits, dropping the services.keystone block
\* and declaring it again included, leads to a projection that the child's
\* API rejects for ever; the one exception is the public endpoint.
OnlyEndpointRejected ==
  \A c \in CPs : \A cp \in stored[c] :
    Has(cp.spec.ks) /\ ~ IsExternalKeystone(cp.spec) =>
      \A o \in keystones[KeystonePlace(c, cp.spec)] :
        isControlPlaneChild(o, c, cp) => KeystoneFrozen(o.spec, keystoneChild(cp.spec))

\* A Keystone child holds keys that exist nowhere else.  It goes with its
\* ControlPlane, or when its block is gone and the annotation asks for it:
\* never by an edit alone, a parked ControlPlane or a re-created one.
Doomed(o, p) ==
  LET c == o.owner.cp
  IN  \/ o.deleting \/ Orphan(o)
      \/ \E cp \in stored[c] : cp.deleting \/ (cp.allow /\ cp.spec.ks = {})
KeysKept ==
  [][\A p \in Places : \A o \in keystones[p] :
       (\A n \in keystones'[p] : n.deleting) => Doomed(o, p)]_vars

\* Left alone, every ControlPlane comes to rest: it is gone if it was
\* deleted; it is parked, and says so, behind an older one; or it is Ready for
\* its generation and its children run what its spec says.  One whose endpoint
\* the child's API rejects, or that has met another in a namespace, need not.
Runs(objs, p, spec) == \E o \in objs[p] : o.spec = spec /\ o.ready /\ o.current
Converged(c, cp) ==
  LET s == cp.spec
  IN  /\ conds[c]["Ready"] = Condition("True", cp.gen)
      /\ Has(s.ks) /\ ~ IsExternalKeystone(s) =>
           Runs(keystones, KeystonePlace(c, s), keystoneChild(s))
      /\ Has(s.hz) => \E o \in horizons[HorizonPlace(c, s)] :
           o.ready /\ o.current /\ o.spec = horizonChild(s, {o})
Excused(c, cp) ==
  \/ Has(cp.spec.ks) /\ ~ IsExternalKeystone(cp.spec)
     /\ ~ validateKeystoneEndpoint(keystoneChild(cp.spec))
  \/ \E pair \in raced : Id(c, cp) \in pair /\ \E d \in pair : Home(d.cp) # Home(c)
Settled(c) ==
  \A cp \in stored[c] :
    /\ ~ cp.deleting
    /\ IF Has(duplicateControlPlaneIncumbent(c))
       THEN conds[c]["Ready"].st = "False"
       ELSE Excused(c, cp) \/ Converged(c, cp)
PlaneSettles == \A c \in CPs : <>[]Settled(c)

\* Ready at the current generation speaks of the current spec
\* (controlplane_types.go: "so consumers can tell a stale condition from one
\* reflecting the current spec").  ProjectChild mirrors the readiness that
\* the child's status has from before the apply.
ReadyIsCurrent ==
  \A c \in CPs : \A cp \in stored[c] :
    Has(cp.spec.ks) /\ ~ IsExternalKeystone(cp.spec)
      /\ conds[c]["Keystone"] = Condition("True", cp.gen) =>
        Runs(keystones, KeystonePlace(c, cp.spec), keystoneChild(cp.spec))

\* An object that was here before is never reshaped
\* (reconcile_namespaces.go, isControlPlaneChild).
ForeignKept ==
  [][\A p \in Places : \A o \in keystones[p] :
       o.owner = Foreign => \E n \in keystones'[p] : n.owner = o.owner /\ n.spec = o.spec]_vars
=============================================================================
