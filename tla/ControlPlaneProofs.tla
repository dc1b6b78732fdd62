-------------------------- MODULE ControlPlaneProofs --------------------------
(***************************************************************************)
(* For any number of ControlPlanes, namespaces, specs, edits, troubles and *)
(* foreign objects: two ControlPlanes meet in a namespace only through a   *)
(* race of their admissions; a Keystone child, which holds keys that exist *)
(* nowhere else, is only deleted when it was asked for; and no sequence of *)
(* edits leads to a projection that the child's API rejects for ever, but  *)
(* for the public endpoint.                                                *)
(***************************************************************************)
EXTENDS ControlPlane, TLAPS

Lone(S) == \A x, y \in S : x = y

PlaneFields == {"spec", "uid", "gen", "created", "finalizer", "deleting", "allow"}
ChildFields == {"owner", "spec", "ready", "current", "deleting"}

Planes ==
  /\ DOMAIN stored = CPs
  /\ \A c \in CPs : Lone(stored[c])
  /\ \A c \in CPs : \A cp \in stored[c] : DOMAIN cp = PlaneFields
  /\ \A p \in pending : p.cp \in CPs /\ stored[p.cp] = {}
  /\ \A p, q \in pending : p.cp = q.cp => p = q
Children(objs) ==
  /\ objs = [p \in Places |-> objs[p]]
  /\ \A p \in Places : Lone(objs[p])
  /\ \A p \in Places : \A o \in objs[p] : DOMAIN o = ChildFields

\* One that is stored is apart from every other, stored or about to be, unless
\* their admissions overlapped.
Claims(c, s) == controlPlaneNamespaces(Home(c), s)
Apart(c, i, s, d, j, t) ==
  \/ {[cp |-> c, uid |-> i], [cp |-> d, uid |-> j]} \in raced
  \/ Claims(c, s) \intersect Claims(d, t) = {}
StoredApart ==
  \A c, d \in CPs : \A cp \in stored[c], dp \in stored[d] :
    c # d => Apart(c, cp.uid, cp.spec, d, dp.uid, dp.spec)
PendingApart ==
  \A p \in pending : \A d \in CPs : \A dp \in stored[d] :
    Apart(p.cp, p.uid, p.spec, d, dp.uid, dp.spec)

IInv == Planes /\ Children(keystones) /\ StoredApart /\ PendingApart

-----------------------------------------------------------------------------
(* What the webhook guarantees of the namespaces.                          *)

LEMMA ClaimsAre ==
  ASSUME NEW h, NEW s
  PROVE  controlPlaneNamespaces(h, s) =
           {h} \union ({b.name : b \in declaredServiceNamespaces(s)} \ {"", h})
BY DEF controlPlaneNamespaces, DedicatedServiceNamespaces, declaredServiceNamespaces

\* validateServiceNamespacesImmutable: no edit claims or gives up a namespace.
LEMMA EditKeepsClaims ==
  ASSUME NEW h, NEW n, NEW old, NEW new, ValidateUpdate(h, n, old, new)
  PROVE  controlPlaneNamespaces(h, new) = controlPlaneNamespaces(h, old)
<1>1. validateServiceNamespacesImmutable(old, new)
  BY DEF ValidateUpdate, validateImmutable
<1>2. /\ Has(keystoneNamespaceBlock(old)) = Has(keystoneNamespaceBlock(new))
      /\ Has(horizonNamespaceBlock(old)) = Has(horizonNamespaceBlock(new))
      /\ \A o \in keystoneNamespaceBlock(old), m \in keystoneNamespaceBlock(new) :
           o.name = m.name
      /\ \A o \in horizonNamespaceBlock(old), m \in horizonNamespaceBlock(new) :
           o.name = m.name
  BY <1>1 DEF validateServiceNamespacesImmutable, BlockFrozen, FrozenNamespace
<1>3. ASSUME NEW O, NEW N, Has(O) = Has(N), \A o \in O, m \in N : o.name = m.name
      PROVE  {b.name : b \in O} = {b.name : b \in N}
  BY <1>3 DEF Has
<1>4. {b.name : b \in declaredServiceNamespaces(old)}
        = {b.name : b \in declaredServiceNamespaces(new)}
  <2>1. /\ {b.name : b \in keystoneNamespaceBlock(old)}
             = {b.name : b \in keystoneNamespaceBlock(new)}
        /\ {b.name : b \in horizonNamespaceBlock(old)}
             = {b.name : b \in horizonNamespaceBlock(new)}
    BY <1>2, <1>3
  <2>2. ASSUME NEW A, NEW B
        PROVE  {b.name : b \in A \union B} = {b.name : b \in A} \union {b.name : b \in B}
    OBVIOUS
  <2>3. ASSUME NEW s
        PROVE  {b.name : b \in declaredServiceNamespaces(s)}
                 = {b.name : b \in keystoneNamespaceBlock(s)}
                     \union {b.name : b \in horizonNamespaceBlock(s)}
    BY <2>2 DEF declaredServiceNamespaces
  <2>4. /\ {b.name : b \in declaredServiceNamespaces(old)}
             = {b.name : b \in keystoneNamespaceBlock(old)}
                 \union {b.name : b \in horizonNamespaceBlock(old)}
        /\ {b.name : b \in declaredServiceNamespaces(new)}
             = {b.name : b \in keystoneNamespaceBlock(new)}
                 \union {b.name : b \in horizonNamespaceBlock(new)}
    BY <2>3
  <2>. QED
    BY <2>1, <2>4
<1>. QED
  BY <1>4, ClaimsAre

\* validateUniqueInNamespace and validateNamespaceClaims: what is created is
\* apart from all that the webhook can see.
LEMMA CreatedApart ==
  ASSUME NEW h, NEW n, NEW s, NEW existing, ValidateCreate(h, n, s, existing),
         NEW o \in existing
  PROVE  controlPlaneNamespaces(h, s)
           \intersect controlPlaneNamespaces(o.home, o.spec) = {}
<1>1. /\ o.home # h
      /\ \A b \in declaredServiceNamespaces(s) :
           b.name # "" => b.name \notin controlPlaneNamespaces(o.home, o.spec)
      /\ \A b \in DedicatedServiceNamespaces(o.home, o.spec) : b.name # h
  BY DEF ValidateCreate, validateUniqueInNamespace, validateNamespaceClaims
<1>2. h \notin controlPlaneNamespaces(o.home, o.spec)
  BY <1>1 DEF controlPlaneNamespaces
<1>. QED
  BY <1>1, <1>2, ClaimsAre

-----------------------------------------------------------------------------
(* Steps of the API server.                                                *)

\* An object is replaced by one of the same identity and claims, or goes.
LEMMA ReplacedApart ==
  ASSUME IInv, NEW c \in CPs, NEW S, stored' = [stored EXCEPT ![c] = S],
         UNCHANGED <<pending, raced>>, Lone(S),
         \A n \in S : /\ DOMAIN n = PlaneFields
                      /\ \E o \in stored[c] : n.uid = o.uid /\ Claims(c, n.spec) = Claims(c, o.spec)
  PROVE  Planes' /\ StoredApart' /\ PendingApart'
<1>1. /\ DOMAIN stored' = CPs /\ stored'[c] = S
      /\ \A d \in CPs \ {c} : stored'[d] = stored[d]
  BY DEF IInv, Planes
<1>2. Planes'
  BY <1>1 DEF IInv, Planes
<1>3. \A d \in CPs : \A n \in stored'[d] :
        \E o \in stored[d] : n.uid = o.uid /\ Claims(d, n.spec) = Claims(d, o.spec)
  BY <1>1
<1>5. StoredApart'
  <2> SUFFICES ASSUME NEW b \in CPs, NEW d \in CPs, NEW m \in stored'[b],
                      NEW n \in stored'[d], b # d
               PROVE  Apart(b, m.uid, m.spec, d, n.uid, n.spec)'
    BY DEF StoredApart
  <2>1. PICK o \in stored[b] : m.uid = o.uid /\ Claims(b, m.spec) = Claims(b, o.spec)
    BY <1>3
  <2>2. PICK e \in stored[d] : n.uid = e.uid /\ Claims(d, n.spec) = Claims(d, e.spec)
    BY <1>3
  <2>3. Apart(b, o.uid, o.spec, d, e.uid, e.spec)
    BY DEF IInv, StoredApart
  <2>. QED
    BY <2>1, <2>2, <2>3 DEF Apart
<1>6. PendingApart'
  <2> SUFFICES ASSUME NEW q \in pending, NEW d \in CPs, NEW n \in stored'[d]
               PROVE  Apart(q.cp, q.uid, q.spec, d, n.uid, n.spec)'
    BY DEF PendingApart
  <2>1. PICK o \in stored[d] : n.uid = o.uid /\ Claims(d, n.spec) = Claims(d, o.spec)
    BY <1>3
  <2>2. Apart(q.cp, q.uid, q.spec, d, o.uid, o.spec)
    BY DEF IInv, PendingApart
  <2>. QED
    BY <2>1, <2>2 DEF Apart
<1>. QED
  BY <1>2, <1>5, <1>6

LEMMA AdmitKeeps ==
  ASSUME IInv, NEW c \in CPs, NEW draft, AdmitCreate(c, draft)
  PROVE  IInv'
<1>1. /\ UNCHANGED <<stored, raced, keystones>> /\ stored[c] = {}
      /\ \A p \in pending : p.cp # c
      /\ \E s, t : /\ ValidateCreate(Home(c), Name(c), s, Existing)
                   /\ pending' = pending \union
                        {[cp |-> c, uid |-> creates + 1, spec |-> s, created |-> t]}
  BY DEF AdmitCreate, children
<1>2. PICK s, t : /\ ValidateCreate(Home(c), Name(c), s, Existing)
                  /\ pending' = pending \union
                       {[cp |-> c, uid |-> creates + 1, spec |-> s, created |-> t]}
  BY <1>1
<1>. DEFINE new == [cp |-> c, uid |-> creates + 1, spec |-> s, created |-> t]
<1>3. ASSUME NEW d \in CPs, NEW dp \in stored[d]
      PROVE  Claims(c, s) \intersect Claims(d, dp.spec) = {}
  <2>. DEFINE o == [home |-> Home(d), spec |-> dp.spec]
  <2>1. o \in Existing
    BY DEF Existing
  <2>2. o.home = Home(d) /\ o.spec = dp.spec
    OBVIOUS
  <2>. HIDE DEF o
  <2>. QED
    BY <1>2, <2>1, <2>2, CreatedApart DEF Claims
<1>4. new.cp = c /\ new.spec = s
  OBVIOUS
<1>5. \A p \in pending' : p \in pending \/ p = new
  BY <1>2
<1>. HIDE DEF new
<1>6. Planes' /\ Children(keystones)' /\ StoredApart'
  BY <1>1, <1>4, <1>5 DEF IInv, Planes, Children, StoredApart, Apart
<1>7. PendingApart'
  BY <1>1, <1>3, <1>4, <1>5 DEF IInv, PendingApart, Apart
<1>. QED
  BY <1>6, <1>7 DEF IInv

LEMMA StoreCreateKeeps ==
  ASSUME IInv, NEW p \in pending, StoreCreate(p)
  PROVE  IInv'
<1>. DEFINE new == [spec |-> p.spec, uid |-> p.uid, gen |-> 1, created |-> p.created,
                    finalizer |-> FALSE, deleting |-> FALSE, allow |-> FALSE]
<1>1. /\ pending' = pending \ {p} /\ keystones' = keystones
      /\ stored' = [stored EXCEPT ![p.cp] = {new}]
      /\ raced' = raced \union {{Id(p.cp, p), Id(q.cp, q)} : q \in pending \ {p}}
  BY DEF StoreCreate, children
<1>2. /\ new.uid = p.uid /\ new.spec = p.spec /\ DOMAIN new = PlaneFields
      /\ p.cp \in CPs /\ DOMAIN stored = CPs
  BY DEF IInv, Planes, PlaneFields
<1>. HIDE DEF new
<1>3. /\ DOMAIN stored' = CPs /\ stored'[p.cp] = {new}
      /\ \A d \in CPs \ {p.cp} : stored'[d] = stored[d]
  BY <1>1, <1>2
<1>4. Planes'
  BY <1>1, <1>2, <1>3 DEF IInv, Planes, Lone
<1>5. ASSUME NEW d \in CPs \ {p.cp}, NEW dp \in stored[d]
      PROVE  Apart(p.cp, p.uid, p.spec, d, dp.uid, dp.spec)
  BY <1>5 DEF IInv, PendingApart
<1>6. StoredApart'
  <2> SUFFICES ASSUME NEW c \in CPs, NEW d \in CPs, NEW cp \in stored'[c],
                      NEW dp \in stored'[d], c # d
               PROVE  Apart(c, cp.uid, cp.spec, d, dp.uid, dp.spec)'
    BY DEF StoredApart
  <2>1. CASE c # p.cp /\ d # p.cp
    BY <1>1, <1>3, <2>1 DEF IInv, StoredApart, Apart
  <2>2. CASE c = p.cp
    BY <1>1, <1>2, <1>3, <1>5, <2>2 DEF Apart
  <2>3. CASE d = p.cp
    <3>1. Apart(d, dp.uid, dp.spec, c, cp.uid, cp.spec)
      BY <1>2, <1>3, <1>5, <2>3
    <3>. QED
      BY <1>1, <3>1 DEF Apart
  <2>. QED
    BY <2>1, <2>2, <2>3
<1>7. PendingApart'
  <2> SUFFICES ASSUME NEW q \in pending', NEW d \in CPs, NEW dp \in stored'[d]
               PROVE  Apart(q.cp, q.uid, q.spec, d, dp.uid, dp.spec)'
    BY DEF PendingApart
  <2>1. CASE d # p.cp
    BY <1>1, <1>3, <2>1 DEF IInv, PendingApart, Apart
  <2>2. CASE d = p.cp
    <3>1. dp.uid = p.uid /\ q \in pending \ {p}
      BY <1>1, <1>2, <1>3, <2>2
    <3>2. {Id(p.cp, p), Id(q.cp, q)} \in raced'
      BY <1>1, <3>1
    <3>. QED
      BY <2>2, <3>1, <3>2 DEF Apart, Id
  <2>. QED
    BY <2>1, <2>2
<1>. QED
  BY <1>1, <1>4, <1>6, <1>7 DEF IInv, Children

\* Edits, annotations, deletions and the finalizer.
LEMMA StoreKeeps ==
  ASSUME IInv, NEW c \in CPs, NEW cp \in stored[c], NEW n,
         n.uid = cp.uid, Claims(c, n.spec) = Claims(c, cp.spec), DOMAIN n = PlaneFields,
         stored' = [stored EXCEPT ![c] = {n}], UNCHANGED <<pending, raced, keystones>>
  PROVE  IInv'
<1>. DEFINE S == {n}
<1>1. /\ stored' = [stored EXCEPT ![c] = S]
      /\ Lone(S)
      /\ \A m \in S : /\ DOMAIN m = PlaneFields
                      /\ \E o \in stored[c] :
                           m.uid = o.uid /\ Claims(c, m.spec) = Claims(c, o.spec)
  BY DEF Lone
<1>. HIDE DEF S
<1>2. Planes' /\ StoredApart' /\ PendingApart'
  BY <1>1, ReplacedApart
<1>. QED
  BY <1>2 DEF IInv, Children

LEMMA ForgetKeeps ==
  ASSUME IInv, NEW c \in CPs, Forget(c)
  PROVE  IInv'
<1>1. /\ stored' = [stored EXCEPT ![c] = {}]
      /\ UNCHANGED <<pending, raced, keystones>>
  BY DEF Forget, children
<1>. DEFINE S == {}
<1>2. /\ stored' = [stored EXCEPT ![c] = S]
      /\ Lone(S)
      /\ \A m \in S : /\ DOMAIN m = PlaneFields
                      /\ \E o \in stored[c] :
                           m.uid = o.uid /\ Claims(c, m.spec) = Claims(c, o.spec)
  BY <1>1 DEF Lone
<1>. HIDE DEF S
<1>3. Planes' /\ StoredApart' /\ PendingApart'
  BY <1>1, <1>2, ReplacedApart
<1>. QED
  BY <1>1, <1>3 DEF IInv, Children

LEMMA UserKeeps ==
  ASSUME IInv, User
  PROVE  IInv'
<1>. USE DEF children, api
<1>1. ASSUME NEW c \in CPs, NEW s, AdmitCreate(c, s) PROVE IInv'
  BY <1>1, AdmitKeeps
<1>2. ASSUME NEW p \in pending, StoreCreate(p) PROVE IInv'
  BY <1>2, StoreCreateKeeps
<1>3. ASSUME NEW c \in CPs, NEW s, Update(c, s) PROVE IInv'
  <2>0. PICK cp \in stored[c] :
          \E t : /\ ValidateUpdate(Home(c), Name(c), cp.spec, t)
                 /\ Store(c, [cp EXCEPT !.spec = t, !.gen = @ + 1])
    BY <1>3 DEF Update
  <2>1. PICK t : /\ ValidateUpdate(Home(c), Name(c), cp.spec, t)
                 /\ Store(c, [cp EXCEPT !.spec = t, !.gen = @ + 1])
    BY <2>0
  <2>. DEFINE n == [cp EXCEPT !.spec = t, !.gen = @ + 1]
  <2>2. DOMAIN cp = PlaneFields
    BY DEF IInv, Planes
  <2>3. n.uid = cp.uid /\ n.spec = t /\ DOMAIN n = PlaneFields
    BY <2>2 DEF PlaneFields
  <2>4. Claims(c, n.spec) = Claims(c, cp.spec)
    BY <2>1, <2>3, EditKeepsClaims DEF Claims
  <2>5. stored' = [stored EXCEPT ![c] = {n}] /\ UNCHANGED <<pending, raced, keystones>>
    BY <2>1 DEF Store
  <2>. HIDE DEF n
  <2>. QED
    BY <2>3, <2>4, <2>5, StoreKeeps
<1>4. ASSUME NEW c \in CPs, AllowDeletion(c) PROVE IInv'
  <2>1. PICK cp \in stored[c] : Store(c, [cp EXCEPT !.allow = TRUE])
    BY <1>4 DEF AllowDeletion
  <2>2. DOMAIN cp = PlaneFields
    BY DEF IInv, Planes
  <2>. DEFINE n == [cp EXCEPT !.allow = TRUE]
  <2>3. n.uid = cp.uid /\ n.spec = cp.spec /\ DOMAIN n = PlaneFields
    BY <2>2 DEF PlaneFields
  <2>4. stored' = [stored EXCEPT ![c] = {n}] /\ UNCHANGED <<pending, raced, keystones>>
    BY <2>1 DEF Store
  <2>. HIDE DEF n
  <2>. QED
    BY <2>3, <2>4, StoreKeeps
<1>5. ASSUME NEW c \in CPs, Delete(c) PROVE IInv'
  <2>1. CASE Forget(c)
    BY <2>1, ForgetKeeps
  <2>2. CASE \E cp \in stored[c] : Store(c, [cp EXCEPT !.deleting = TRUE])
    <3>1. PICK cp \in stored[c] : Store(c, [cp EXCEPT !.deleting = TRUE])
      BY <2>2
    <3>2. DOMAIN cp = PlaneFields
      BY DEF IInv, Planes
    <3>. DEFINE n == [cp EXCEPT !.deleting = TRUE]
    <3>3. n.uid = cp.uid /\ n.spec = cp.spec /\ DOMAIN n = PlaneFields
      BY <3>2 DEF PlaneFields
    <3>4. stored' = [stored EXCEPT ![c] = {n}] /\ UNCHANGED <<pending, raced, keystones>>
      BY <3>1 DEF Store
    <3>. HIDE DEF n
    <3>. QED
      BY <3>3, <3>4, StoreKeeps
  <2>. QED
    BY <1>5, <2>1, <2>2 DEF Delete
<1>. QED
  BY <1>1, <1>2, <1>3, <1>4, <1>5 DEF User

-----------------------------------------------------------------------------
(* Steps on the children.                                                  *)

LEMMA ChildrenKeep ==
  ASSUME IInv, UNCHANGED <<stored, pending, raced>>, Children(keystones)'
  PROVE  IInv'
BY DEF IInv, Planes, StoredApart, PendingApart, Apart

\* A child of the same owner and spec as one of old, or just projected.
Kin(n, old) == \E o \in old : n.owner = o.owner /\ n.spec = o.spec
Projected(c, cp, place, n) ==
  /\ place = KeystonePlace(c, cp.spec) /\ ~ IsExternalKeystone(cp.spec)
  /\ n.owner = claimChildOwnership(c, cp, place) /\ n.spec = keystoneChild(cp.spec)

\* What a projection leaves at a place is at most one child, and it is not
\* being deleted unless it was.
LEMMA ProjectionIs ==
  ASSUME NEW old, NEW claim, NEW spec, NEW accepted, Lone(old),
         \A o \in old : DOMAIN o = ChildFields
  PROVE  LET new == ProjectChild(old, claim, spec, accepted).child
         IN  /\ Lone(new) /\ \A n \in new : DOMAIN n = ChildFields
             /\ \A o \in old : \E n \in new : n.deleting = o.deleting
             /\ \A n \in new : Kin(n, old) \/ (n.owner = claim /\ n.spec = spec)
<1>1. CASE ~ accepted \/ \E o \in old : ~ Owns(o, claim)
  <2>1. ProjectChild(old, claim, spec, accepted).child = old
    BY <1>1 DEF ProjectChild, Step
  <2>. QED
    BY <2>1 DEF Kin
<1>2. CASE ~ (~ accepted \/ \E o \in old : ~ Owns(o, claim))
  <2>1. ProjectChild(old, claim, spec, accepted).child = ApplyChild(old, claim, spec)
    BY <1>2 DEF ProjectChild, Step
  <2>2. CASE old = {}
    BY <2>1, <2>2 DEF ApplyChild, NewChild, Lone, ChildFields
  <2>3. CASE old # {}
    <3>. DEFINE New(o) == [o EXCEPT !.owner = claim, !.spec = spec, !.current = @ /\ o.spec = spec]
    <3>1. ApplyChild(old, claim, spec) = {New(o) : o \in old}
      BY <2>3 DEF ApplyChild
    <3>2. \A o \in old : /\ DOMAIN New(o) = ChildFields /\ New(o).deleting = o.deleting
                         /\ New(o).owner = claim /\ New(o).spec = spec
      BY DEF ChildFields
    <3>. HIDE DEF New
    <3>. QED
      BY <2>1, <3>1, <3>2 DEF Lone
  <2>. QED
    BY <2>2, <2>3
<1>. QED
  BY <1>1, <1>2

LEMMA OrphanIs ==
  ASSUME NEW old, NEW c, NEW cp, Lone(old), \A o \in old : DOMAIN o = ChildFields
  PROVE  LET new == DeleteOrphan(old, c, cp).child
         IN  /\ Lone(new) /\ \A n \in new : DOMAIN n = ChildFields
             /\ \A o \in old : ~ (cp.allow /\ isControlPlaneChild(o, c, cp))
                                 => o \in new
             /\ \A n \in new : Kin(n, old)
<1>. DEFINE New(o) == IF cp.allow /\ isControlPlaneChild(o, c, cp)
                      THEN [o EXCEPT !.deleting = TRUE] ELSE o
<1>1. DeleteOrphan(old, c, cp).child = {New(o) : o \in old}
  BY DEF DeleteOrphan, Step
<1>2. \A o \in old : /\ DOMAIN New(o) = ChildFields
                     /\ ~ (cp.allow /\ isControlPlaneChild(o, c, cp)) => New(o) = o
                     /\ New(o).owner = o.owner /\ New(o).spec = o.spec
  BY DEF ChildFields
<1>. HIDE DEF New
<1>. QED
  BY <1>1, <1>2 DEF Lone, Kin

\* A pass replaces the child at one place, and marks none as deleted but on
\* request.
LEMMA PassIs ==
  ASSUME IInv, NEW c \in CPs, NEW cp \in stored[c], RunPipeline(c, cp)
  PROVE  /\ UNCHANGED <<stored, pending, raced>>
         /\ \/ keystones' = keystones
            \/ \E place \in Places : \E S :
                 /\ keystones' = [keystones EXCEPT ![place] = S]
                 /\ Lone(S) /\ \A n \in S : DOMAIN n = ChildFields
                 /\ \A o \in keystones[place] :
                      \/ \E n \in S : n.deleting = o.deleting
                      \/ cp.spec.ks = {} /\ cp.allow /\ isControlPlaneChild(o, c, cp)
                 /\ \A n \in S : Kin(n, keystones[place]) \/ Projected(c, cp, place, n)
<1>. DEFINE place == KeystonePlace(c, cp.spec)
            old == keystones[place]
            S == reconcileKeystone(c, cp).child
<1>1. /\ UNCHANGED <<stored, pending, raced>>
      /\ keystones' = keystones \/ keystones' = [keystones EXCEPT ![place] = S]
  BY DEF RunPipeline, api
<1>2. CASE place \notin Places
  BY <1>1, <1>2 DEF IInv, Children
<1>3. CASE place \in Places
  <2>1. Lone(old) /\ \A o \in old : DOMAIN o = ChildFields
    BY <1>3 DEF IInv, Children
  <2>2. CASE cp.spec.ks = {}
    <3>1. S = DeleteOrphan(old, c, cp).child
      BY <2>2 DEF reconcileKeystone
    <3>. HIDE DEF S, old
    <3>2. /\ Lone(S) /\ \A n \in S : DOMAIN n = ChildFields
          /\ \A o \in old : ~ (cp.allow /\ isControlPlaneChild(o, c, cp)) => o \in S
          /\ \A n \in S : Kin(n, old)
      BY <2>1, <3>1, OrphanIs
    <3>. QED
      BY <1>1, <1>3, <2>2, <3>2 DEF old
  <2>3. CASE cp.spec.ks # {} /\ IsExternalKeystone(cp.spec)
    <3>1. S = old
      BY <2>3 DEF reconcileKeystone, Step
    <3>. QED
      BY <1>1, <1>3, <2>1, <3>1 DEF Kin
  <2>4. CASE cp.spec.ks # {} /\ ~ IsExternalKeystone(cp.spec)
    <3>. DEFINE claim == claimChildOwnership(c, cp, place)
                spec == keystoneChild(cp.spec)
    <3>1. PICK accepted : S = ProjectChild(old, claim, spec, accepted).child
      BY <2>4 DEF reconcileKeystone
    <3>. HIDE DEF S, old, claim, spec
    <3>2. /\ Lone(S) /\ \A n \in S : DOMAIN n = ChildFields
          /\ \A o \in old : \E n \in S : n.deleting = o.deleting
          /\ \A n \in S : Kin(n, old) \/ (n.owner = claim /\ n.spec = spec)
      BY <2>1, <3>1, ProjectionIs
    <3>3. \A n \in S : Kin(n, old) \/ Projected(c, cp, place, n)
      BY <2>4, <3>2 DEF Projected, claim, spec
    <3>. QED
      BY <1>1, <1>3, <3>2, <3>3 DEF old
  <2>. QED
    BY <2>2, <2>3, <2>4
<1>. QED
  BY <1>2, <1>3

LEMMA CondemnIs ==
  ASSUME IInv, NEW Q
  PROVE  /\ Condemn(keystones, Q) = [p \in Places |-> Condemn(keystones, Q)[p]]
         /\ \A p \in Places :
              LET S == Condemn(keystones, Q)[p]
              IN /\ Lone(S) /\ \A n \in S : DOMAIN n = ChildFields
                 /\ p \notin Q => S = keystones[p]
                 /\ \A n \in S : Kin(n, keystones[p])
<1>1. \A p \in Places : Lone(keystones[p]) /\ \A o \in keystones[p] : DOMAIN o = ChildFields
  BY DEF IInv, Children
<1>2. ASSUME NEW p \in Places, p \in Q
      PROVE  LET S == Condemn(keystones, Q)[p]
             IN  Lone(S) /\ \A n \in S : DOMAIN n = ChildFields /\ Kin(n, keystones[p])
  <2>. DEFINE Marked(o) == [o EXCEPT !.deleting = TRUE]
  <2>1. Condemn(keystones, Q)[p] = {Marked(o) : o \in keystones[p]}
    BY <1>2 DEF Condemn
  <2>2. \A o \in keystones[p] : /\ DOMAIN Marked(o) = ChildFields
                                /\ Marked(o).owner = o.owner /\ Marked(o).spec = o.spec
    BY <1>1 DEF ChildFields
  <2>. HIDE DEF Marked
  <2>. QED
    BY <1>1, <2>1, <2>2 DEF Lone, Kin
<1>3. ASSUME NEW p \in Places, p \notin Q
      PROVE  Condemn(keystones, Q)[p] = keystones[p]
  BY <1>3 DEF Condemn
<1>. QED
  BY <1>1, <1>2, <1>3 DEF Condemn, Kin

LEMMA ReconcileKeeps ==
  ASSUME IInv, NEW c \in CPs, Reconcile(c)
  PROVE  IInv'
<1>. USE DEF children, api
<1>1. PICK cp \in stored[c] :
        \/ Finalize(c, cp) \/ parkDuplicateControlPlane(c, cp)
        \/ SetFinalizer(c, cp) \/ RunPipeline(c, cp)
  BY DEF Reconcile
<1>2. CASE Finalize(c, cp)
  <2>1. CASE Forget(c)
    BY <2>1, ForgetKeeps
  <2>2. CASE /\ UNCHANGED <<stored, pending, raced>>
             /\ \E Q : keystones' = Condemn(keystones, Q)
    <3>1. Children(keystones)'
      BY <2>2, CondemnIs DEF Children
    <3>. QED
      BY <2>2, <3>1, ChildrenKeep
  <2>. QED
    BY <1>2, <2>1, <2>2 DEF Finalize
<1>3. CASE parkDuplicateControlPlane(c, cp)
  BY <1>3, ChildrenKeep DEF parkDuplicateControlPlane, IInv, Children
<1>4. CASE SetFinalizer(c, cp)
  <2>. DEFINE n == [cp EXCEPT !.finalizer = TRUE]
  <2>1. DOMAIN cp = PlaneFields
    BY DEF IInv, Planes
  <2>2. n.uid = cp.uid /\ n.spec = cp.spec /\ DOMAIN n = PlaneFields
    BY <2>1 DEF PlaneFields
  <2>3. stored' = [stored EXCEPT ![c] = {n}] /\ UNCHANGED <<pending, raced, keystones>>
    BY <1>4 DEF SetFinalizer
  <2>. HIDE DEF n
  <2>. QED
    BY <2>2, <2>3, StoreKeeps
<1>5. CASE RunPipeline(c, cp)
  <2>1. Children(keystones)'
    BY <1>5, PassIs DEF IInv, Children
  <2>. QED
    BY <1>5, <2>1, PassIs, ChildrenKeep
<1>. QED
  BY <1>1, <1>2, <1>3, <1>4, <1>5

\* Reports and garbage collection.
LEMMA EventIs ==
  ASSUME IInv, NEW p \in Places, KeystoneEvent(p)
  PROVE  /\ UNCHANGED <<stored, pending, raced>>
         /\ \E o \in keystones[p] : \E S :
              /\ keystones' = [keystones EXCEPT ![p] = S]
              /\ Lone(S) /\ \A n \in S : DOMAIN n = ChildFields /\ Kin(n, keystones[p])
              /\ \/ S # {} /\ \A n \in S : ~ n.deleting
                 \/ o.deleting \/ Orphan(o)
<1>1. UNCHANGED <<stored, pending, raced>>
  BY DEF KeystoneEvent, api
<1>2. CASE Report(keystones, p)
  <2>1. PICK o \in keystones[p], r \in BOOLEAN :
          /\ ~ o.deleting
          /\ keystones' = [keystones EXCEPT ![p] = {[o EXCEPT !.ready = r, !.current = TRUE]}]
    BY <1>2 DEF Report
  <2>. DEFINE n == [o EXCEPT !.ready = r, !.current = TRUE]
  <2>2. DOMAIN n = ChildFields /\ ~ n.deleting /\ n.owner = o.owner /\ n.spec = o.spec
    BY <2>1 DEF IInv, Children, ChildFields
  <2>. HIDE DEF n
  <2>3. Lone({n}) /\ keystones' = [keystones EXCEPT ![p] = {n}]
    BY <2>1 DEF Lone, n
  <2>4. \A m \in {n} : DOMAIN m = ChildFields /\ Kin(m, keystones[p]) /\ ~ m.deleting
    BY <2>2 DEF Kin
  <2>. QED
    BY <1>1, <2>3, <2>4
<1>3. CASE Collect(keystones, p)
  BY <1>1, <1>3 DEF Collect, Lone
<1>. QED
  BY <1>2, <1>3 DEF KeystoneEvent

LEMMA WorldKeeps ==
  ASSUME IInv, World
  PROVE  IInv'
<1>. USE DEF children, api
<1>1. ASSUME NEW p \in Places, KeystoneEvent(p) PROVE IInv'
  <2>1. Children(keystones)'
    BY <1>1, EventIs DEF IInv, Children
  <2>. QED
    BY <1>1, <2>1, EventIs, ChildrenKeep
<1>2. CASE UNCHANGED <<stored, pending, raced, keystones>>
  BY <1>2, ChildrenKeep DEF IInv, Children
<1>. QED
  BY <1>1, <1>2 DEF World, HorizonEvent, BreakDown, Recover, Attach

-----------------------------------------------------------------------------

LEMMA InitIInv == Init => IInv
<1>. SUFFICES ASSUME Init PROVE IInv
  OBVIOUS
<1>1. stored = [c \in CPs |-> {}] /\ pending = {}
  BY DEF Init
<1>2. Planes /\ StoredApart /\ PendingApart
  BY <1>1 DEF Planes, StoredApart, PendingApart, Lone
<1>. DEFINE stranger == [NewChild(Foreign, StrangerSpec) EXCEPT !.ready = TRUE, !.current = TRUE]
<1>3. DOMAIN stranger = ChildFields
  BY DEF NewChild, ChildFields
<1>4. keystones = [p \in Places |-> IF p \in Strangers THEN {stranger} ELSE {}]
  BY DEF Init
<1>. HIDE DEF stranger
<1>5. Children(keystones)
  BY <1>3, <1>4 DEF Children, Lone
<1>. QED
  BY <1>2, <1>5 DEF IInv

LEMMA NextIInv == IInv /\ [Next]_vars => IInv'
<1>. SUFFICES ASSUME IInv, [Next]_vars PROVE IInv'
  OBVIOUS
<1>1. CASE UNCHANGED vars
  BY <1>1, ChildrenKeep DEF vars, api, children, IInv, Children
<1>. QED
  BY <1>1, UserKeeps, WorldKeeps, ReconcileKeeps DEF Next

LEMMA InvariantHolds == Spec => []IInv
  BY InitIInv, NextIInv, PTL DEF Spec

\* Two ControlPlanes meet in a namespace, the key of OpenBao paths and of a
\* tenant's store, only when their admissions overlapped: what the webhook
\* checked when the later was created no edit undoes.
THEOREM OnlyRacesEverCollide == Spec => []OnlyRacesCollide
<1>1. IInv => OnlyRacesCollide
  BY DEF IInv, StoredApart, Apart, OnlyRacesCollide, Namespaces, Claims, Id
<1>. QED
  BY <1>1, InvariantHolds, PTL

\* A Keystone child goes with its ControlPlane, or when its block is gone and
\* the annotation asks for it: by no edit, parked or re-created ControlPlane.
THEOREM KeysAlwaysKept == Spec => KeysKept
<1>1. ASSUME IInv, [Next]_vars, NEW p \in Places, NEW o \in keystones[p],
             \A n \in keystones'[p] : n.deleting
      PROVE  Doomed(o, p)
  <2>. USE DEF children, api
  <2>1. \A x \in keystones[p] : x = o
    BY <1>1 DEF IInv, Children, Lone
  <2>2. CASE UNCHANGED keystones
    BY <1>1, <2>2 DEF Doomed
  <2>3. ASSUME NEW q \in Places, KeystoneEvent(q) PROVE Doomed(o, p)
    BY <1>1, <2>1, <2>3, EventIs DEF IInv, Children, Doomed
  <2>4. ASSUME NEW c \in CPs, Reconcile(c) PROVE Doomed(o, p)
    <3>1. PICK cp \in stored[c] :
            \/ cp.deleting /\ Finalize(c, cp)
            \/ UNCHANGED keystones
            \/ RunPipeline(c, cp)
      BY <2>4 DEF Reconcile, parkDuplicateControlPlane, SetFinalizer
    <3>2. CASE cp.deleting /\ Finalize(c, cp)
      <4>1. CASE keystones' = Condemn(keystones, Abroad(c, keystones))
        <5>1. CASE p \in Abroad(c, keystones)
          <6>1. o.owner = Labelled(c)
            BY <2>1, <5>1 DEF Abroad
          <6>2. o.owner.cp = c
            BY <6>1 DEF Labelled
          <6>. QED
            BY <3>2, <6>2 DEF Doomed
        <5>2. CASE p \notin Abroad(c, keystones)
          BY <1>1, <4>1, <5>2, CondemnIs DEF Doomed
        <5>. QED
          BY <5>1, <5>2
      <4>. QED
        BY <2>2, <3>2, <4>1 DEF Finalize, Forget
    <3>3. CASE RunPipeline(c, cp)
      <4>1. CASE keystones' = keystones
        BY <2>2, <4>1
      <4>2. CASE \E place \in Places : \E S :
                   /\ keystones' = [keystones EXCEPT ![place] = S]
                   /\ \A x \in keystones[place] :
                        \/ \E n \in S : n.deleting = x.deleting
                        \/ cp.spec.ks = {} /\ cp.allow /\ isControlPlaneChild(x, c, cp)
        <5>1. PICK place \in Places : \E S :
                   /\ keystones' = [keystones EXCEPT ![place] = S]
                   /\ \A x \in keystones[place] :
                        \/ \E n \in S : n.deleting = x.deleting
                        \/ cp.spec.ks = {} /\ cp.allow /\ isControlPlaneChild(x, c, cp)
          BY <4>2
        <5>2. \/ o.deleting
              \/ cp.spec.ks = {} /\ cp.allow /\ isControlPlaneChild(o, c, cp)
          BY <1>1, <5>1 DEF IInv, Children
        <5>3. isControlPlaneChild(o, c, cp) => o.owner.cp = c
          BY DEF isControlPlaneChild, Id, Labelled
        <5>. QED
          BY <5>2, <5>3 DEF Doomed
      <4>. QED
        BY <1>1, <3>3, <4>1, <4>2, PassIs
    <3>. QED
      BY <2>2, <3>1, <3>2, <3>3
  <2>. QED
    BY <1>1, <2>2, <2>3, <2>4
    DEF Next, User, World, AdmitCreate, StoreCreate, Update, Store, AllowDeletion,
        Delete, Forget, HorizonEvent, BreakDown, Recover, Attach, vars
<1>2. IInv /\ [Next]_vars =>
        [\A p \in Places : \A o \in keystones[p] :
           (\A n \in keystones'[p] : n.deleting) => Doomed(o, p)]_vars
  BY <1>1
<1>. QED
  BY <1>2, InvariantHolds, PTL DEF Spec, KeysKept

-----------------------------------------------------------------------------
(* What is projected stays admissible.  An optional field holds at most    *)
(* one value, and users submit specs.                                      *)

SpecFields ==
  {"rel", "region", "store", "infra", "ks", "hz", "admin", "accounts", "policy"}
KeystoneFields ==
  {"mode", "external", "replicas", "image", "policy", "rotation", "gateway",
   "publicEndpoint", "proxyImage", "dedicated", "ns"}
IsKeystone(k) ==
  /\ DOMAIN k = KeystoneFields /\ Lone(k.dedicated)
  /\ \A b \in k.dedicated : Lone(b.database)
IsSpec(s) ==
  /\ DOMAIN s = SpecFields /\ Lone(s.infra) /\ Lone(s.ks)
  /\ \A k \in s.ks : IsKeystone(k)

\* What the API of a Keystone k freezes is what the spec s projects.
Frozen(k, s) ==
  /\ k.region = s.region
  /\ \A o \in k.database, n \in effectiveKeystoneDatabase(s) : DatabaseFrozen(o, n)

LEMMA PlacementIsSpec ==
  ASSUME NEW s, IsSpec(s)
  PROVE  IsSpec(DefaultPlacement(s))
<1>. DEFINE managed(b) == [b EXCEPT !.lifecycle = When(@, "", "Managed")]
            K(k) == [k EXCEPT !.mode = When(@, "", "Managed"),
                              !.ns = {managed(b) : b \in @}]
            H(h) == [h EXCEPT !.ns = {managed(b) : b \in @}]
<1>1. \A k \in s.ks : IsKeystone(k) => IsKeystone(K(k))
  <2> SUFFICES ASSUME NEW k \in s.ks, IsKeystone(k) PROVE IsKeystone(K(k))
    OBVIOUS
  <2>1. DOMAIN k = KeystoneFields
    BY DEF IsKeystone
  <2>2. DOMAIN K(k) = KeystoneFields /\ K(k).dedicated = k.dedicated
    BY <2>1 DEF KeystoneFields
  <2>. HIDE DEF K
  <2>. QED
    BY <2>2 DEF IsKeystone
<1>2. DefaultPlacement(s) = [s EXCEPT !.region = When(@, "", "RegionOne"),
                                      !.ks = {K(k) : k \in @}, !.hz = {H(h) : h \in @}]
  BY DEF DefaultPlacement
<1>. HIDE DEF K, H
<1>3. /\ DOMAIN DefaultPlacement(s) = SpecFields
      /\ DefaultPlacement(s).infra = s.infra
      /\ DefaultPlacement(s).ks = {K(k) : k \in s.ks}
  BY <1>2 DEF IsSpec, SpecFields
<1>. QED
  BY <1>1, <1>3 DEF IsSpec, Lone

LEMMA AdminIsSpec ==
  ASSUME NEW s, IsSpec(s)
  PROVE  IsSpec(DefaultAdminCredential(s))
<1>1. PICK admin, accounts :
        DefaultAdminCredential(s) = [s EXCEPT !.admin = admin, !.accounts = accounts]
  BY DEF DefaultAdminCredential
<1>2. /\ DOMAIN DefaultAdminCredential(s) = SpecFields
      /\ DefaultAdminCredential(s).infra = s.infra
      /\ DefaultAdminCredential(s).ks = s.ks
  BY <1>1 DEF IsSpec, SpecFields
<1>. QED
  BY <1>2 DEF IsSpec

LEMMA ExternalIsSpec ==
  ASSUME NEW s, IsSpec(s)
  PROVE  IsSpec(DefaultExternal(s))
<1>. DEFINE E(e) == [e EXCEPT !.endpointType = When(@, "", "public"),
                              !.ca = {[c EXCEPT !.key = When(@, "", "ca.crt")] : c \in @}]
            K(k) == [k EXCEPT !.external = {E(e) : e \in @}]
<1>1. DefaultExternal(s) = [s EXCEPT !.ks = {K(k) : k \in @}]
  BY DEF DefaultExternal
<1>. HIDE DEF E
<1>2. \A k \in s.ks : IsKeystone(k) => IsKeystone(K(k))
  <2> SUFFICES ASSUME NEW k \in s.ks, IsKeystone(k) PROVE IsKeystone(K(k))
    OBVIOUS
  <2>1. DOMAIN k = KeystoneFields
    BY DEF IsKeystone
  <2>2. DOMAIN K(k) = KeystoneFields /\ K(k).dedicated = k.dedicated
    BY <2>1 DEF KeystoneFields
  <2>. HIDE DEF K
  <2>. QED
    BY <2>2 DEF IsKeystone
<1>. HIDE DEF K
<1>3. /\ DOMAIN DefaultExternal(s) = SpecFields
      /\ DefaultExternal(s).infra = s.infra
      /\ DefaultExternal(s).ks = {K(k) : k \in s.ks}
  BY <1>1 DEF IsSpec, SpecFields
<1>. QED
  BY <1>2, <1>3 DEF IsSpec, Lone

LEMMA InfrastructureIsSpec ==
  ASSUME NEW s, IsSpec(s)
  PROVE  IsSpec(DefaultInfrastructure(s))
<1>. DEFINE I(i) == [database |-> defaultDatabaseLeaves(i.database, "openstack-db"),
                     cache |-> defaultCacheLeaves(i.cache, "openstack-memcached")]
            was == IF Has(s.infra) THEN s.infra ELSE {InfrastructureSpec}
<1>1. /\ DOMAIN DefaultInfrastructure(s) = SpecFields
      /\ DefaultInfrastructure(s).infra = {I(i) : i \in was}
      /\ DefaultInfrastructure(s).ks = s.ks
  BY DEF DefaultInfrastructure, IsSpec, SpecFields
<1>2. Lone(was)
  BY DEF IsSpec, Lone
<1>. HIDE DEF I, was
<1>. QED
  BY <1>1, <1>2 DEF IsSpec, Lone

LEMMA DedicatedIsSpec ==
  ASSUME NEW s, IsSpec(s)
  PROVE  IsSpec(DefaultDedicated(s))
<1>. DEFINE D(db) == DefaultDedicatedDatabase(db, "cp-keystone-db")
            C(c) == defaultCacheLeaves(c, "cp-keystone-cache")
            B(b) == [database |-> {D(db) : db \in b.database}, cache |-> {C(c) : c \in b.cache}]
            K(k) == [k EXCEPT !.dedicated = {B(b) : b \in @}]
            HC(c) == defaultCacheLeaves(c, "cp-horizon-cache")
            H(h) == [h EXCEPT !.dedicated = {[cache |-> {HC(c) : c \in b.cache}] : b \in @}]
<1>1. DefaultDedicated(s) = [s EXCEPT !.ks = {K(k) : k \in @}, !.hz = {H(h) : h \in @}]
  BY DEF DefaultDedicated
<1>. HIDE DEF D, C, H
<1>2. \A k \in s.ks : IsKeystone(k) => IsKeystone(K(k))
  <2> SUFFICES ASSUME NEW k \in s.ks, IsKeystone(k) PROVE IsKeystone(K(k))
    OBVIOUS
  <2>1. DOMAIN k = KeystoneFields
    BY DEF IsKeystone
  <2>2. DOMAIN K(k) = KeystoneFields /\ K(k).dedicated = {B(b) : b \in k.dedicated}
    BY <2>1 DEF KeystoneFields
  <2>3. \A b : B(b).database = {D(db) : db \in b.database}
    OBVIOUS
  <2>. HIDE DEF K, B
  <2>4. Lone(K(k).dedicated)
    BY <2>2 DEF IsKeystone, Lone
  <2>5. \A b \in K(k).dedicated : Lone(b.database)
    BY <2>2, <2>3 DEF IsKeystone, Lone
  <2>. QED
    BY <2>2, <2>4, <2>5 DEF IsKeystone
<1>. HIDE DEF K
<1>3. /\ DOMAIN DefaultDedicated(s) = SpecFields
      /\ DefaultDedicated(s).infra = s.infra
      /\ DefaultDedicated(s).ks = {K(k) : k \in s.ks}
  BY <1>1 DEF IsSpec, SpecFields
<1>. QED
  BY <1>2, <1>3 DEF IsSpec, Lone

LEMMA DefaultIsSpec ==
  ASSUME NEW s, IsSpec(s)
  PROVE  IsSpec(Default(s))
<1>. DEFINE placed == DefaultAdminCredential(DefaultPlacement(s))
<1>1. IsSpec(placed)
  BY PlacementIsSpec, AdminIsSpec
<1>2. Default(s) \in {DefaultExternal(placed), DefaultDedicated(DefaultInfrastructure(placed))}
  BY DEF Default
<1>. HIDE DEF placed
<1>. QED
  BY <1>1, <1>2, ExternalIsSpec, InfrastructureIsSpec, DedicatedIsSpec

\* One database at most is projected, so what a spec projects it accepts.
LEMMA ProjectedFrozen ==
  ASSUME NEW s, IsSpec(s)
  PROVE  Frozen(keystoneChild(s), s)
<1>1. Lone(UNION {b.database : b \in keystoneDedicatedBlock(s)})
  BY DEF keystoneDedicatedBlock, IsSpec, IsKeystone, Lone
<1>2. Lone({i.database : i \in s.infra})
  BY DEF IsSpec, Lone
<1>3. Lone(effectiveKeystoneDatabase(s))
  BY <1>1, <1>2 DEF effectiveKeystoneDatabase, Effective
<1>4. /\ keystoneChild(s).region = s.region
      /\ keystoneChild(s).database = effectiveKeystoneDatabase(s)
  BY DEF keystoneChild
<1>. QED
  BY <1>3, <1>4 DEF Frozen, DatabaseFrozen, Lone

\* The rules of validateImmutable keep what the Keystone API freezes: a
\* dedicated database stays one, and so does a shared one.
LEMMA EditKeepsDatabase ==
  ASSUME NEW h, NEW n, NEW old, NEW new, ValidateUpdate(h, n, old, new), Has(old.infra)
  PROVE  /\ old.region = new.region /\ Has(effectiveKeystoneDatabase(old))
         /\ \A a \in effectiveKeystoneDatabase(old), b \in effectiveKeystoneDatabase(new) :
              DatabaseFrozen(a, b)
<1>. DEFINE Own(s) == UNION {b.database : b \in keystoneDedicatedBlock(s)}
            Shared(s) == {i.database : i \in s.infra}
<1>1. old.region = new.region
  BY DEF ValidateUpdate, validateImmutable
<1>2. /\ Has(keystoneDedicatedBlock(old)) = Has(keystoneDedicatedBlock(new))
      /\ \A o \in keystoneDedicatedBlock(old), m \in keystoneDedicatedBlock(new) :
           /\ Has(o.database) = Has(m.database)
           /\ \A a \in o.database, b \in m.database : validateDatabaseImmutable(a, b)
  <2>1. validateDedicatedBackingServicesImmutable(old, new)
    BY DEF ValidateUpdate, validateImmutable
  <2>. QED
    BY <2>1 DEF validateDedicatedBackingServicesImmutable, BlockFrozen
<1>3. \A o \in old.infra, m \in new.infra :
        validateDatabaseImmutable(o.database, m.database)
  BY DEF ValidateUpdate, validateImmutable, BlockFrozen
<1>4. \A a, b : validateDatabaseImmutable(a, b) => DatabaseFrozen(a, b)
  BY DEF validateDatabaseImmutable, DatabaseFrozen
<1>5. \A a \in Own(old), b \in Own(new) : DatabaseFrozen(a, b)
  BY <1>2, <1>4
<1>6. Has(Own(old)) = Has(Own(new))
  BY <1>2 DEF Has
<1>7. \A a \in Shared(old), b \in Shared(new) : DatabaseFrozen(a, b)
  BY <1>3, <1>4
<1>8. Has(Shared(old))
  BY DEF Has
<1>9. \A s : effectiveKeystoneDatabase(s) = IF Has(Own(s)) THEN Own(s) ELSE Shared(s)
  BY DEF effectiveKeystoneDatabase, Effective
<1>. HIDE DEF Own, Shared
<1>. QED
  BY <1>1, <1>5, <1>6, <1>7, <1>8, <1>9

LEMMA EditFrozen ==
  ASSUME NEW h, NEW n, NEW old, NEW new, NEW k, ValidateUpdate(h, n, old, new),
         Has(old.infra), Frozen(k, old)
  PROVE  Frozen(k, new)
<1>1. PICK m : m \in effectiveKeystoneDatabase(old)
  BY EditKeepsDatabase DEF Has
<1>2. \A o \in k.database, b \in effectiveKeystoneDatabase(new) :
        DatabaseFrozen(o, m) /\ DatabaseFrozen(m, b)
  BY <1>1, EditKeepsDatabase DEF Frozen
<1>3. \A o \in k.database, b \in effectiveKeystoneDatabase(new) : DatabaseFrozen(o, b)
  BY <1>2 DEF DatabaseFrozen
<1>. QED
  BY <1>3, EditKeepsDatabase DEF Frozen

\* A child keeps its place as long as its ControlPlane lives.
LEMMA EditKeepsPlace ==
  ASSUME NEW h, NEW n, NEW old, NEW new, NEW c, ValidateUpdate(h, n, old, new)
  PROVE  KeystonePlace(c, new) = KeystonePlace(c, old)
<1>1. validateServiceNamespacesImmutable(old, new)
  BY DEF ValidateUpdate, validateImmutable
<1>2. /\ Has(keystoneNamespaceBlock(old)) = Has(keystoneNamespaceBlock(new))
      /\ \A o \in keystoneNamespaceBlock(old), m \in keystoneNamespaceBlock(new) :
           o.name = m.name
  BY <1>1 DEF validateServiceNamespacesImmutable, BlockFrozen, FrozenNamespace
<1>3. {b.name : b \in keystoneNamespaceBlock(old)}
        = {b.name : b \in keystoneNamespaceBlock(new)}
  BY <1>2 DEF Has
<1>. QED
  BY <1>3 DEF KeystonePlace, KeystoneNamespace

Admitted(c, s) ==
  /\ IsSpec(s) /\ KeystonePlace(c, s) \in Places
  /\ IsExternalKeystone(s) \/ Has(s.infra)

LEMMA ValidIsAdmitted ==
  ASSUME NEW c \in CPs, NEW n, NEW s, IsSpec(s), validate(Home(c), n, s)
  PROVE  Admitted(c, s)
<1>1. IsExternalKeystone(s) \/ Has(s.infra)
  BY DEF validate, validateKeystoneMode
<1>2. {b.name : b \in keystoneNamespaceBlock(s)} \subseteq Labels
  BY DEF validate, validateServiceNamespaces, declaredServiceNamespaces
<1>3. KeystoneNamespace(Home(c), s) \in {Home(c)} \union Labels
  BY <1>2 DEF KeystoneNamespace, Or, Has
<1>4. KeystonePlace(c, s) \in Places
  BY <1>3, ControlPlaneAssumption DEF KeystonePlace, Home, Name
<1>. QED
  BY <1>1, <1>4 DEF Admitted

\* A UID is given out once, in the order of admission, and no child carries
\* one that is not stored yet.
Numbered ==
  /\ creates \in Nat
  /\ \A p \in pending : p.uid \in 1 .. creates
  /\ \A p, q \in pending : p.uid = q.uid => p = q
  /\ \A c \in CPs : \A cp \in stored[c] :
       cp.uid \in 1 .. creates /\ \A p \in pending : p.uid # cp.uid
  /\ \A l \in Places : \A o \in keystones[l] :
       o.owner.uid \in 0 .. creates /\ \A p \in pending : p.uid # o.owner.uid

\* Labels do not tell a ControlPlane from an earlier one of its name.  They
\* need not: only the finalizer lets go of a child abroad.
LabelsHeld ==
  \A l \in Places : \A o \in keystones[l] : \A c \in CPs :
    o.owner = Labelled(c) => l[1] # Home(c) /\ \E cp \in stored[c] : cp.finalizer

SpecsAdmitted ==
  /\ \A p \in pending : Admitted(p.cp, p.spec)
  /\ \A c \in CPs : \A cp \in stored[c] : Admitted(c, cp.spec)

\* A child agrees with its ControlPlane's spec also while the block is gone.
ChildrenFrozen ==
  \A c \in CPs : \A cp \in stored[c] : ~ IsExternalKeystone(cp.spec) =>
    \A o \in keystones[KeystonePlace(c, cp.spec)] :
      isControlPlaneChild(o, c, cp) => Frozen(o.spec, cp.spec)

EInv == IInv /\ Numbered /\ LabelsHeld /\ SpecsAdmitted /\ ChildrenFrozen

\* What users submit are specs.
Requests ==
  /\ \A c \in CPs : \A s \in Drafts[c] : IsSpec(s)
  /\ \A s : IsSpec(s) => \A e \in Edits(s) : IsSpec(e)

LEMMA SameKin ==
  ASSUME EInv, IInv', UNCHANGED <<stored, pending, creates>>,
         \A l \in Places : \A n \in keystones'[l] :
           \/ Kin(n, keystones[l])
           \/ \E c \in CPs : \E cp \in stored[c] : cp.finalizer /\ Projected(c, cp, l, n)
  PROVE  EInv'
<1>1. ASSUME NEW l \in Places, NEW n \in keystones'[l], NEW c \in CPs, NEW cp \in stored[c],
             cp.finalizer, Projected(c, cp, l, n)
      PROVE  /\ n.owner.uid \in {0, cp.uid} /\ n.owner.cp = c
             /\ n.owner.uid = 0 => l[1] # Home(c)
  <2>1. cp.uid # 0
    BY DEF EInv, Numbered
  <2>2. n.owner = IF l[1] = Home(c) THEN Id(c, cp) ELSE Labelled(c)
    BY <1>1 DEF Projected, claimChildOwnership
  <2>. QED
    BY <2>1, <2>2 DEF Id, Labelled
<1>2. Numbered'
  <2>1. ASSUME NEW l \in Places, NEW n \in keystones'[l]
        PROVE  n.owner.uid \in 0 .. creates /\ \A p \in pending : p.uid # n.owner.uid
    <3>1. CASE Kin(n, keystones[l])
      BY <3>1 DEF Kin, EInv, Numbered
    <3>2. ASSUME NEW c \in CPs, NEW cp \in stored[c], cp.finalizer, Projected(c, cp, l, n)
          PROVE  n.owner.uid \in 0 .. creates /\ \A p \in pending : p.uid # n.owner.uid
      <4>1. n.owner.uid \in {0, cp.uid}
        BY <1>1, <3>2
      <4>. QED
        BY <4>1 DEF EInv, Numbered
    <3>. QED
      BY <3>1, <3>2
  <2>. QED
    BY <2>1 DEF EInv, Numbered
<1>3. LabelsHeld'
  <2> SUFFICES ASSUME NEW l \in Places, NEW n \in keystones'[l], NEW d \in CPs,
                      n.owner = Labelled(d)
               PROVE  l[1] # Home(d) /\ \E cp \in stored[d] : cp.finalizer
    BY DEF LabelsHeld
  <2>1. CASE Kin(n, keystones[l])
    BY <2>1 DEF Kin, EInv, LabelsHeld
  <2>2. ASSUME NEW c \in CPs, NEW cp \in stored[c], cp.finalizer, Projected(c, cp, l, n)
        PROVE  l[1] # Home(d) /\ \E x \in stored[d] : x.finalizer
    <3>1. n.owner.uid = 0 /\ n.owner.cp = d
      BY DEF Labelled
    <3>. QED
      BY <1>1, <2>2, <3>1
  <2>. QED
    BY <2>1, <2>2
<1>4. SpecsAdmitted'
  BY DEF EInv, SpecsAdmitted
<1>5. ChildrenFrozen'
  <2> SUFFICES ASSUME NEW d \in CPs, NEW dp \in stored[d], ~ IsExternalKeystone(dp.spec),
                      NEW n \in keystones'[KeystonePlace(d, dp.spec)],
                      isControlPlaneChild(n, d, dp)
               PROVE  Frozen(n.spec, dp.spec)
    BY DEF ChildrenFrozen
  <2>. DEFINE l == KeystonePlace(d, dp.spec)
  <2>1. l \in Places /\ IsSpec(dp.spec)
    BY DEF EInv, SpecsAdmitted, Admitted
  <2>2. CASE Kin(n, keystones[l])
    BY <2>2 DEF Kin, EInv, ChildrenFrozen, isControlPlaneChild
  <2>3. ASSUME NEW c \in CPs, NEW cp \in stored[c], cp.finalizer, Projected(c, cp, l, n)
        PROVE  Frozen(n.spec, dp.spec)
    <3>1. c = d
      <4>1. n.owner.cp = d
        BY DEF isControlPlaneChild, Id, Labelled
      <4>. QED
        BY <1>1, <2>1, <2>3, <4>1
    <3>2. cp = dp
      BY <3>1 DEF EInv, IInv, Planes, Lone
    <3>3. n.spec = keystoneChild(dp.spec)
      BY <2>3, <3>2 DEF Projected
    <3>. QED
      BY <2>1, <3>3, ProjectedFrozen
  <2>. QED
    BY <2>1, <2>2, <2>3
<1>. QED
  BY <1>2, <1>3, <1>4, <1>5 DEF EInv

\* An edit that the webhook admits, an annotation, a deletion, the finalizer.
LEMMA StoredAnew ==
  ASSUME EInv, IInv', NEW c \in CPs, NEW cp \in stored[c], NEW n,
         stored' = [stored EXCEPT ![c] = {n}], UNCHANGED <<pending, creates, keystones>>,
         n.uid = cp.uid, cp.finalizer => n.finalizer,
         \/ n.spec = cp.spec
         \/ IsSpec(n.spec) /\ ValidateUpdate(Home(c), Name(c), cp.spec, n.spec)
  PROVE  EInv'
<1>1. /\ stored'[c] = {n} /\ \A d \in CPs \ {c} : stored'[d] = stored[d]
      /\ \A x \in stored[c] : x = cp
  BY DEF EInv, IInv, Planes, Lone
<1>2. Numbered'
  BY <1>1 DEF EInv, Numbered
<1>3. LabelsHeld'
  BY <1>1 DEF EInv, LabelsHeld
<1>4. Admitted(c, cp.spec)
  BY DEF EInv, SpecsAdmitted
<1>5. /\ Admitted(c, n.spec) /\ KeystonePlace(c, n.spec) = KeystonePlace(c, cp.spec)
      /\ IsExternalKeystone(n.spec) = IsExternalKeystone(cp.spec)
      /\ ~ IsExternalKeystone(n.spec) =>
           \A k : Frozen(k, cp.spec) => Frozen(k, n.spec)
  <2>1. CASE n.spec = cp.spec
    BY <1>4, <2>1
  <2>2. CASE IsSpec(n.spec) /\ ValidateUpdate(Home(c), Name(c), cp.spec, n.spec)
    <3>1. /\ validate(Home(c), Name(c), n.spec)
          /\ IsExternalKeystone(n.spec) = IsExternalKeystone(cp.spec)
      BY <2>2 DEF ValidateUpdate, validateImmutable
    <3>2. Admitted(c, n.spec)
      BY <2>2, <3>1, ValidIsAdmitted
    <3>3. KeystonePlace(c, n.spec) = KeystonePlace(c, cp.spec)
      BY <2>2, EditKeepsPlace
    <3>4. ASSUME ~ IsExternalKeystone(n.spec), NEW k, Frozen(k, cp.spec)
          PROVE  Frozen(k, n.spec)
      <4>1. Has(cp.spec.infra)
        BY <1>4, <3>1, <3>4 DEF Admitted
      <4>. QED
        BY <2>2, <3>4, <4>1, EditFrozen
    <3>. QED
      BY <3>1, <3>2, <3>3, <3>4
  <2>. QED
    BY <2>1, <2>2
<1>6. SpecsAdmitted'
  BY <1>1, <1>5 DEF EInv, SpecsAdmitted
<1>7. ChildrenFrozen'
  <2> SUFFICES ASSUME NEW d \in CPs, NEW dp \in stored'[d], ~ IsExternalKeystone(dp.spec),
                      NEW o \in keystones[KeystonePlace(d, dp.spec)],
                      isControlPlaneChild(o, d, dp)
               PROVE  Frozen(o.spec, dp.spec)
    BY DEF ChildrenFrozen
  <2>1. CASE d # c
    BY <1>1, <2>1 DEF EInv, ChildrenFrozen
  <2>2. CASE d = c
    <3>1. dp = n
      BY <1>1, <2>2
    <3>2. isControlPlaneChild(o, c, cp)
      BY <2>2, <3>1 DEF isControlPlaneChild, Id
    <3>3. Frozen(o.spec, cp.spec)
      BY <1>5, <2>2, <3>1, <3>2 DEF EInv, ChildrenFrozen
    <3>. QED
      BY <1>5, <3>1, <3>3
  <2>. QED
    BY <2>1, <2>2
<1>. QED
  BY <1>2, <1>3, <1>6, <1>7 DEF EInv

LEMMA Gone ==
  ASSUME EInv, IInv', NEW c \in CPs, stored' = [stored EXCEPT ![c] = {}],
         UNCHANGED <<pending, creates, keystones>>,
         \A l \in Places : \A o \in keystones[l] : o.owner # Labelled(c)
  PROVE  EInv'
<1>1. stored'[c] = {} /\ \A d \in CPs \ {c} : stored'[d] = stored[d]
  BY DEF EInv, IInv, Planes
<1>2. Numbered'
  BY <1>1 DEF EInv, Numbered
<1>3. LabelsHeld'
  BY <1>1 DEF EInv, LabelsHeld
<1>4. SpecsAdmitted' /\ ChildrenFrozen'
  BY <1>1 DEF EInv, SpecsAdmitted, ChildrenFrozen
<1>. QED
  BY <1>2, <1>3, <1>4 DEF EInv

LEMMA AdmitKeepsEndpoint ==
  ASSUME EInv, IInv', Requests, NEW c \in CPs, NEW draft \in Drafts[c],
         AdmitCreate(c, draft)
  PROVE  EInv'
<1>1. /\ UNCHANGED <<stored, keystones>> /\ creates' = creates + 1
      /\ \E t : /\ ValidateCreate(Home(c), Name(c), Default(draft), Existing)
                /\ pending' = pending \union
                     {[cp |-> c, uid |-> creates + 1, spec |-> Default(draft), created |-> t]}
  BY DEF AdmitCreate, children
<1>2. PICK t : /\ ValidateCreate(Home(c), Name(c), Default(draft), Existing)
               /\ pending' = pending \union
                    {[cp |-> c, uid |-> creates + 1, spec |-> Default(draft), created |-> t]}
  BY <1>1
<1>. DEFINE new == [cp |-> c, uid |-> creates + 1, spec |-> Default(draft), created |-> t]
<1>3. /\ new.cp = c /\ new.uid = creates + 1 /\ new.spec = Default(draft)
      /\ \A p \in pending' : p \in pending \/ p = new
  BY <1>2
<1>. HIDE DEF new
<1>4. Admitted(c, Default(draft))
  <2>1. IsSpec(Default(draft))
    BY DefaultIsSpec DEF Requests
  <2>2. validate(Home(c), Name(c), Default(draft))
    BY <1>2 DEF ValidateCreate
  <2>. QED
    BY <2>1, <2>2, ValidIsAdmitted
<1>5. Numbered'
  BY <1>1, <1>3 DEF EInv, Numbered
<1>6. SpecsAdmitted'
  BY <1>1, <1>3, <1>4 DEF EInv, SpecsAdmitted
<1>7. LabelsHeld' /\ ChildrenFrozen'
  BY <1>1 DEF EInv, LabelsHeld, ChildrenFrozen
<1>. QED
  BY <1>5, <1>6, <1>7 DEF EInv

\* A new ControlPlane owns no child: its UID is new, and a label of its name
\* would be held by one that is stored.
LEMMA StoreKeepsEndpoint ==
  ASSUME EInv, IInv', NEW p \in pending, StoreCreate(p)
  PROVE  EInv'
<1>. DEFINE new == [spec |-> p.spec, uid |-> p.uid, gen |-> 1, created |-> p.created,
                    finalizer |-> FALSE, deleting |-> FALSE, allow |-> FALSE]
<1>1. /\ pending' = pending \ {p} /\ UNCHANGED <<keystones, creates>>
      /\ stored' = [stored EXCEPT ![p.cp] = {new}]
  BY DEF StoreCreate, children, bounds
<1>2. /\ new.uid = p.uid /\ new.spec = p.spec
      /\ p.cp \in CPs /\ DOMAIN stored = CPs /\ stored[p.cp] = {}
  BY DEF EInv, IInv, Planes
<1>. HIDE DEF new
<1>3. stored'[p.cp] = {new} /\ \A d \in CPs \ {p.cp} : stored'[d] = stored[d]
  BY <1>1, <1>2
<1>4. Numbered'
  BY <1>1, <1>2, <1>3 DEF EInv, Numbered
<1>5. \A l \in Places : \A o \in keystones[l] : o.owner # Labelled(p.cp)
  BY <1>2 DEF EInv, LabelsHeld
<1>6. LabelsHeld'
  BY <1>1, <1>3, <1>5 DEF EInv, LabelsHeld
<1>7. SpecsAdmitted'
  BY <1>1, <1>2, <1>3 DEF EInv, SpecsAdmitted
<1>8. ChildrenFrozen'
  <2> SUFFICES ASSUME NEW d \in CPs, NEW dp \in stored'[d], ~ IsExternalKeystone(dp.spec),
                      NEW o \in keystones[KeystonePlace(d, dp.spec)],
                      isControlPlaneChild(o, d, dp)
               PROVE  Frozen(o.spec, dp.spec)
    BY <1>1 DEF ChildrenFrozen
  <2>1. CASE d # p.cp
    BY <1>3, <2>1 DEF EInv, ChildrenFrozen
  <2>2. CASE d = p.cp
    <3>1. dp = new
      BY <1>3, <2>2
    <3>2. KeystonePlace(d, dp.spec) \in Places
      BY <1>2, <2>2, <3>1 DEF EInv, SpecsAdmitted, Admitted
    <3>3. o.owner = Labelled(p.cp) \/ o.owner.uid = p.uid
      BY <1>2, <2>2, <3>1 DEF isControlPlaneChild, Id
    <3>. QED
      BY <1>5, <3>2, <3>3 DEF EInv, Numbered
  <2>. QED
    BY <2>1, <2>2
<1>. QED
  BY <1>4, <1>6, <1>7, <1>8 DEF EInv

LEMMA UserKeepsEndpoint ==
  ASSUME EInv, IInv', Requests, User
  PROVE  EInv'
<1>. USE DEF children, api
<1>1. ASSUME NEW c \in CPs, NEW s \in Drafts[c], AdmitCreate(c, s) PROVE EInv'
  BY <1>1, AdmitKeepsEndpoint
<1>2. ASSUME NEW p \in pending, StoreCreate(p) PROVE EInv'
  BY <1>2, StoreKeepsEndpoint
<1>3. ASSUME NEW c \in CPs, NEW x \in stored[c], NEW e \in Edits(x.spec), Update(c, e)
      PROVE  EInv'
  <2>1. PICK cp \in stored[c] :
          /\ ValidateUpdate(Home(c), Name(c), cp.spec, Default(e))
          /\ Store(c, [cp EXCEPT !.spec = Default(e), !.gen = @ + 1])
    BY <1>3 DEF Update
  <2>. DEFINE n == [cp EXCEPT !.spec = Default(e), !.gen = @ + 1]
  <2>2. DOMAIN cp = PlaneFields
    BY DEF EInv, IInv, Planes
  <2>3. n.uid = cp.uid /\ n.spec = Default(e) /\ n.finalizer = cp.finalizer
    BY <2>2 DEF PlaneFields
  <2>4. IsSpec(Default(e))
    <3>1. IsSpec(x.spec)
      BY DEF EInv, SpecsAdmitted, Admitted
    <3>2. IsSpec(e)
      BY <3>1 DEF Requests
    <3>. QED
      BY <3>2, DefaultIsSpec
  <2>5. /\ stored' = [stored EXCEPT ![c] = {n}]
        /\ UNCHANGED <<pending, creates, keystones>>
    BY <2>1 DEF Store
  <2>. HIDE DEF n
  <2>. QED
    BY <2>1, <2>3, <2>4, <2>5, StoredAnew
<1>4. ASSUME NEW c \in CPs, AllowDeletion(c) PROVE EInv'
  <2>1. PICK cp \in stored[c] : Store(c, [cp EXCEPT !.allow = TRUE])
    BY <1>4 DEF AllowDeletion
  <2>. DEFINE n == [cp EXCEPT !.allow = TRUE]
  <2>2. DOMAIN cp = PlaneFields
    BY DEF EInv, IInv, Planes
  <2>3. n.uid = cp.uid /\ n.spec = cp.spec /\ n.finalizer = cp.finalizer
    BY <2>2 DEF PlaneFields
  <2>4. /\ stored' = [stored EXCEPT ![c] = {n}]
        /\ UNCHANGED <<pending, creates, keystones>>
    BY <2>1 DEF Store
  <2>. HIDE DEF n
  <2>. QED
    BY <2>3, <2>4, StoredAnew
<1>5. ASSUME NEW c \in CPs, Delete(c) PROVE EInv'
  <2>1. PICK cp \in stored[c] :
          \/ cp.finalizer /\ Store(c, [cp EXCEPT !.deleting = TRUE])
          \/ ~ cp.finalizer /\ Forget(c)
    BY <1>5 DEF Delete
  <2>2. CASE cp.finalizer /\ Store(c, [cp EXCEPT !.deleting = TRUE])
    <3>. DEFINE n == [cp EXCEPT !.deleting = TRUE]
    <3>1. DOMAIN cp = PlaneFields
      BY DEF EInv, IInv, Planes
    <3>2. n.uid = cp.uid /\ n.spec = cp.spec /\ n.finalizer = cp.finalizer
      BY <3>1 DEF PlaneFields
    <3>3. /\ stored' = [stored EXCEPT ![c] = {n}]
          /\ UNCHANGED <<pending, creates, keystones>>
      BY <2>2 DEF Store
    <3>. HIDE DEF n
    <3>. QED
      BY <3>2, <3>3, StoredAnew
  <2>3. CASE ~ cp.finalizer /\ Forget(c)
    <3>1. /\ stored' = [stored EXCEPT ![c] = {}]
          /\ UNCHANGED <<pending, creates, keystones>>
      BY <2>3 DEF Forget
    <3>2. \A x \in stored[c] : x = cp
      BY DEF EInv, IInv, Planes, Lone
    <3>3. \A l \in Places : \A o \in keystones[l] : o.owner # Labelled(c)
      BY <2>3, <3>2 DEF EInv, LabelsHeld
    <3>. QED
      BY <3>1, <3>3, Gone
  <2>. QED
    BY <2>1, <2>2, <2>3
<1>. QED
  BY <1>1, <1>2, <1>3, <1>4, <1>5 DEF User

LEMMA ReconcileKeepsEndpoint ==
  ASSUME EInv, IInv', NEW c \in CPs, Reconcile(c)
  PROVE  EInv'
<1>. USE DEF children, api, bounds
<1>0. IInv /\ keystones = [l \in Places |-> keystones[l]]
  BY DEF EInv, IInv, Children
<1>1. PICK cp \in stored[c] :
        \/ Finalize(c, cp) \/ parkDuplicateControlPlane(c, cp)
        \/ SetFinalizer(c, cp)
        \/ cp.finalizer /\ RunPipeline(c, cp)
  BY DEF Reconcile
<1>2. CASE Finalize(c, cp)
  <2>1. CASE Abroad(c, keystones) = {} /\ Forget(c)
    <3>1. /\ stored' = [stored EXCEPT ![c] = {}]
          /\ UNCHANGED <<pending, creates, keystones>>
      BY <2>1 DEF Forget
    <3>2. \A l \in Places : \A o \in keystones[l] : o.owner # Labelled(c)
      BY <2>1 DEF EInv, LabelsHeld, Abroad
    <3>. QED
      BY <3>1, <3>2, Gone
  <2>2. CASE /\ UNCHANGED <<stored, pending, creates>>
             /\ \E Q : keystones' = Condemn(keystones, Q)
    <3>1. \A l \in Places : \A n \in keystones'[l] : Kin(n, keystones[l])
      BY <1>0, <2>2, CondemnIs
    <3>. QED
      BY <2>2, <3>1, SameKin
  <2>. QED
    BY <1>2, <2>1, <2>2 DEF Finalize
<1>3. CASE parkDuplicateControlPlane(c, cp)
  <2>1. UNCHANGED <<stored, pending, creates, keystones>>
    BY <1>3 DEF parkDuplicateControlPlane
  <2>. QED
    BY <2>1, SameKin DEF Kin
<1>4. CASE SetFinalizer(c, cp)
  <2>. DEFINE n == [cp EXCEPT !.finalizer = TRUE]
  <2>1. DOMAIN cp = PlaneFields
    BY DEF EInv, IInv, Planes
  <2>2. n.uid = cp.uid /\ n.spec = cp.spec /\ n.finalizer
    BY <2>1 DEF PlaneFields
  <2>3. /\ stored' = [stored EXCEPT ![c] = {n}]
        /\ UNCHANGED <<pending, creates, keystones>>
    BY <1>4 DEF SetFinalizer
  <2>. HIDE DEF n
  <2>. QED
    BY <2>2, <2>3, StoredAnew
<1>5. CASE cp.finalizer /\ RunPipeline(c, cp)
  <2>1. UNCHANGED <<stored, pending, creates>>
    BY <1>5 DEF RunPipeline
  <2>2. \A l \in Places : \A n \in keystones'[l] :
          Kin(n, keystones[l]) \/ Projected(c, cp, l, n)
    BY <1>0, <1>5, PassIs DEF Kin
  <2>. QED
    BY <1>5, <2>1, <2>2, SameKin
<1>. QED
  BY <1>1, <1>2, <1>3, <1>4, <1>5

LEMMA WorldKeepsEndpoint ==
  ASSUME EInv, IInv', World
  PROVE  EInv'
<1>. USE DEF children, api, bounds
<1>0. IInv /\ keystones = [l \in Places |-> keystones[l]]
  BY DEF EInv, IInv, Children
<1>1. ASSUME NEW p \in Places, KeystoneEvent(p) PROVE EInv'
  <2>1. UNCHANGED <<stored, pending, creates>>
    BY <1>1 DEF KeystoneEvent
  <2>2. \A l \in Places : \A n \in keystones'[l] : Kin(n, keystones[l])
    BY <1>0, <1>1, EventIs DEF Kin
  <2>. QED
    BY <2>1, <2>2, SameKin
<1>2. CASE UNCHANGED <<stored, pending, creates, keystones>>
  BY <1>2, SameKin DEF Kin
<1>. QED
  BY <1>1, <1>2 DEF World, HorizonEvent, BreakDown, Recover, Attach

LEMMA InitEInv == Init => EInv
<1>. SUFFICES ASSUME Init PROVE EInv
  OBVIOUS
<1>1. stored = [c \in CPs |-> {}] /\ pending = {} /\ creates = 0
  BY DEF Init
<1>2. \A l \in Places : \A o \in keystones[l] : o.owner = Foreign
  <2>. DEFINE stranger == [NewChild(Foreign, StrangerSpec) EXCEPT !.ready = TRUE, !.current = TRUE]
  <2>1. stranger.owner = Foreign
    BY DEF NewChild
  <2>2. keystones = [p \in Places |-> IF p \in Strangers THEN {stranger} ELSE {}]
    BY DEF Init
  <2>. HIDE DEF stranger
  <2>. QED
    BY <2>1, <2>2
<1>3. Numbered /\ SpecsAdmitted /\ ChildrenFrozen
  BY <1>1, <1>2 DEF Numbered, SpecsAdmitted, ChildrenFrozen, Foreign, Labelled
<1>4. LabelsHeld
  <2>1. \A c \in CPs : Foreign.cp # c /\ Labelled(c).cp = c
    BY ControlPlaneAssumption DEF Foreign, Labelled
  <2>. QED
    BY <1>2, <2>1 DEF LabelsHeld
<1>. QED
  BY <1>3, <1>4, InitIInv DEF EInv

LEMMA NextEInv ==
  ASSUME Requests, EInv, [Next]_vars
  PROVE  EInv'
<1>1. IInv'
  BY NextIInv DEF EInv
<1>2. CASE UNCHANGED vars
  <2>1. UNCHANGED <<stored, pending, creates, keystones>>
    BY <1>2 DEF vars, api, children, bounds
  <2>. QED
    BY <1>1, <2>1, SameKin DEF Kin
<1>. QED
  BY <1>1, <1>2, UserKeepsEndpoint, WorldKeepsEndpoint, ReconcileKeepsEndpoint DEF Next

\* A field that the Keystone API freezes is frozen on the ControlPlane too: no
\* legal sequence of edits, dropping the block and declaring it again included,
\* leads to a projection that the child's API rejects for ever, but for the
\* public endpoint.
THEOREM OnlyEndpointEverRejected ==
  ASSUME Requests
  PROVE  Spec => []OnlyEndpointRejected
<1>1. EInv => OnlyEndpointRejected
  BY DEF EInv, ChildrenFrozen, OnlyEndpointRejected, Frozen, KeystoneFrozen, keystoneChild
<1>2. EInv /\ [Next]_vars => EInv'
  BY NextEInv
<1>. QED
  BY <1>1, <1>2, InitEInv, PTL DEF Spec
=============================================================================
