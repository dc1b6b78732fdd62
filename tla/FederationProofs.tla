--------------------------- MODULE FederationProofs ---------------------------
(* Proofs about Federation, for any backends, drafts, issuers, names and      *)
(* bounds: what is mounted is of one projection, and one broken backend is    *)
(* dropped alone.                                                             *)
EXTENDS Federation, TLAPS

-----------------------------------------------------------------------------
(* The inductive invariant.                                                 *)

\* What the webhook let through of a spec, whatever its siblings are by now.
AdmittedSpec(s) ==
  /\ s.type \in BackendTypes /\ ValidUnion(s)
  /\ \A o \in s.oidc : validateOIDC(o)
  /\ \A m \in s.saml : validateSAML(m)

RequestOK(q) ==
  /\ q = [name |-> q.name, spec |-> q.spec, gen |-> q.gen]
  /\ q.name \in Backends /\ q.gen \in Nat /\ AdmittedSpec(q.spec)

\* A backend is a record of these fields, and one that is attached was admitted.
Fields == {"st", "spec", "gen", "fin", "id", "ready", "fed", "map", "projected"}
Whole(r) == r = [f \in Fields |-> r[f]]
IsAttached(r) == r.st \in {"live", "deleting"}
BackendOK(r) == /\ Whole(r) /\ r.gen \in Nat
                /\ IsAttached(r) => AdmittedSpec(r.spec)

\* A pass computes a status, and nothing else, from the copy it holds.
SameObject(r, t) == r.st = t.st /\ r.spec = t.spec /\ r.gen = t.gen
CopyOK(h, w, p) ==
  p \in {"federation", "observe", "again"} => Whole(w) /\ SameObject(w, h)

LocalOK(r, h, w, p) == BackendOK(r) /\ CopyOK(h, w, p)

Shaped(f) == f = [b \in Backends |-> f[b]]
Shapes == Shaped(backend) /\ Shaped(hand) /\ Shaped(work) /\ Shaped(pc)
RequestsOK == \A q \in request : RequestOK(q)
BackendsOK == \A b \in Backends :
                LocalOK(backend[b], hand[b], work[b], pc[b])

\* The render cache holds what rendering its key gives.
MemoOK == \A m \in memo : m.config = RenderConfig(m.key)

FedInv == Shapes /\ RequestsOK /\ BackendsOK /\ MemoOK /\ ProjectionSound

-----------------------------------------------------------------------------
(* Operators on one spec and one backend.                                   *)

\* The one element of an optional block that is set.
LEMMA TheIn == ASSUME NEW S, S # {} PROVE The(S) \in S
  BY DEF The

\* The defaulting webhook keeps the type.
LEMMA DefaultType ==
  ASSUME NEW b, NEW s \in KeystoneIdentityBackendSpec
  PROVE  Default(b, s).type = s.type /\ s.type \in BackendTypes
<1>1. PICK t \in BackendTypes : s.type = t
  BY DEF KeystoneIdentityBackendSpec
<1>2. s = [s EXCEPT !.type = t]
  BY <1>1 DEF KeystoneIdentityBackendSpec
<1>3. Default(b, s).type = s.type
  BY <1>2 DEF Default, KeystoneIdentityBackendSpec
<1> QED
  BY <1>1, <1>3

LEMMA ValidAdmits ==
  ASSUME NEW b, NEW s, s.type \in BackendTypes, Valid(b, s)
  PROVE  AdmittedSpec(s)
  BY DEF AdmittedSpec, Valid

\* Every status, finalizer or deletion mark is set on the same object.
LEMMA SameFin ==
  ASSUME NEW r, Whole(r)
  PROVE  LET n == [r EXCEPT !.fin = TRUE] IN Whole(n) /\ SameObject(n, r)
<1> DEFINE n == [r EXCEPT !.fin = TRUE]
<1>1. n.st = r.st /\ n.spec = r.spec /\ n.gen = r.gen
  BY DEF Whole, Fields
<1>2. Whole(n)
  BY DEF Whole
<1> QED
  BY <1>1, <1>2 DEF SameObject

LEMMA SameDeleting ==
  ASSUME NEW r, Whole(r)
  PROVE  LET n == [r EXCEPT !.st = "deleting"]
         IN Whole(n) /\ n.st = "deleting" /\ n.spec = r.spec /\ n.gen = r.gen
  BY DEF Whole, Fields

LEMMA SameDomain ==
  ASSUME NEW r, Whole(r), NEW v1, NEW v2, NEW v3, NEW v4
  PROVE  LET n == [r EXCEPT !.id = v1, !.ready = v2, !.fed = v3, !.map = v4]
         IN Whole(n) /\ SameObject(n, r)
<1> DEFINE n == [r EXCEPT !.id = v1, !.ready = v2, !.fed = v3, !.map = v4]
<1>1. n.st = r.st /\ n.spec = r.spec /\ n.gen = r.gen
  BY DEF Whole, Fields
<1>2. Whole(n)
  BY DEF Whole
<1> QED
  BY <1>1, <1>2 DEF SameObject

LEMMA SameReady ==
  ASSUME NEW r, Whole(r), NEW v
  PROVE  LET n == [r EXCEPT !.ready = v] IN Whole(n) /\ SameObject(n, r)
  BY DEF Whole, Fields, SameObject

LEMMA SameProjected ==
  ASSUME NEW r, Whole(r), NEW v
  PROVE  LET n == [r EXCEPT !.projected = v] IN Whole(n) /\ SameObject(n, r)
  BY DEF Whole, Fields, SameObject

LEMMA NoneWhole ==
  ASSUME NEW b
  PROVE  /\ Whole(NoBackend(b)) /\ NoBackend(b).st = "none" /\ NoBackend(b).gen = 0
         /\ BackendOK(NoBackend(b))
<1>1. Whole(NoBackend(b)) /\ NoBackend(b).st = "none" /\ NoBackend(b).gen = 0
  BY DEF Whole, Fields, NoBackend
<1> QED
  BY <1>1 DEF BackendOK, IsAttached

\* An object that is the same in status, spec and generation is as good.
LEMMA SameLocal ==
  ASSUME NEW r, NEW n, NEW h, NEW w, NEW p,
         LocalOK(r, h, w, p), Whole(n), SameObject(n, r)
  PROVE  LocalOK(n, h, w, p)
<1>1. BackendOK(n)
  BY DEF LocalOK, BackendOK, SameObject, IsAttached
<1> QED
  BY <1>1 DEF LocalOK

\* A pass that ends, or never began, holds no copy to be faithful to.
LEMMA IdleLocal ==
  ASSUME NEW r, NEW h, NEW w, NEW p, NEW hh, NEW ww,
         LocalOK(r, h, w, p)
  PROVE  /\ LocalOK(r, hh, ww, "idle")
         /\ LocalOK(r, hh, ww, "teardown")
  BY DEF LocalOK, CopyOK

\* A pass that moves on with a faithful copy keeps it.
LEMMA CopyLocal ==
  ASSUME NEW r, NEW h, NEW w, NEW p,
         NEW hh, NEW ww, NEW pp,
         LocalOK(r, h, w, p), Whole(ww), SameObject(ww, hh)
  PROVE  LocalOK(r, hh, ww, pp)
  BY DEF LocalOK, CopyOK

-----------------------------------------------------------------------------
(* Steps that leave the projection alone.                                   *)

LEMMA FedInvInit == Init => FedInv
<1> SUFFICES ASSUME Init PROVE FedInv
  OBVIOUS
<1>1. Shapes
  BY DEF Init, Shapes, Shaped
<1>2. RequestsOK /\ MemoOK
  BY DEF Init, RequestsOK, MemoOK
<1>3. BackendsOK
  <2> SUFFICES ASSUME NEW b \in Backends
               PROVE  LocalOK(backend[b], hand[b], work[b], pc[b])
    BY DEF BackendsOK
  <2>1. backend[b] = NoBackend(b) /\ pc[b] = "idle"
    BY DEF Init
  <2>2. BackendOK(backend[b])
    BY <2>1, NoneWhole
  <2>3. CopyOK(hand[b], work[b], pc[b])
    BY <2>1 DEF CopyOK
  <2> QED
    BY <2>2, <2>3 DEF LocalOK
<1>4. ProjectionSound
  <2>1. dep.fed = {} /\ dep.domains = {} /\ dep.config = NoConfig
    BY DEF Init, NoDeployment
  <2> QED
    BY <2>1 DEF ProjectionSound, NoConfig
<1> QED
  BY <1>1, <1>2, <1>3, <1>4 DEF FedInv

\* A step that leaves the Deployment and remembers nothing new of keystone.conf
\* need only answer for the backends.
LEMMA KeepProjection ==
  ASSUME FedInv, dep' = dep, memo' \subseteq memo, Shapes', RequestsOK', BackendsOK'
  PROVE  FedInv'
<1>1. MemoOK'
  BY DEF FedInv, MemoOK
<1>2. ProjectionSound'
  BY DEF FedInv, ProjectionSound
<1> QED
  BY <1>1, <1>2 DEF FedInv

LEMMA QuietStep ==
  ASSUME FedInv, UNCHANGED <<backend, hand, work, pc, dep, memo>>, RequestsOK'
  PROVE  FedInv'
<1>1. Shapes'
  BY DEF FedInv, Shapes, Shaped
<1>2. BackendsOK'
  BY DEF FedInv, BackendsOK
<1> QED
  BY <1>1, <1>2, KeepProjection

\* ... for one backend, when it leaves the others alone.
LEMMA OneStep ==
  ASSUME FedInv, dep' = dep, memo' = memo, Shapes', RequestsOK',
         NEW b \in Backends,
         \A c \in Backends \ {b} : /\ backend'[c] = backend[c] /\ hand'[c] = hand[c]
                                   /\ work'[c] = work[c] /\ pc'[c] = pc[c],
         LocalOK(backend'[b], hand'[b], work'[b], pc'[b])
  PROVE  FedInv'
<1>1. BackendsOK'
  <2> SUFFICES ASSUME NEW c \in Backends
               PROVE  LocalOK(backend'[c], hand'[c], work'[c], pc'[c])
    BY DEF BackendsOK
  <2>1. CASE c = b
    BY <2>1
  <2>2. CASE c # b
    BY <2>2 DEF FedInv, BackendsOK
  <2> QED
    BY <2>1, <2>2
<1> QED
  BY <1>1, KeepProjection

LEMMA AskedOK ==
  ASSUME FedInv, NEW b \in Backends, NEW s, NEW gen \in Nat, s.type \in BackendTypes,
         Asks(b, s, gen)
  PROVE  RequestsOK'
<1> DEFINE q == [name |-> b, spec |-> s, gen |-> gen]
<1>1. RequestOK(q)
  <2>1. AdmittedSpec(s)
    BY ValidAdmits DEF Asks
  <2> QED
    BY <2>1 DEF RequestOK
<1>2. request' = request \union {q}
  BY DEF Asks
<1> QED
  BY <1>1, <1>2 DEF FedInv, RequestsOK

LEMMA CreateKeeps ==
  ASSUME FedInv, NEW b \in Backends, ValidateCreate(b)
  PROVE  FedInv'
<1>1. PICK s \in Drafts[b] : Asks(b, Default(b, s), 0)
  BY DEF ValidateCreate
<1>2. Default(b, s).type \in BackendTypes
  BY DraftsAssumption, DefaultType
<1>3. RequestsOK'
  BY <1>1, <1>2, AskedOK
<1> QED
  BY <1>3, QuietStep DEF ValidateCreate, operator, pass

LEMMA UpdateKeeps ==
  ASSUME FedInv, NEW b \in Backends, ValidateUpdate(b)
  PROVE  FedInv'
<1>1. PICK d \in Drafts[b] : Asks(b, Default(b, d), backend[b].gen)
  BY DEF ValidateUpdate
<1>2. Default(b, d).type \in BackendTypes
  BY DraftsAssumption, DefaultType
<1>3. backend[b].gen \in Nat
  BY DEF FedInv, BackendsOK, LocalOK, BackendOK
<1>4. RequestsOK'
  BY <1>1, <1>2, <1>3, AskedOK
<1> QED
  BY <1>4, QuietStep DEF ValidateUpdate, operator, pass

LEMMA WorldKeeps ==
  ASSUME FedInv, ChangeWorld \/ Mend
  PROVE  FedInv'
<1>1. UNCHANGED <<request, backend, hand, work, pc, dep, memo>>
  BY DEF ChangeWorld, Mend, operator, pass
<1>2. RequestsOK'
  BY <1>1 DEF FedInv, RequestsOK
<1> QED
  BY <1>1, <1>2, QuietStep

LEMMA CrashKeeps ==
  ASSUME FedInv, Crash
  PROVE  FedInv'
<1>1. Shapes'
  BY DEF FedInv, Shapes, Shaped, Crash
<1>2. RequestsOK'
  BY DEF FedInv, RequestsOK, Crash
<1>3. BackendsOK'
  <2> SUFFICES ASSUME NEW b \in Backends
               PROVE  LocalOK(backend'[b], hand'[b], work'[b], pc'[b])
    BY DEF BackendsOK
  <2>1. backend'[b] = backend[b] /\ pc'[b] = "idle"
    BY DEF Crash
  <2>2. BackendOK(backend'[b])
    BY <2>1 DEF FedInv, BackendsOK, LocalOK
  <2>3. CopyOK(hand'[b], work'[b], pc'[b])
    BY <2>1 DEF CopyOK
  <2> QED
    BY <2>2, <2>3 DEF LocalOK
<1>4. dep' = dep /\ memo' = {}
  BY DEF Crash
<1> QED
  BY <1>1, <1>2, <1>3, <1>4, KeepProjection

\* The API server starts a generation of the spec that was admitted.
LEMMA NextGeneration ==
  ASSUME NEW r, NEW n, NEW h, NEW w, NEW p, NEW q,
         LocalOK(r, h, w, p), RequestOK(q),
         Whole(n), n.st = "live", n.spec = q.spec, n.gen = q.gen + 1
  PROVE  LocalOK(n, h, w, p)
  BY DEF LocalOK, BackendOK, RequestOK

LEMMA PersistKeeps ==
  ASSUME FedInv, Persist
  PROVE  FedInv'
<1>1. PICK q \in request :
        LET b == q.name
            fresh == IF q.gen = 0 THEN backend[b].st = "none"
                     ELSE backend[b].st = "live" /\ backend[b].gen = q.gen
        IN /\ request' = request \ {q}
           /\ backend' = IF fresh
                         THEN [backend EXCEPT ![b].st = "live", ![b].spec = q.spec,
                                              ![b].gen = q.gen + 1]
                         ELSE backend
  BY DEF Persist
<1> DEFINE b == q.name
           fresh == IF q.gen = 0 THEN backend[b].st = "none"
                    ELSE backend[b].st = "live" /\ backend[b].gen = q.gen
           n == backend'[b]
<1>2. RequestOK(q) /\ b \in Backends /\ q.gen \in Nat
  BY DEF FedInv, RequestsOK, RequestOK
<1>3. RequestsOK'
  BY <1>1 DEF FedInv, RequestsOK
<1>4. UNCHANGED <<hand, work, pc, dep, memo>>
  BY DEF Persist, operator, pass
<1>5. CASE ~ fresh
  <2>1. backend' = backend
    BY <1>1, <1>5
  <2> QED
    BY <1>3, <1>4, <2>1, QuietStep
<1>6. CASE fresh
  <2>1. backend' = [backend EXCEPT ![b].st = "live", ![b].spec = q.spec,
                                   ![b].gen = q.gen + 1]
    BY <1>1, <1>6
  <2>2. Whole(backend[b]) /\ Shaped(backend)
    BY <1>2 DEF FedInv, Shapes, BackendsOK, LocalOK, BackendOK
  <2>3. /\ Whole(n) /\ n.st = "live" /\ n.spec = q.spec /\ n.gen = q.gen + 1
    BY <1>2, <2>1, <2>2 DEF Whole, Fields, Shaped
  <2>4. Shaped(backend') /\ \A c \in Backends \ {b} : backend'[c] = backend[c]
    BY <2>1, <2>2 DEF Shaped
  <2>5. LocalOK(backend[b], hand[b], work[b], pc[b])
    BY <1>2 DEF FedInv, BackendsOK
  <2>6. LocalOK(n, hand[b], work[b], pc[b])
    BY <1>2, <1>6, <2>3, <2>5, NextGeneration
  <2>7. Shapes'
    BY <1>4, <2>4 DEF FedInv, Shapes, Shaped
  <2> HIDE DEF b, n
  <2> QED
    BY <1>2, <1>3, <1>4, <2>4, <2>6, <2>7, OneStep DEF n
<1> QED
  BY <1>5, <1>6

\* A deleted backend keeps its spec and generation until it is gone, when
\* nothing more is asked of it.
LEMMA GoneLocal ==
  ASSUME NEW b, NEW r, NEW h, NEW w, NEW p,
         LocalOK(r, h, w, p)
  PROVE  LocalOK(Gone(b), h, w, p)
<1>1. Gone(b).st = "gone" /\ Gone(b).gen = 0 /\ Whole(Gone(b))
  BY NoneWhole DEF Gone, Whole, Fields
<1> QED
  BY <1>1 DEF LocalOK, BackendOK, IsAttached

LEMMA DeletingLocal ==
  ASSUME NEW r, NEW n, NEW h, NEW w, NEW p,
         LocalOK(r, h, w, p), r.st = "live",
         Whole(n), n.st = "deleting", n.spec = r.spec, n.gen = r.gen
  PROVE  LocalOK(n, h, w, p)
<1>1. BackendOK(n)
  BY DEF LocalOK, BackendOK, IsAttached
<1> QED
  BY <1>1 DEF LocalOK

\* A step that replaces one backend object and touches no pass.
LEMMA ReplaceStep ==
  ASSUME FedInv, NEW b \in Backends, NEW n, backend' = [backend EXCEPT ![b] = n],
         UNCHANGED <<request, hand, work, pc, dep, memo>>,
         LocalOK(n, hand[b], work[b], pc[b])
  PROVE  FedInv'
<1>1. Shaped(backend)
  BY DEF FedInv, Shapes
<1>2. Shaped(backend') /\ backend'[b] = n /\ \A c \in Backends \ {b} : backend'[c] = backend[c]
  BY <1>1 DEF Shaped
<1>3. Shapes' /\ RequestsOK'
  BY <1>2 DEF FedInv, Shapes, Shaped, RequestsOK
<1> QED
  BY <1>2, <1>3, OneStep

LEMMA DeleteKeeps ==
  ASSUME FedInv, NEW b \in Backends, DeleteBackend(b)
  PROVE  FedInv'
<1> DEFINE n == IF backend[b].fin THEN [backend[b] EXCEPT !.st = "deleting"] ELSE Gone(b)
<1>1. LocalOK(backend[b], hand[b], work[b], pc[b])
  BY DEF FedInv, BackendsOK
<1>2. Whole(backend[b])
  BY <1>1 DEF LocalOK, BackendOK
<1>3. LocalOK(n, hand[b], work[b], pc[b])
  <2>1. CASE backend[b].fin
    BY <1>1, <1>2, <2>1, SameDeleting, DeletingLocal DEF DeleteBackend
  <2>2. CASE ~ backend[b].fin
    BY <1>1, <2>2, GoneLocal
  <2> QED
    BY <2>1, <2>2
<1>4. backend' = [backend EXCEPT ![b] = n]
  BY DEF DeleteBackend
<1>5. UNCHANGED <<request, hand, work, pc, dep, memo>>
  BY DEF DeleteBackend, operator, pass
<1> HIDE DEF n
<1> QED
  BY <1>3, <1>4, <1>5, ReplaceStep

LEMMA FinalizerKeeps ==
  ASSUME FedInv, NEW b \in Backends, InstallFinalizer(b)
  PROVE  FedInv'
<1> DEFINE n == [backend[b] EXCEPT !.fin = TRUE]
<1>1. LocalOK(backend[b], hand[b], work[b], pc[b])
  BY DEF FedInv, BackendsOK
<1>2. Whole(backend[b])
  BY <1>1 DEF LocalOK, BackendOK
<1>3. Whole(n) /\ SameObject(n, backend[b])
  BY <1>2, SameFin
<1>4. backend' = [backend EXCEPT ![b] = n]
  BY DEF InstallFinalizer
<1>5. UNCHANGED <<request, hand, work, pc, dep, memo>>
  BY DEF InstallFinalizer, Outside, operator, pass
<1> HIDE DEF n
<1>6. LocalOK(n, hand[b], work[b], pc[b])
  BY <1>1, <1>3, SameLocal
<1> QED
  BY <1>4, <1>5, <1>6, ReplaceStep

\* A step of the pass of one backend that leaves every object alone.
LEMMA PassStep ==
  ASSUME FedInv, NEW b \in Backends, NEW h, NEW w, NEW p,
         hand' = [hand EXCEPT ![b] = h], work' = [work EXCEPT ![b] = w],
         pc' = [pc EXCEPT ![b] = p],
         UNCHANGED <<request, backend, dep, memo>>,
         LocalOK(backend[b], h, w, p)
  PROVE  FedInv'
<1>1. Shaped(hand) /\ Shaped(work) /\ Shaped(pc)
  BY DEF FedInv, Shapes
<1>2. Shaped(hand') /\ hand'[b] = h /\ \A c \in Backends \ {b} : hand'[c] = hand[c]
  BY <1>1 DEF Shaped
<1>3. Shaped(work') /\ work'[b] = w /\ \A c \in Backends \ {b} : work'[c] = work[c]
  BY <1>1 DEF Shaped
<1>4. Shaped(pc') /\ pc'[b] = p /\ \A c \in Backends \ {b} : pc'[c] = pc[c]
  BY <1>1 DEF Shaped
<1>5. Shapes' /\ RequestsOK'
  BY <1>2, <1>3, <1>4 DEF FedInv, Shapes, Shaped, RequestsOK
<1> QED
  BY <1>2, <1>3, <1>4, <1>5, OneStep

\* ... and one that ends it with the object replaced.
LEMMA EndStep ==
  ASSUME FedInv, NEW b \in Backends, NEW n, EndPass(b),
         backend' = [backend EXCEPT ![b] = n],
         UNCHANGED <<request, dep, memo>>,
         LocalOK(n, hand[b], work[b], pc[b])
  PROVE  FedInv'
<1> DEFINE none == NoBackend(b)
<1>1. /\ hand' = [hand EXCEPT ![b] = none] /\ work' = [work EXCEPT ![b] = none]
      /\ pc' = [pc EXCEPT ![b] = "idle"]
  BY DEF EndPass, Goto
<1> HIDE DEF none
<1>2. Shaped(hand) /\ Shaped(work) /\ Shaped(pc) /\ Shaped(backend)
  BY DEF FedInv, Shapes
<1>3. Shaped(hand') /\ hand'[b] = none /\ \A c \in Backends \ {b} : hand'[c] = hand[c]
  BY <1>1, <1>2 DEF Shaped
<1>4. Shaped(work') /\ work'[b] = none /\ \A c \in Backends \ {b} : work'[c] = work[c]
  BY <1>1, <1>2 DEF Shaped
<1>5. Shaped(pc') /\ pc'[b] = "idle" /\ \A c \in Backends \ {b} : pc'[c] = pc[c]
  BY <1>1, <1>2 DEF Shaped
<1>6. Shaped(backend') /\ backend'[b] = n /\ \A c \in Backends \ {b} : backend'[c] = backend[c]
  BY <1>2 DEF Shaped
<1>7. LocalOK(n, none, none, "idle")
  BY IdleLocal
<1>8. Shapes' /\ RequestsOK'
  BY <1>3, <1>4, <1>5, <1>6 DEF FedInv, Shapes, Shaped, RequestsOK
<1> QED
  BY <1>3, <1>4, <1>5, <1>6, <1>7, <1>8, OneStep

LEMMA BackendAlone ==
  ASSUME FedInv, NEW b \in Backends
  PROVE  backend = [backend EXCEPT ![b] = backend[b]]
  BY DEF FedInv, Shapes, Shaped

LEMMA LocalNow ==
  ASSUME FedInv, NEW b \in Backends
  PROVE  /\ LocalOK(backend[b], hand[b], work[b], pc[b])
         /\ Whole(backend[b])
  BY DEF FedInv, BackendsOK, LocalOK, BackendOK

LEMMA DomainKeeps ==
  ASSUME FedInv, NEW b \in Backends, ensureDomain(b)
  PROVE  FedInv'
<1> DEFINE s == Spec_(b)
           existing == {d \in identity.domains : d.name = Folded[s.domain.name]}
           create == existing = {} /\ s.domain.mode = "Manage"
           id == IF create THEN b
                 ELSE IF s.domain.mode = "Adopt" /\ existing # {} THEN The(existing).by
                 ELSE backend[b].id
           ready == create \/ \E d \in existing : d.by = id
           federates == IsFederationType(s) /\ ready
           ruleless == federates /\ s.mappings = {}
           v2 == IF ready THEN "true" ELSE "false"
           v3 == IF ruleless THEN "false" ELSE backend[b].fed
           v4 == IF ruleless THEN "false" ELSE backend[b].map
           p == IF s.domain.mode = "Adopt" /\ existing = {} THEN "again"
                ELSE IF federates /\ ~ ruleless THEN "federation" ELSE "observe"
           w == [backend[b] EXCEPT !.id = id, !.ready = v2, !.fed = v3, !.map = v4]
<1>1. hand' = [hand EXCEPT ![b] = backend[b]] /\ pc' = [pc EXCEPT ![b] = p]
  BY DEF ensureDomain, Goto
<1>2. work' = [work EXCEPT ![b] = w]
  BY DEF ensureDomain
<1> HIDE DEF id, v2, v3, v4, p
<1>3. Whole(w) /\ SameObject(w, backend[b])
  BY LocalNow, SameDomain
<1>4. UNCHANGED <<request, backend, dep, memo>>
  BY DEF ensureDomain, Outside, operator
<1> HIDE DEF w
<1>5. LocalOK(backend[b], backend[b], w, p)
  BY <1>3, LocalNow, CopyLocal
<1> QED
  BY <1>1, <1>2, <1>4, <1>5, PassStep

LEMMA UnobservedKeeps ==
  ASSUME FedInv, NEW b \in Backends, Unobserved(b)
  PROVE  FedInv'
<1> DEFINE w == [backend[b] EXCEPT !.ready = Transient(@)]
<1>1. Whole(w) /\ SameObject(w, backend[b])
  BY LocalNow, SameReady
<1>2. /\ hand' = [hand EXCEPT ![b] = backend[b]] /\ work' = [work EXCEPT ![b] = w]
      /\ pc' = [pc EXCEPT ![b] = "again"]
  BY DEF Unobserved, Goto
<1>3. UNCHANGED <<request, backend, dep, memo>>
  BY DEF Unobserved, operator
<1> HIDE DEF w
<1>4. LocalOK(backend[b], backend[b], w, "again")
  BY <1>1, LocalNow, CopyLocal
<1> QED
  BY <1>2, <1>3, <1>4, PassStep

LEMMA FederationKeeps ==
  ASSUME FedInv, NEW b \in Backends, ensureFederation(b)
  PROVE  FedInv'
<1> DEFINE granted == Granted(b)
<1>1. PICK calls \in 0 .. 3 :
        /\ work' = [work EXCEPT
               ![b].map = IF calls = 1 THEN Transient(@)
                          ELSE IF calls > 1
                          THEN IF granted THEN "true" ELSE "false" ELSE @,
               ![b].fed = IF calls = 3 /\ granted THEN "true"
                          ELSE IF calls \in {0, 2} /\ granted THEN Transient(@) ELSE @]
        /\ pc' = [pc EXCEPT ![b] = IF calls = 3 /\ granted THEN "observe" ELSE "again"]
  BY DEF ensureFederation, Goto
<1> DEFINE p == IF calls = 3 /\ granted THEN "observe" ELSE "again"
           w == work'[b]
<1>2. Whole(work[b]) /\ SameObject(work[b], hand[b])
  BY LocalNow DEF ensureFederation, LocalOK, CopyOK
<1>3. Shaped(work) /\ Shaped(hand)
  BY DEF FedInv, Shapes
<1> HIDE DEF granted
<1>4. Whole(w) /\ SameObject(w, hand[b])
  <2>1. Whole(w)
    BY <1>1, <1>2, <1>3 DEF Whole, Shaped
  <2>2. w.st = work[b].st /\ w.spec = work[b].spec /\ w.gen = work[b].gen
    BY <1>1, <1>2, <1>3 DEF Whole, Fields, Shaped
  <2> QED
    BY <1>2, <2>1, <2>2 DEF SameObject
<1>5. work' = [work EXCEPT ![b] = w]
  BY <1>1, <1>3 DEF Shaped
<1>6. pc' = [pc EXCEPT ![b] = p]
  BY <1>1
<1>7. UNCHANGED <<request, backend, dep, memo>> /\ hand' = hand
  BY DEF ensureFederation, operator
<1>8. hand' = [hand EXCEPT ![b] = hand[b]]
  BY <1>3, <1>7 DEF Shaped
<1> HIDE DEF w
<1>9. LocalOK(backend[b], hand[b], w, p)
  BY <1>4, LocalNow, CopyLocal
<1> HIDE DEF p
<1> QED
  BY <1>6, <1>5, <1>7, <1>8, <1>9, PassStep

\* A status is written only over the object it was computed from.
LEMMA WriteKeeps ==
  ASSUME FedInv, NEW b \in Backends, NEW result, NEW again,
         Whole(result), SameObject(result, hand[b]), WriteStatus(b, result, again)
  PROVE  FedInv'
<1>1. EndPass(b) /\ UNCHANGED <<request, dep, memo>>
  BY DEF WriteStatus, Outside, operator
<1>2. \/ backend' = backend
      \/ backend' = [backend EXCEPT ![b] = result] /\ backend[b] = hand[b]
  BY DEF WriteStatus
<1>3. CASE backend' = backend
  BY <1>1, <1>3, LocalNow, BackendAlone, EndStep
<1>4. CASE backend' = [backend EXCEPT ![b] = result] /\ backend[b] = hand[b]
  <2>1. LocalOK(result, hand[b], work[b], pc[b])
    BY <1>4, LocalNow, SameLocal
  <2> QED
    BY <1>1, <1>4, <2>1, EndStep
<1> QED
  BY <1>2, <1>3, <1>4

LEMMA ObserveKeeps ==
  ASSUME FedInv, NEW b \in Backends, observeConfigProjected(b)
  PROVE  FedInv'
<1> DEFINE result == [work[b] EXCEPT !.projected = isConfigProjected(b)]
<1>1. Whole(work[b]) /\ SameObject(work[b], hand[b])
  BY LocalNow DEF observeConfigProjected, LocalOK, CopyOK
<1>2. Whole(result) /\ SameObject(result, hand[b])
  BY <1>1, SameProjected DEF SameObject
<1>3. WriteStatus(b, result, ~ isConfigProjected(b))
  BY DEF observeConfigProjected
<1> HIDE DEF result
<1> QED
  BY <1>2, <1>3, WriteKeeps

LEMMA StopKeeps ==
  ASSUME FedInv, NEW b \in Backends, StopEarly(b)
  PROVE  FedInv'
<1>1. Whole(work[b]) /\ SameObject(work[b], hand[b])
  BY LocalNow DEF StopEarly, LocalOK, CopyOK
<1> QED
  BY <1>1, WriteKeeps DEF StopEarly

LEMMA ReconcileDeleteKeeps ==
  ASSUME FedInv, NEW b \in Backends, reconcileDelete(b)
  PROVE  FedInv'
<1>1. hand' = [hand EXCEPT ![b] = backend[b]] /\ pc' = [pc EXCEPT ![b] = "teardown"]
  BY DEF reconcileDelete, Goto
<1>2. UNCHANGED <<request, backend, dep, memo>> /\ work' = work
  BY DEF reconcileDelete, Outside, operator
<1>3. work' = [work EXCEPT ![b] = work[b]]
  BY <1>2 DEF FedInv, Shapes, Shaped
<1>4. LocalOK(backend[b], backend[b], work[b], "teardown")
  BY LocalNow, IdleLocal
<1> QED
  BY <1>1, <1>2, <1>3, <1>4, PassStep

LEMMA TeardownKeeps ==
  ASSUME FedInv, NEW b \in Backends, Teardown(b)
  PROVE  FedInv'
<1>1. EndPass(b) /\ UNCHANGED <<request, dep, memo>>
  BY DEF Teardown, operator
<1>2. backend' = backend \/ backend' = [backend EXCEPT ![b] = Gone(b)]
  BY DEF Teardown
<1>3. CASE backend' = backend
  BY <1>1, <1>3, LocalNow, BackendAlone, EndStep
<1>4. CASE backend' = [backend EXCEPT ![b] = Gone(b)]
  <2>1. LocalOK(Gone(b), hand[b], work[b], pc[b])
    BY LocalNow, GoneLocal
  <2> QED
    BY <1>1, <1>4, <2>1, EndStep
<1> QED
  BY <1>2, <1>3, <1>4

LEMMA BackendPassKeeps ==
  ASSUME FedInv, NEW b \in Backends, BackendPass(b)
  PROVE  FedInv'
  BY FinalizerKeeps, DomainKeeps, UnobservedKeeps, FederationKeeps, ObserveKeeps,
     StopKeeps, ReconcileDeleteKeeps, TeardownKeeps DEF BackendPass

-----------------------------------------------------------------------------
(* What a Keystone pass renders.                                            *)

LEMMA AttachedAdmitted ==
  ASSUME FedInv, NEW b \in Backends, b \in Attached
  PROVE  AdmittedSpec(Spec_(b))
  BY LocalNow DEF Attached, LocalOK, BackendOK, IsAttached, Spec_

LEMMA RendersAdmitted ==
  ASSUME FedInv, NEW b \in Backends, Renders(b)
  PROVE  b \in Attached /\ b \in Living /\ AdmittedSpec(Spec_(b))
<1>1. b \in Living /\ b \in Attached
  BY DEF Renders, Reached, Living, Attached
<1> QED
  BY <1>1, AttachedAdmitted

LEMMA RenderedAs ==
  ASSUME NEW b
  PROVE  /\ RenderBackend(b).name = b
         /\ RenderBackend(b).base = Basename[FederationRemoteID(Spec_(b))]
  BY DEF RenderBackend

LEMMA OIDCRendered ==
  ASSUME NEW r \in OIDCRenders
  PROVE  \E b \in Backends : /\ Renders(b) /\ Spec_(b).type = "OIDC"
                             /\ r = RenderBackend(b)
  BY DEF OIDCRenders

LEMMA SAMLRendered ==
  ASSUME NEW r \in SAMLRenders
  PROVE  \E b \in Backends : /\ Renders(b) /\ Spec_(b).type = "SAML"
                             /\ r = RenderBackend(b)
  BY DEF SAMLRenders

\* No two metadata files have one name: Reached refuses a second backend whose
\* issuer is written the same.
LEMMA ItemsDistinct ==
  ASSUME FedInv, NEW i \in MetadataItems(OIDCRenders),
         NEW j \in MetadataItems(OIDCRenders), i[2] = j[2]
  PROVE  i = j
<1>1. PICK r \in OIDCRenders : \E f \in OIDCFiles : i = <<<<r.name, f>>, <<r.base, f>>>>
  BY DEF MetadataItems
<1>2. PICK f \in OIDCFiles : i = <<<<r.name, f>>, <<r.base, f>>>>
  BY <1>1
<1>3. PICK q \in OIDCRenders : \E g \in OIDCFiles : j = <<<<q.name, g>>, <<q.base, g>>>>
  BY DEF MetadataItems
<1>4. PICK g \in OIDCFiles : j = <<<<q.name, g>>, <<q.base, g>>>>
  BY <1>3
<1>5. f = g /\ r.base = q.base
  BY <1>2, <1>4
<1>6. PICK b \in Backends : Renders(b) /\ Spec_(b).type = "OIDC" /\ r = RenderBackend(b)
  BY OIDCRendered
<1>7. PICK c \in Backends : Renders(c) /\ Spec_(c).type = "OIDC" /\ q = RenderBackend(c)
  BY OIDCRendered
<1>8. b = c
  <2>1. SUFFICES ASSUME b # c PROVE FALSE
    OBVIOUS
  <2>2. Basename[FederationRemoteID(Spec_(b))] = Basename[FederationRemoteID(Spec_(c))]
    BY <1>5, <1>6, <1>7, RenderedAs
  <2>3. Basename[Block(Spec_(b)).issuer] = Basename[Block(Spec_(c)).issuer]
    BY <1>6, <1>7, <2>2 DEF FederationRemoteID
  <2>4. Spec_(b).oidc # {} /\ Spec_(c).oidc # {} /\ c \in Attached
    BY <1>6, <1>7, RendersAdmitted DEF AdmittedSpec, ValidUnion
  <2>5. SameIssuer(b)
    BY <2>1, <2>3, <2>4 DEF SameIssuer, Attached
  <2>6. ~ SameIssuer(b)
    BY <1>6 DEF Renders, Reached, IsFederationType
  <2> QED
    BY <2>5, <2>6
<1> QED
  BY <1>2, <1>4, <1>5, <1>6, <1>7, <1>8

\* The proxy serves one SAML provider.
LEMMA OneSAMLRender ==
  ASSUME FedInv, NEW r \in SAMLRenders, NEW q \in SAMLRenders
  PROVE  r = q
<1>1. PICK b \in Backends : Renders(b) /\ Spec_(b).type = "SAML" /\ r = RenderBackend(b)
  BY SAMLRendered
<1>2. PICK c \in Backends : Renders(c) /\ Spec_(c).type = "SAML" /\ q = RenderBackend(c)
  BY SAMLRendered
<1>3. \A x \in Backends : Renders(x) /\ Spec_(x).type = "SAML" => SAMLBackends = {x}
  BY RendersAdmitted DEF Renders, Reached, IsFederationType, AdmittedSpec, ValidUnion
<1> QED
  BY <1>1, <1>2, <1>3

LEMMA MellonNamed ==
  ASSUME NEW i \in MellonItems(SAMLRenders)
  PROVE  \/ i[1] = "sp" /\ i[2] \in {"key", "cert", "metadata"}
         \/ \E r \in SAMLRenders : i = <<r.name, "idp-metadata.xml">>
  BY DEF MellonItems, MellonKeys

LEMMA MellonDistinct ==
  ASSUME FedInv, NEW i \in MellonItems(SAMLRenders), NEW j \in MellonItems(SAMLRenders),
         i[2] = "idp-metadata.xml", j[2] = i[2]
  PROVE  i = j
<1>1. PICK r \in SAMLRenders : i = <<r.name, "idp-metadata.xml">>
  BY MellonNamed
<1>2. PICK q \in SAMLRenders : j = <<q.name, "idp-metadata.xml">>
  BY MellonNamed
<1> QED
  BY <1>1, <1>2, OneSAMLRender

\* A domain has one file: Reached refuses a second backend of it.
LEMMA DomainsDistinct ==
  ASSUME FedInv, NEW c \in DomainConfs, NEW d \in DomainConfs,
         Folded[c.domain] = Folded[d.domain]
  PROVE  c = d
<1>1. PICK a \in Backends : Renders(a) /\ c = renderDomainConf(Spec_(a))
  BY DEF DomainConfs
<1>2. PICK b \in Backends : Renders(b) /\ d = renderDomainConf(Spec_(b))
  BY DEF DomainConfs
<1>3. c.domain = Spec_(a).domain.name /\ d.domain = Spec_(b).domain.name
  BY <1>1, <1>2 DEF renderDomainConf
<1>4. a # b => DuplicateDomain(a)
  BY <1>2, <1>3, RendersAdmitted DEF DuplicateDomain
<1>5. ~ DuplicateDomain(a)
  BY <1>1 DEF Renders, Reached
<1> QED
  BY <1>1, <1>2, <1>4, <1>5

\* The Secret has a key for every item, one for the proxy, and no other.
LEMMA DataKeys ==
  ASSUME NEW O, NEW S
  PROVE  LET f == buildFederationProjection(O, S)
         IN /\ f.items = MetadataItems(O) /\ f.mellon = MellonItems(S)
            /\ DOMAIN f.data = ({i[1] : i \in MetadataItems(O)} \union MellonItems(S))
                               \union {ProxyKey}
  BY DEF buildFederationProjection, FederationData

LEMMA ConfigRendered ==
  ASSUME FedInv, NEW key
  PROVE  reconcileConfig(key) = RenderConfig(key)
<1>1. CASE Recalled(key) # {}
  <2>1. PICK m \in memo : m.key = key /\ m.config = The(Recalled(key))
    BY <1>1, TheIn DEF Recalled
  <2> QED
    BY <1>1, <2>1 DEF FedInv, MemoOK, reconcileConfig
<1>2. CASE Recalled(key) = {}
  BY <1>2 DEF reconcileConfig
<1> QED
  BY <1>1, <1>2

-----------------------------------------------------------------------------
(* The Keystone pass keeps the invariant.                                   *)

LEMMA OIDCMounted ==
  ASSUME NEW b \in Backends, Renders(b), Spec_(b).type = "OIDC"
  PROVE  \E f \in Projection : f.items # {} /\ <<b, "client">> \in DOMAIN f.data
<1> DEFINE r == RenderBackend(b)
           f == buildFederationProjection(OIDCRenders, SAMLRenders)
           i == <<<<r.name, "client">>, <<r.base, "client">>>>
<1>1. r \in OIDCRenders
  BY DEF OIDCRenders
<1>2. r.name = b
  BY RenderedAs
<1> HIDE DEF r
<1>3. i \in MetadataItems(OIDCRenders)
  BY <1>1 DEF MetadataItems, OIDCFiles
<1>4. i[1] = <<b, "client">>
  BY <1>2
<1> HIDE DEF i
<1>5. f.items # {} /\ <<b, "client">> \in DOMAIN f.data
  BY <1>3, <1>4, DataKeys
<1>6. Projection = {f}
  BY <1>1 DEF Projection
<1> HIDE DEF f
<1> QED
  BY <1>5, <1>6

LEMMA SAMLMounted ==
  ASSUME NEW b \in Backends, Renders(b), Spec_(b).type = "SAML"
  PROVE  \E f \in Projection : f.mellon # {} /\ <<b, "idp-metadata.xml">> \in DOMAIN f.data
<1> DEFINE r == RenderBackend(b)
           f == buildFederationProjection(OIDCRenders, SAMLRenders)
<1>1. r \in SAMLRenders
  BY DEF SAMLRenders
<1>2. r.name = b
  BY RenderedAs
<1> HIDE DEF r
<1>3. <<b, "idp-metadata.xml">> \in MellonItems(SAMLRenders)
  BY <1>1, <1>2 DEF MellonItems, MellonKeys
<1>4. f.mellon # {} /\ <<b, "idp-metadata.xml">> \in DOMAIN f.data
  BY <1>3, DataKeys
<1>5. Projection = {f}
  BY <1>1 DEF Projection
<1> HIDE DEF f
<1> QED
  BY <1>4, <1>5

LEMMA PassRenders ==
  ASSUME FedInv, ReconcileIdentityBackends
  PROVE  /\ dep' = [domains |-> DomainConfs, fed |-> Projection,
                    config |-> RenderConfig(ConfigKey(DomainConfs, Projection))]
         /\ memo' = {[key |-> ConfigKey(DomainConfs, Projection), config |-> dep'.config]}
         /\ UNCHANGED <<request, backend, world, hand, work, pc>>
  BY ConfigRendered DEF ReconcileIdentityBackends, pass

LEMMA RenderedSound ==
  ASSUME FedInv, ReconcileIdentityBackends
  PROVE  ProjectionSound'
<1> DEFINE f == buildFederationProjection(OIDCRenders, SAMLRenders)
<1>1. dep'.domains = DomainConfs /\ dep'.fed = Projection
  BY PassRenders
<1>2. dep'.config = RenderConfig(ConfigKey(DomainConfs, Projection))
  BY PassRenders
<1>3. Projection \subseteq {f}
  BY DEF Projection
<1>4. f.items = MetadataItems(OIDCRenders) /\ f.mellon = MellonItems(SAMLRenders)
      /\ {i[1] : i \in f.items} \union f.mellon \subseteq DOMAIN f.data
  BY DataKeys
<1> HIDE DEF f
<1>5. \A i, j \in f.items : i[2] = j[2] => i = j
  BY <1>4, ItemsDistinct
<1>6. \A i, j \in f.mellon : i[2] = "idp-metadata.xml" /\ j[2] = i[2] => i = j
  BY <1>4, MellonDistinct
<1>7. \A c, d \in DomainConfs : Folded[c.domain] = Folded[d.domain] => c = d
  BY DomainsDistinct
<1>8. RenderConfig(ConfigKey(DomainConfs, Projection)) =
        [drivers |-> DomainConfs # {}, methods |-> Projection # {},
         openid |-> IF Projection = {} THEN Unset ELSE The(Projection).attribute,
         saml |-> IF Projection = {} THEN Unset ELSE The(Projection).protocol,
         samlAttribute |-> IF Projection = {} THEN Unset
                           ELSE The(Projection).samlAttribute]
  BY DEF RenderConfig, ConfigKey
<1> QED
  BY <1>1, <1>2, <1>3, <1>4, <1>5, <1>6, <1>7, <1>8 DEF ProjectionSound

\* A pass that fails leaves what is mounted and remembered of keystone.conf.
LEMMA FailureKeeps ==
  ASSUME FedInv, ReconcileFails
  PROVE  FedInv'
<1>1. RequestsOK'
  BY DEF FedInv, RequestsOK, ReconcileFails
<1> QED
  BY <1>1, QuietStep DEF ReconcileFails, pass

LEMMA KeystoneKeeps ==
  ASSUME FedInv, ReconcileIdentityBackends
  PROVE  FedInv'
<1>1. UNCHANGED <<request, backend, hand, work, pc>>
  BY PassRenders
<1>2. Shapes'
  BY <1>1 DEF FedInv, Shapes, Shaped
<1>3. RequestsOK'
  BY <1>1 DEF FedInv, RequestsOK
<1>4. BackendsOK'
  BY <1>1 DEF FedInv, BackendsOK
<1>5. MemoOK'
  BY PassRenders DEF MemoOK
<1> QED
  BY <1>2, <1>3, <1>4, <1>5, RenderedSound DEF FedInv

LEMMA FedInvNext == FedInv /\ [Next]_vars => FedInv'
<1> SUFFICES ASSUME FedInv, [Next]_vars PROVE FedInv'
  OBVIOUS
<1>1. ASSUME NEW b \in Backends, ValidateCreate(b) PROVE FedInv'
  BY <1>1, CreateKeeps
<1>2. ASSUME NEW b \in Backends, ValidateUpdate(b) PROVE FedInv'
  BY <1>2, UpdateKeeps
<1>3. ASSUME NEW b \in Backends, DeleteBackend(b) PROVE FedInv'
  BY <1>3, DeleteKeeps
<1>4. ASSUME NEW b \in Backends, BackendPass(b) PROVE FedInv'
  BY <1>4, BackendPassKeeps
<1>5. CASE Persist
  BY <1>5, PersistKeeps
<1>6. CASE ChangeWorld \/ Mend
  BY <1>6, WorldKeeps
<1>7. CASE Crash
  BY <1>7, CrashKeeps
<1>8. CASE KeystonePass
  BY <1>8, KeystoneKeeps, FailureKeeps DEF KeystonePass
<1>9. CASE UNCHANGED vars
  <2>1. UNCHANGED <<backend, hand, work, pc, dep, memo>> /\ request' = request
    BY <1>9 DEF vars, operator, pass
  <2>2. RequestsOK'
    BY <2>1 DEF FedInv, RequestsOK
  <2> QED
    BY <2>1, <2>2, QuietStep
<1> QED
  BY <1>1, <1>2, <1>3, <1>4, <1>5, <1>6, <1>7, <1>8, <1>9 DEF Next

LEMMA FedInvAlways == Spec => []FedInv
  BY FedInvInit, FedInvNext, PTL DEF Spec

\* What is mounted is never ambiguous, however admissions raced, and
\* keystone.conf, remembered or rendered, names exactly the projection mounted
\* beside it (buildFederationProjection, reconcileConfig).
THEOREM ProjectionAlwaysSound == Spec => []ProjectionSound
<1>1. FedInv => ProjectionSound
  BY DEF FedInv
<1> QED
  BY <1>1, FedInvAlways, PTL

-----------------------------------------------------------------------------
(* One broken backend is dropped alone.                                     *)

LEMMA RendersProjected ==
  ASSUME FedInv, ReconcileIdentityBackends, NEW b \in Backends, Renders(b)
  PROVE  isConfigProjected(b)'
<1>1. dep'.domains = DomainConfs /\ dep'.fed = Projection /\ backend' = backend
  BY PassRenders
<1>2. Spec_(b)' = Spec_(b) /\ Spec_(b).type \in BackendTypes
  BY <1>1, RendersAdmitted DEF Spec_, AdmittedSpec
<1>3. CASE Spec_(b).type = "LDAP"
  <2>1. renderDomainConf(Spec_(b)) \in DomainConfs
    BY <1>3 DEF DomainConfs
  <2>2. renderDomainConf(Spec_(b)).domain = Spec_(b).domain.name
    BY DEF renderDomainConf
  <2> QED
    BY <1>1, <1>2, <1>3, <2>1, <2>2 DEF isConfigProjected
<1>4. CASE Spec_(b).type = "OIDC"
  BY <1>1, <1>2, <1>4, OIDCMounted DEF isConfigProjected
<1>5. CASE Spec_(b).type = "SAML"
  BY <1>1, <1>2, <1>5, SAMLMounted DEF isConfigProjected
<1> QED
  BY <1>2, <1>3, <1>4, <1>5 DEF BackendTypes

\* Metadata that is there, and the backend's own, can be used.
LEMMA MetadataUsable ==
  ASSUME FedInv, NEW b \in Backends, b \in Attached,
         IsFederationType(Spec_(b)), world.up, ~ Misnamed(Spec_(b)), ~ Plaintext(b)
  PROVE  \E d \in ProviderMetadata(b) :
           Introspects(Spec_(b), d) => d.introspection = "https"
<1> DEFINE s == Spec_(b)
<1>1. AdmittedSpec(s)
  BY AttachedAdmitted
<1>2. CASE ~ Fetched(s)
  <2>1. ProviderMetadata(b) = {Document(s)}
    BY <1>2 DEF ProviderMetadata, Misnamed
  <2>2. Introspects(s, Document(s)) => Document(s).introspection = "https"
    <3>1. SUFFICES ASSUME s.oidc # {}, Block(s).introspection
                   PROVE  Document(s).introspection = "https"
      BY DEF Introspects
    <3>2. Block(s) = The(s.oidc) /\ Block(s) \in s.oidc
      BY <1>1, <3>1, TheIn DEF Block, AdmittedSpec, ValidUnion
    <3>3. Source(s) = "spec" /\ Block(s).endpoints # {}
      BY <1>2, <3>1 DEF Fetched, Source
    <3>4. The(Block(s).endpoints).introspection = "https"
      BY <1>1, <3>1, <3>2, <3>3, TheIn DEF AdmittedSpec, validateOIDC
    <3> QED
      BY <3>3, <3>4 DEF Document
  <2> QED
    BY <2>1, <2>2
<1>3. CASE Fetched(s) /\ Remembered(b) = {}
  <2>1. ProviderMetadata(b) = {Document(s)}
    BY <1>3 DEF ProviderMetadata
  <2>2. Document(s).introspection = "https"
    BY <1>3 DEF Document, Fetched
  <2> QED
    BY <2>1, <2>2
<1>4. CASE Fetched(s) /\ Remembered(b) # {}
  BY <1>4 DEF ProviderMetadata, Plaintext
<1> QED
  BY <1>2, <1>3, <1>4

LEMMA NotRenderedHasReason ==
  ASSUME FedInv, NEW b \in Backends, b \in Attached, ~ Renders(b)
  PROVE  OwnReason(b)
<1> DEFINE s == Spec_(b)
<1>1. SUFFICES ASSUME ~ OwnReason(b) PROVE Renders(b)
  OBVIOUS
<1>2. /\ backend[b].st = "live" /\ backend[b].ready = "true" /\ ~ Contested(b)
      /\ b \notin world.missing /\ b \notin world.large
      /\ IsFederationType(s) =>
           world.image /\ world.up /\ ~ Misnamed(s) /\ ~ Plaintext(b)
  BY <1>1 DEF OwnReason
<1>3. AdmittedSpec(s)
  BY AttachedAdmitted
<1>4. ~ DuplicateDomain(b) /\ ~ SameIssuer(b)
  BY <1>2 DEF Contested, DuplicateDomain, SameIssuer
<1>5. s.saml # {} => SAMLBackends = {b}
  <2>1. SUFFICES ASSUME s.saml # {} PROVE SAMLBackends = {b}
    OBVIOUS
  <2>2. b \in SAMLBackends
    BY <1>2, <1>3, <2>1 DEF SAMLBackends, Living, AdmittedSpec, ValidUnion
  <2>3. \A c \in SAMLBackends : c \in Attached /\ Spec_(c).saml # {}
    BY AttachedAdmitted DEF SAMLBackends, Living, Attached, AdmittedSpec, ValidUnion
  <2>4. \A c \in SAMLBackends : c = b
    BY <1>2, <2>1, <2>3 DEF Contested
  <2> QED
    BY <2>2, <2>4
<1>6. Reached(b) /\ HasSecret(b)
  BY <1>2, <1>4, <1>5 DEF Reached, Living, HasSecret
<1>7. IsFederationType(s) => validateRenderInputs(s)
  <2>1. SUFFICES ASSUME IsFederationType(s) PROVE Block(s).text = "clean"
    BY DEF validateRenderInputs
  <2>2. CASE s.type = "OIDC"
    BY <1>3, <2>2, TheIn DEF AdmittedSpec, ValidUnion, Block, validateOIDC
  <2>3. CASE s.type = "SAML"
    BY <1>3, <2>3, TheIn DEF AdmittedSpec, ValidUnion, Block, validateSAML
  <2> QED
    BY <2>1, <2>2, <2>3 DEF IsFederationType
<1>8. IsFederationType(s) =>
        \E d \in ProviderMetadata(b) : Introspects(s, d) => d.introspection = "https"
  BY <1>2, MetadataUsable
<1> QED
  BY <1>2, <1>6, <1>7, <1>8 DEF Renders

LEMMA DeploymentChangesInAPass ==
  ASSUME [Next]_vars, ~ ReconcileIdentityBackends
  PROVE  dep' = dep
<1>1. ASSUME NEW b \in Backends, BackendPass(b) PROVE dep' = dep
  BY <1>1 DEF BackendPass, InstallFinalizer, ensureDomain, Unobserved, ensureFederation,
              observeConfigProjected, StopEarly, WriteStatus, reconcileDelete, Teardown,
              Outside
<1>2. ASSUME NEW b \in Backends, ValidateCreate(b) \/ ValidateUpdate(b) \/ DeleteBackend(b)
      PROVE  dep' = dep
  BY <1>2 DEF ValidateCreate, ValidateUpdate, DeleteBackend
<1>3. Persist \/ ChangeWorld \/ Mend \/ Crash \/ ReconcileFails \/ UNCHANGED vars
        => dep' = dep
  BY DEF Persist, ChangeWorld, Mend, Crash, ReconcileFails, vars
<1> QED
  BY <1>1, <1>2, <1>3 DEF Next, KeystonePass

LEMMA FaultStep ==
  ASSUME FedInv, [Next]_vars, NEW b \in Attached,
         isConfigProjected(b), backend' = backend, ~ isConfigProjected(b)'
  PROVE  OwnReason(b)
<1>1. b \in Backends
  BY DEF Attached
<1>2. ReconcileIdentityBackends
  <2>1. SUFFICES ASSUME ~ ReconcileIdentityBackends PROVE FALSE
    OBVIOUS
  <2>2. dep' = dep
    BY <2>1, DeploymentChangesInAPass
  <2>3. isConfigProjected(b)' = isConfigProjected(b)
    BY <2>2 DEF isConfigProjected, Spec_
  <2> QED
    BY <2>3
<1>3. ~ Renders(b)
  BY <1>1, <1>2, RendersProjected
<1> QED
  BY <1>1, <1>3, NotRenderedHasReason

\* A Keystone pass withdraws the config of a backend only for a reason of that
\* backend's own, never because a sibling is broken: one backend is skipped at
\* a time, and a pass that a keypair or the passphrase fails withdraws nothing
\* (reconcileIdentityBackends).
THEOREM FaultsStayIsolated == Spec => FaultIsolated
<1>1. FedInv /\ [Next]_vars =>
        [\A b \in Attached :
           isConfigProjected(b) /\ backend' = backend /\ ~ isConfigProjected(b)'
           => OwnReason(b)]_vars
  BY FaultStep
<1> QED
  BY <1>1, FedInvAlways, PTL DEF Spec, FaultIsolated
=============================================================================
