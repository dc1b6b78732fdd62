----------------------- MODULE IdentityBackendsProofs -----------------------
(***************************************************************************)
(* For any number of backends, domains, workers, edits, crashes and        *)
(* changes by an administrator: a domain that no managed backend created   *)
(* is never disabled or deleted, nor taken for its own by one that did not *)
(* create it.                                                              *)
(*                                                                         *)
(* A backend disposes of a domain by an ID that it read long before: from  *)
(* a status that it, or a predecessor in the same pass, wrote, through a   *)
(* cache, while domains of the same name came and went.  What keeps that   *)
(* safe is that an ID is given out once, and that every copy of a managed  *)
(* backend's status holds an ID given to that backend.                     *)
(*                                                                         *)
(* As long as the administrator takes no domain away, the Deployment is    *)
(* given the config of one only while it exists, or is on its way out.     *)
(***************************************************************************)
EXTENDS IdentityBackends, TLAPS

DomainRecords == [id : Nat, by : Backends \union {Admin}, on : BOOLEAN]
Steps == {"idle", "domain", "create", "observe", "disable", "delete", "release"}

Shape ==
  /\ backend \in [Backends -> CRs] /\ bhand \in [Backends -> CRs]
  /\ bwork \in [Backends -> CRs] /\ bpc \in [Backends -> Steps]
  /\ DOMAIN cache = {"backend", "keystone", "doms"}
  /\ cache.backend \in [Backends -> CRs]
  /\ domain \in [Domains -> DomainRecords] /\ ids \in Nat

\* IDs were given out, and what an administrator created stays enabled.
DomainsSafe ==
  \A d \in Domains :
    /\ domain[d].id <= ids
    /\ domain[d].id # 0 /\ domain[d].by = Admin => domain[d].on

\* No domain has the ID i, given out before, but one that b created.
Mine(b, i) ==
  /\ i <= ids
  /\ i # 0 => \A d \in Domains : domain[d].id = i => domain[d].by = b

ClaimsSafe ==
  \A b \in Managed : /\ Mine(b, backend[b].id) /\ Mine(b, cache.backend[b].id)
                     /\ Mine(b, bhand[b].id) /\ Mine(b, bwork[b].id)

\* Only a managed backend with a recorded ID disposes of a domain.
DisposalSafe ==
  \A b \in Backends :
    bpc[b] \in {"disable", "delete"} => b \in Managed /\ bhand[b].id # 0

IInv == Shape /\ DomainsSafe /\ ClaimsSafe /\ DisposalSafe

-----------------------------------------------------------------------------
(* How a step may change the domains: IDs stay with their creator, and new  *)
(* ones are larger than all before.                                         *)

Moved ==
  /\ domain' \in [Domains -> DomainRecords] /\ ids' \in Nat /\ ids <= ids'
  /\ \A d \in Domains :
       /\ domain'[d].id <= ids'
       /\ domain'[d].id # 0 /\ domain'[d].by = Admin => domain'[d].on
       /\ \/ domain'[d].id = 0 \/ domain'[d].id > ids
          \/ domain'[d].id = domain[d].id /\ domain'[d].by = domain[d].by

\* The same of the next state, about an ID of this one.
StillMine(b, i) ==
  /\ i <= ids'
  /\ i # 0 => \A d \in Domains : domain'[d].id = i => domain'[d].by = b

LEMMA MineStays ==
  ASSUME Shape, Moved, NEW b \in Backends, NEW i \in Nat, Mine(b, i)
  PROVE  StillMine(b, i)
<1>1. i <= ids'
  BY DEF Shape, Moved, Mine
<1>2. ASSUME i # 0, NEW d \in Domains, domain'[d].id = i
      PROVE  domain'[d].by = b
  BY <1>2 DEF Shape, Moved, Mine
<1>. QED
  BY <1>1, <1>2 DEF StillMine

LEMMA IdsAreNumbers ==
  ASSUME Shape
  PROVE  \A b \in Backends :
           /\ backend[b].id \in Nat /\ cache.backend[b].id \in Nat
           /\ bhand[b].id \in Nat /\ bwork[b].id \in Nat
  BY DEF Shape, CRs

LEMMA NoBackendIsCR ==
  NoBackend \in CRs /\ NoBackend.id = 0
  BY BackendAssumption DEF NoBackend, CRs

\* Nothing has the ID 0, which stands for none.
LEMMA NoneIsMine ==
  ASSUME NEW b \in Backends, ids \in Nat
  PROVE  Mine(b, 0)
  BY DEF Mine

\* A step of one backend: its copies stay its own, the others' copies stay.
LEMMA BackendMoves ==
  ASSUME IInv, Moved, NEW b \in Backends,
         backend' \in [Backends -> CRs], bhand' \in [Backends -> CRs],
         bwork' \in [Backends -> CRs], bpc' \in [Backends -> Steps],
         cache' = cache,
         \A c \in Backends \ {b} : /\ backend'[c] = backend[c]
                                   /\ bhand'[c] = bhand[c] /\ bwork'[c] = bwork[c]
                                   /\ bpc'[c] = bpc[c],
         b \in Managed => /\ Mine(b, backend[b].id)' /\ Mine(b, bhand[b].id)'
                          /\ Mine(b, bwork[b].id)',
         bpc'[b] \in {"disable", "delete"} => b \in Managed /\ bhand'[b].id # 0
  PROVE  IInv'
<1>1. Shape'
  BY DEF IInv, Shape, Moved
<1>2. DomainsSafe'
  BY DEF DomainsSafe, Moved
<1>3. ClaimsSafe'
  <2> SUFFICES ASSUME NEW c \in Managed
               PROVE  /\ Mine(c, backend[c].id)' /\ Mine(c, cache.backend[c].id)'
                      /\ Mine(c, bhand[c].id)' /\ Mine(c, bwork[c].id)'
    BY DEF ClaimsSafe
  <2>. c \in Backends
    BY BackendAssumption
  <2>1. /\ Mine(c, backend[c].id) /\ Mine(c, cache.backend[c].id)
        /\ Mine(c, bhand[c].id) /\ Mine(c, bwork[c].id)
    BY DEF IInv, ClaimsSafe
  <2>2. /\ \A i \in Nat : Mine(c, i) => StillMine(c, i)
        /\ backend[c].id \in Nat /\ cache.backend[c].id \in Nat
        /\ bhand[c].id \in Nat /\ bwork[c].id \in Nat
    BY MineStays, IdsAreNumbers DEF IInv
  <2>3. Mine(c, cache.backend[c].id)'
    BY <2>1, <2>2 DEF Mine, StillMine
  <2>4. CASE c = b
    BY <2>3, <2>4
  <2>5. CASE c # b
    BY <2>1, <2>2, <2>3, <2>5 DEF Mine, StillMine
  <2>. QED
    BY <2>4, <2>5
<1>4. DisposalSafe'
  BY DEF IInv, DisposalSafe
<1>. QED
  BY <1>1, <1>2, <1>3, <1>4 DEF IInv

LEMMA DomainsStay ==
  ASSUME IInv, UNCHANGED <<domain, ids>>
  PROVE  Moved
  BY DEF IInv, Shape, DomainsSafe, Moved

LEMMA DomainCreated ==
  ASSUME IInv, NEW d \in Domains, NEW by \in Backends \union {Admin},
         domain' = [domain EXCEPT ![d] = [id |-> ids + 1, by |-> by, on |-> TRUE]],
         ids' = ids + 1
  PROVE  Moved
<1>1. [id |-> ids + 1, by |-> by, on |-> TRUE] \in DomainRecords
  BY DEF IInv, Shape, DomainRecords
<1>2. /\ domain'[d] = [id |-> ids + 1, by |-> by, on |-> TRUE]
      /\ \A e \in Domains \ {d} : domain'[e] = domain[e]
      /\ domain' \in [Domains -> DomainRecords]
  BY <1>1 DEF IInv, Shape
<1>3. \A e \in Domains : domain[e].id \in Nat
  BY DEF IInv, Shape, DomainRecords
<1>. QED
  BY <1>2, <1>3 DEF IInv, Shape, DomainsSafe, Moved

LEMMA CreatedIsMine ==
  ASSUME IInv, NEW b \in Backends, CreateIt(b)
  PROVE  Moved /\ StillMine(b, ids + 1)
<1>1. DomainOf[b] \in Domains
  BY BackendAssumption
<1>2. Moved
  BY <1>1, DomainCreated DEF CreateIt
<1>3. /\ domain'[DomainOf[b]].by = b /\ ids' = ids + 1 /\ ids \in Nat
      /\ \A e \in Domains \ {DomainOf[b]} : domain'[e] = domain[e]
      /\ \A e \in Domains : domain[e].id \in Nat
  BY <1>1 DEF IInv, Shape, CreateIt, DomainRecords
<1>4. \A e \in Domains : domain[e].id # ids + 1
  BY <1>3 DEF IInv, DomainsSafe
<1>5. \A e \in Domains : domain'[e].id = ids + 1 => domain'[e].by = b
  BY <1>3, <1>4
<1>6. ids + 1 <= ids'
  BY <1>3
<1>. QED
  BY <1>2, <1>5, <1>6 DEF StillMine

-----------------------------------------------------------------------------
(* The ways a backend's pass goes on and ends.                             *)

LEMMA CopiesAreMine ==
  ASSUME IInv, Moved, NEW b \in Backends, b \in Managed
  PROVE  /\ Mine(b, backend[b].id) /\ StillMine(b, 0)
         /\ \A i \in {backend[b].id, cache.backend[b].id, bhand[b].id, bwork[b].id} :
              i \in Nat /\ StillMine(b, i)
<1>1. /\ Mine(b, backend[b].id) /\ Mine(b, cache.backend[b].id)
      /\ Mine(b, bhand[b].id) /\ Mine(b, bwork[b].id)
  BY DEF IInv, ClaimsSafe
<1>2. /\ backend[b].id \in Nat /\ cache.backend[b].id \in Nat
      /\ bhand[b].id \in Nat /\ bwork[b].id \in Nat
  BY IdsAreNumbers DEF IInv
<1>3. \A i \in Nat : Mine(b, i) => StillMine(b, i)
  BY MineStays DEF IInv
<1>4. StillMine(b, 0)
  BY DEF Moved, StillMine
<1>. QED
  BY <1>1, <1>2, <1>3, <1>4

LEMMA StepKeeps ==
  ASSUME IInv, Moved, NEW b \in Backends, NEW next \in Steps, NEW status \in CRs,
         Step(b, next, status),
         b \in Managed => StillMine(b, status.id),
         next \in {"disable", "delete"} => b \in Managed /\ bhand[b].id # 0
  PROVE  IInv'
<1>1. /\ backend' = backend /\ bhand' = bhand /\ cache' = cache
      /\ bwork' \in [Backends -> CRs] /\ bwork'[b] = status
      /\ bpc' \in [Backends -> Steps] /\ bpc'[b] = next
      /\ \A c \in Backends \ {b} : bwork'[c] = bwork[c] /\ bpc'[c] = bpc[c]
      /\ backend \in [Backends -> CRs] /\ bhand \in [Backends -> CRs]
  BY DEF IInv, Shape, Step
<1>2. b \in Managed => /\ Mine(b, backend[b].id)' /\ Mine(b, bhand[b].id)'
                       /\ Mine(b, bwork[b].id)'
  BY <1>1, CopiesAreMine DEF Mine, StillMine
<1>. QED
  BY <1>1, <1>2, BackendMoves

LEMMA StopKeeps ==
  ASSUME IInv, Moved, NEW b \in Backends, Stop(b),
         backend' \in [Backends -> CRs],
         \A c \in Backends \ {b} : backend'[c] = backend[c],
         b \in Managed => Mine(b, backend[b].id)'
  PROVE  IInv'
<1>1. /\ cache' = cache
      /\ bhand' \in [Backends -> CRs] /\ bhand'[b] = NoBackend
      /\ bwork' \in [Backends -> CRs] /\ bwork'[b] = NoBackend
      /\ bpc' \in [Backends -> Steps] /\ bpc'[b] = "idle"
      /\ \A c \in Backends \ {b} : /\ bhand'[c] = bhand[c] /\ bwork'[c] = bwork[c]
                                   /\ bpc'[c] = bpc[c]
  BY NoBackendIsCR DEF IInv, Shape, Stop, Steps
<1>2. b \in Managed => Mine(b, bhand[b].id)' /\ Mine(b, bwork[b].id)'
  BY <1>1, CopiesAreMine, NoBackendIsCR DEF Mine, StillMine
<1>. QED
  BY <1>1, <1>2, BackendMoves

LEMMA FinishKeeps ==
  ASSUME IInv, Moved, NEW b \in Backends, NEW status \in CRs, NEW then,
         Finish(b, status, then), b \in Managed => StillMine(b, status.id)
  PROVE  IInv'
<1>1. Stop(b) /\ backend \in [Backends -> CRs]
  BY DEF IInv, Shape, Finish
<1>2. backend' = backend \/ backend' = [backend EXCEPT ![b] = status]
  BY DEF Finish
<1>3. CASE backend' = backend
  BY <1>1, <1>3, CopiesAreMine, StopKeeps DEF Mine, StillMine
<1>4. CASE backend' = [backend EXCEPT ![b] = status]
  <2>1. /\ backend' \in [Backends -> CRs] /\ backend'[b] = status
        /\ \A c \in Backends \ {b} : backend'[c] = backend[c]
    BY <1>1, <1>4
  <2>2. b \in Managed => Mine(b, backend[b].id)'
    BY <2>1 DEF Mine, StillMine
  <2>. QED
    BY <1>1, <2>1, <2>2, StopKeeps
<1>. QED
  BY <1>2, <1>3, <1>4

\* Nothing that concerns the backends moves but what the informers hold.
LEMMA AroundKeeps ==
  ASSUME IInv, UNCHANGED <<backend, domain, bpass, ids>>,
         DOMAIN cache' = {"backend", "keystone", "doms"},
         cache'.backend \in {cache.backend, backend}
  PROVE  IInv'
<1>. UNCHANGED <<bpc, bhand, bwork>>
  BY DEF bpass
<1>1. Shape' /\ DomainsSafe' /\ DisposalSafe'
  BY DEF IInv, Shape, DomainsSafe, DisposalSafe
<1>2. ClaimsSafe'
  BY DEF IInv, ClaimsSafe, Mine
<1>. QED
  BY <1>1, <1>2 DEF IInv

-----------------------------------------------------------------------------
(* Users and the administrator.                                            *)

\* Of a backend's CR only metadata changes, and no pass moves.
LEMMA MetadataKeeps ==
  ASSUME IInv, NEW b \in Backends, NEW status \in CRs, status.id = backend[b].id,
         backend' = [backend EXCEPT ![b] = status],
         UNCHANGED <<domain, cache, bpass, ids>>
  PROVE  IInv'
<1>1. Moved
  BY DomainsStay
<1>2. /\ backend' \in [Backends -> CRs] /\ backend'[b] = status
      /\ \A c \in Backends \ {b} : backend'[c] = backend[c]
      /\ UNCHANGED <<bpc, bhand, bwork>>
  BY DEF IInv, Shape, bpass
<1>3. b \in Managed => /\ Mine(b, backend[b].id)' /\ Mine(b, bhand[b].id)'
                       /\ Mine(b, bwork[b].id)'
  BY <1>1, <1>2, CopiesAreMine DEF Mine, StillMine
<1>4. bpc'[b] \in {"disable", "delete"} => b \in Managed /\ bhand'[b].id # 0
  BY <1>2 DEF IInv, DisposalSafe
<1>5. /\ bhand' \in [Backends -> CRs] /\ bwork' \in [Backends -> CRs]
      /\ bpc' \in [Backends -> Steps]
  BY <1>2 DEF IInv, Shape
<1>. QED
  BY <1>1, <1>2, <1>3, <1>4, <1>5, BackendMoves

LEMMA UserKeeps ==
  ASSUME IInv, NEW b \in Backends, CreateBackend(b) \/ EditBackend(b) \/ DeleteBackend(b)
  PROVE  IInv'
<1>. /\ backend \in [Backends -> CRs] /\ backend[b] \in CRs /\ MaxEdits \in Nat
  BY BackendAssumption DEF IInv, Shape
<1>1. CASE CreateBackend(b)
  <2>1. [backend[b] EXCEPT !.st = "live"] \in CRs
    BY DEF CRs
  <2>. QED
    BY <1>1, <2>1, MetadataKeeps DEF CreateBackend, CRs
<1>2. CASE EditBackend(b)
  <2>1. [backend[b] EXCEPT !.edit = @ + 1] \in CRs
    BY <1>2 DEF EditBackend, CRs
  <2>. QED
    BY <1>2, <2>1, MetadataKeeps DEF EditBackend, CRs
<1>3. CASE DeleteBackend(b)
  <2>1. \A st \in {"deleting", "gone"} :
          LET s == [backend[b] EXCEPT !.st = st] IN s \in CRs /\ s.id = backend[b].id
    BY DEF CRs
  <2>2. PICK st \in {"deleting", "gone"} : backend' = [backend EXCEPT ![b].st = st]
    BY <1>3 DEF DeleteBackend
  <2>. QED
    BY <1>3, <2>1, <2>2, MetadataKeeps DEF DeleteBackend
<1>. QED
  BY <1>1, <1>2, <1>3

\* The domains move, and nothing else does.
LEMMA OnlyDomainsMove ==
  ASSUME IInv, Moved, UNCHANGED <<backend, cache, bpass>>
  PROVE  IInv'
<1>. UNCHANGED <<bpc, bhand, bwork>>
  BY DEF bpass
<1>1. Shape' /\ DomainsSafe' /\ DisposalSafe'
  BY DEF IInv, Shape, DomainsSafe, DisposalSafe, Moved
<1>2. ClaimsSafe'
  <2> SUFFICES ASSUME NEW b \in Managed
               PROVE  /\ Mine(b, backend[b].id)' /\ Mine(b, cache.backend[b].id)'
                      /\ Mine(b, bhand[b].id)' /\ Mine(b, bwork[b].id)'
    BY DEF ClaimsSafe
  <2>. b \in Backends
    BY BackendAssumption
  <2>. QED
    BY CopiesAreMine DEF Mine, StillMine
<1>. QED
  BY <1>1, <1>2 DEF IInv

LEMMA AdminKeeps ==
  ASSUME IInv, NEW d \in Domains, AdminCreates(d) \/ AdminDeletes(d)
  PROVE  IInv'
<1>1. CASE AdminCreates(d)
  <2>1. Moved
    BY <1>1, DomainCreated DEF AdminCreates
  <2>. QED
    BY <1>1, <2>1, OnlyDomainsMove DEF AdminCreates
<1>2. CASE AdminDeletes(d)
  <2>1. /\ domain'[d] = NoDomain /\ \A e \in Domains \ {d} : domain'[e] = domain[e]
        /\ domain' \in [Domains -> DomainRecords] /\ ids' = ids
    BY <1>2 DEF AdminDeletes, IInv, Shape, DomainRecords, NoDomain
  <2>2. Moved
    BY <2>1 DEF IInv, Shape, DomainsSafe, Moved, NoDomain
  <2>. QED
    BY <1>2, <2>2, OnlyDomainsMove DEF AdminDeletes
<1>. QED
  BY <1>1, <1>2

-----------------------------------------------------------------------------
(* The backend's pass, step by step.                                       *)

\* A status that is computed claims the recorded ID or one it was given.
LEMMA ComputedIsCR ==
  ASSUME IInv, NEW b \in Backends
  PROVE  /\ bwork[b] \in CRs /\ Demoted(bwork[b]) \in CRs
         /\ Demoted(bwork[b]).id = bwork[b].id
         /\ \A r \in {"false", "foreign"} :
              LET s == [bwork[b] EXCEPT !.ready = r]
              IN s \in CRs /\ s.id = bwork[b].id
         /\ \A p \in BOOLEAN :
              LET s == [bwork[b] EXCEPT !.projected = p]
              IN s \in CRs /\ s.id = bwork[b].id
         /\ \A i \in Nat : Claimed(b, i) \in CRs /\ Claimed(b, i).id = i
<1>1. bwork[b] \in CRs
  BY DEF IInv, Shape
<1>. QED
  BY <1>1 DEF CRs, Demoted, Claimed

\* What every step below starts from: no domain moved, the copies stay b's.
LEMMA QuietStep ==
  ASSUME IInv, UNCHANGED <<domain, ids>>, NEW b \in Backends
  PROVE  /\ Moved
         /\ b \in Managed =>
              \A i \in {backend[b].id, cache.backend[b].id, bhand[b].id, bwork[b].id} :
                i \in Nat /\ StillMine(b, i)
  BY DomainsStay, CopiesAreMine

LEMMA DemotedKeeps ==
  ASSUME IInv, Moved, NEW b \in Backends, NEW then, Finish(b, Demoted(bwork[b]), then)
  PROVE  IInv'
<1>1. b \in Managed => StillMine(b, Demoted(bwork[b]).id)
  BY ComputedIsCR, CopiesAreMine
<1>. QED
  BY <1>1, ComputedIsCR, FinishKeeps

LEMMA EnsureKeeps ==
  ASSUME IInv, NEW b \in Backends, EnsureDomain(b)
  PROVE  IInv'
<1>1. CASE WaitForKeystone(b)
  BY <1>1, QuietStep, DemotedKeeps DEF WaitForKeystone
<1>2. CASE CallFails(b)
  <2>1. Moved
    BY <1>2, QuietStep, CreatedIsMine DEF CallFails, IInv, Shape
  <2>. QED
    BY <1>2, <2>1, DemotedKeeps DEF CallFails
<1>3. CASE AdoptDomain(b)
  <2>1. Moved /\ b \notin Managed
    BY <1>3, QuietStep DEF AdoptDomain
  <2>2. Found(b).id \in Nat
    BY BackendAssumption DEF IInv, Shape, DomainRecords, Found
  <2>3. CASE Finish(b, [bwork[b] EXCEPT !.ready = "false"], "poll")
    BY <2>1, <2>3, ComputedIsCR, FinishKeeps
  <2>4. CASE Step(b, "observe", Claimed(b, Found(b).id))
    BY <2>1, <2>2, <2>4, ComputedIsCR, StepKeeps DEF Steps
  <2>. QED
    BY <1>3, <2>3, <2>4 DEF AdoptDomain
<1>4. CASE DomainMissing(b)
  <2>1. Step(b, "create", bwork[b]) /\ Moved
    BY <1>4, QuietStep DEF DomainMissing
  <2>2. b \in Managed => StillMine(b, bwork[b].id)
    BY <2>1, CopiesAreMine
  <2>. QED
    BY <2>1, <2>2, ComputedIsCR, StepKeeps DEF Steps
<1>5. CASE CreateDomain(b)
  <2>1. CASE CreateIt(b) /\ Step(b, "observe", Claimed(b, ids + 1))
    <3>1. ids + 1 \in Nat
      BY DEF IInv, Shape
    <3>2. Moved /\ Claimed(b, ids + 1) \in CRs
      BY <2>1, <3>1, CreatedIsMine, ComputedIsCR
    <3>3. StillMine(b, Claimed(b, ids + 1).id)
      BY <2>1, <3>1, CreatedIsMine, ComputedIsCR
    <3>. QED
      BY <2>1, <3>2, <3>3, StepKeeps DEF Steps
  <2>2. CASE Finish(b, Demoted(bwork[b]), "retry") /\ UNCHANGED <<domain, ids>>
    BY <2>2, QuietStep, DemotedKeeps
  <2>. QED
    BY <1>5, <2>1, <2>2 DEF CreateDomain
<1>6. CASE ForeignDomain(b)
  <2>1. Step(b, "observe", [bwork[b] EXCEPT !.ready = "foreign"]) /\ Moved
    BY <1>6, QuietStep DEF ForeignDomain
  <2>2. /\ [bwork[b] EXCEPT !.ready = "foreign"] \in CRs
        /\ [bwork[b] EXCEPT !.ready = "foreign"].id = bwork[b].id
    BY ComputedIsCR
  <2>3. b \in Managed => StillMine(b, [bwork[b] EXCEPT !.ready = "foreign"].id)
    BY <2>1, <2>2, CopiesAreMine
  <2>. QED
    BY <2>1, <2>2, <2>3, StepKeeps DEF Steps
<1>7. CASE KeepDomain(b)
  <2>1. /\ domain' = [domain EXCEPT ![DomainOf[b]].on = TRUE] /\ ids' = ids
        /\ Step(b, "observe", Claimed(b, bwork[b].id))
    BY <1>7 DEF KeepDomain
  <2>2. Moved
    <3>1. DomainOf[b] \in Domains
      BY BackendAssumption
    <3>2. domain[DomainOf[b]] \in DomainRecords
      BY <3>1 DEF IInv, Shape
    <3>3. /\ [domain[DomainOf[b]] EXCEPT !.on = TRUE] \in DomainRecords
          /\ \A d \in Domains : /\ domain'[d].id = domain[d].id
                               /\ domain'[d].by = domain[d].by
                               /\ domain'[d].on \in {domain[d].on, TRUE}
      BY <2>1, <3>2 DEF IInv, Shape, DomainRecords
    <3>4. domain' \in [Domains -> DomainRecords]
      BY <2>1, <3>1, <3>3 DEF IInv, Shape
    <3>. QED
      BY <2>1, <3>3, <3>4 DEF IInv, Shape, DomainsSafe, Moved
  <2>3. bwork[b].id \in Nat
    BY IdsAreNumbers DEF IInv
  <2>4. Claimed(b, bwork[b].id) \in CRs /\ Claimed(b, bwork[b].id).id = bwork[b].id
    BY <2>3, ComputedIsCR
  <2>5. b \in Managed => StillMine(b, Claimed(b, bwork[b].id).id)
    BY <2>2, <2>4, CopiesAreMine
  <2>. QED
    BY <2>1, <2>2, <2>4, <2>5, StepKeeps DEF Steps
<1>. QED
  BY <1>1, <1>2, <1>3, <1>4, <1>5, <1>6, <1>7 DEF EnsureDomain

LEMMA ObserveKeeps ==
  ASSUME IInv, NEW b \in Backends, ObserveConfig(b)
  PROVE  IInv'
<1>. DEFINE s == [bwork[b] EXCEPT !.projected = Projected(b)]
<1>1. PICK then : Finish(b, s, then) /\ Moved
  BY QuietStep DEF ObserveConfig
<1>2. s \in CRs /\ s.id = bwork[b].id
  <2>1. bwork[b] \in CRs /\ Projected(b) \in BOOLEAN
    BY DEF IInv, Shape, Projected
  <2>. QED
    BY <2>1 DEF CRs
<1>3. b \in Managed => StillMine(b, s.id)
  BY <1>1, <1>2, CopiesAreMine
<1>. QED
  BY <1>1, <1>2, <1>3, FinishKeeps

-----------------------------------------------------------------------------
(* The finalizer.                                                          *)

\* A pass that disposes of a domain disposes of one its backend created.
LEMMA DisposesOfItsOwn ==
  ASSUME IInv, NEW b \in Backends, bpc[b] \in {"disable", "delete"}
  PROVE  /\ b \in Managed /\ bhand[b].id # 0
         /\ \A d \in Recorded(b) : domain[d].by = b /\ domain[d].by # Admin
<1>1. b \in Managed /\ bhand[b].id # 0
  BY DEF IInv, DisposalSafe
<1>2. \A d \in Recorded(b) : domain[d].by = b
  BY <1>1 DEF IInv, ClaimsSafe, Mine, Recorded
<1>. QED
  BY <1>1, <1>2, BackendAssumption DEF Admin

LEMMA DisposalMoves ==
  ASSUME IInv, NEW b \in Backends, bpc[b] \in {"disable", "delete"},
         domain' \in {domain, Disabled(b), Erased(b)}, ids' = ids
  PROVE  Moved
<1>1. CASE domain' = domain
  BY <1>1, DomainsStay
<1>2. CASE domain' = Disabled(b)
  <2>1. \A d \in Domains :
          /\ domain[d] \in DomainRecords
          /\ d \in Recorded(b) => domain'[d] = [domain[d] EXCEPT !.on = FALSE]
          /\ d \notin Recorded(b) => domain'[d] = domain[d]
    BY <1>2 DEF Disabled, IInv, Shape
  <2>2. \A d \in Domains : /\ domain'[d] \in DomainRecords
                           /\ domain'[d].id = domain[d].id
                           /\ domain'[d].by = domain[d].by
                           /\ d \notin Recorded(b) => domain'[d].on = domain[d].on
    BY <2>1 DEF DomainRecords
  <2>3. domain' \in [Domains -> DomainRecords]
    BY <1>2, <2>2 DEF Disabled
  <2>4. ids \in Nat /\ \A d \in Domains : domain[d].id <= ids
    BY DEF IInv, Shape, DomainsSafe
  <2>5. \A d \in Domains :
          domain'[d].id # 0 /\ domain'[d].by = Admin => domain'[d].on
    BY <2>2, DisposesOfItsOwn DEF IInv, DomainsSafe
  <2>. QED
    BY <2>2, <2>3, <2>4, <2>5 DEF Moved
<1>3. CASE domain' = Erased(b)
  <2>1. \A d \in Domains : /\ d \in Recorded(b) => domain'[d] = NoDomain
                           /\ d \notin Recorded(b) => domain'[d] = domain[d]
    BY <1>3 DEF Erased
  <2>2. NoDomain \in DomainRecords /\ NoDomain.id = 0
    BY DEF NoDomain, DomainRecords
  <2>3. domain' \in [Domains -> DomainRecords]
    BY <1>3, <2>2 DEF Erased, IInv, Shape
  <2>4. ids \in Nat /\ \A d \in Domains : domain[d].id <= ids
    BY DEF IInv, Shape, DomainsSafe
  <2>. QED
    BY <2>1, <2>2, <2>3, <2>4 DEF IInv, DomainsSafe, Moved
<1>. QED
  BY <1>1, <1>2, <1>3

LEMMA FinalizerKeeps ==
  ASSUME IInv, NEW b \in Backends, ReconcileDelete(b)
  PROVE  IInv'
<1>0. backend \in [Backends -> CRs] /\ bhand[b] \in CRs /\ bwork[b] \in CRs
  BY DEF IInv, Shape
<1>1. CASE WaitForDeprojection(b)
  <2>1. Stop(b) /\ Moved /\ backend' = backend
    BY <1>1, QuietStep DEF WaitForDeprojection
  <2>2. b \in Managed => Mine(b, backend[b].id)'
    BY <2>1, CopiesAreMine DEF Mine, StillMine
  <2>. QED
    BY <1>0, <2>1, <2>2, StopKeeps
<1>2. CASE Deprojected(b)
  <2>1. PICK next \in {"disable", "release"} :
          /\ Step(b, next, bwork[b])
          /\ next = "disable" => b \in Managed /\ bhand[b].id # 0
    BY <1>2 DEF Deprojected, Disposes
  <2>2. Moved
    BY <1>2, QuietStep DEF Deprojected
  <2>3. b \in Managed => StillMine(b, bwork[b].id)
    BY <2>2, CopiesAreMine
  <2>. QED
    BY <1>0, <2>1, <2>2, <2>3, StepKeeps DEF Steps
<1>3. CASE DisposeFails(b)
  <2>1. Moved
    BY <1>3, DisposalMoves DEF DisposeFails, At
  <2>2. Stop(b) /\ backend' = backend
    BY <1>3 DEF DisposeFails
  <2>3. b \in Managed => Mine(b, backend[b].id)'
    BY <2>1, <2>2, CopiesAreMine DEF Mine, StillMine
  <2>. QED
    BY <1>0, <2>1, <2>2, <2>3, StopKeeps
<1>4. CASE DisableDomain(b)
  <2>1. bpc[b] = "disable" /\ Moved
    BY <1>4, DisposalMoves DEF DisableDomain, At
  <2>2. PICK next \in {"release", "delete"} : Step(b, next, bwork[b])
    BY <1>4 DEF DisableDomain
  <2>3. b \in Managed /\ bhand[b].id # 0 /\ StillMine(b, bwork[b].id)
    BY <2>1, CopiesAreMine, DisposesOfItsOwn
  <2>. QED
    BY <1>0, <2>1, <2>2, <2>3, StepKeeps DEF Steps
<1>5. CASE DeleteDomain(b)
  <2>1. bpc[b] = "delete" /\ Moved /\ Step(b, "release", bwork[b])
    BY <1>5, DisposalMoves DEF DeleteDomain, At
  <2>2. b \in Managed => StillMine(b, bwork[b].id)
    BY <2>1, CopiesAreMine
  <2>. QED
    BY <1>0, <2>1, <2>2, StepKeeps DEF Steps
<1>6. CASE RemoveFinalizer(b)
  <2>1. Moved /\ Stop(b)
    BY <1>6, QuietStep DEF RemoveFinalizer
  <2>2. \/ backend' = backend
        \/ backend' = [backend EXCEPT ![b].st = "gone"]
    BY <1>6 DEF RemoveFinalizer
  <2>3. /\ backend' \in [Backends -> CRs] /\ backend'[b].id = backend[b].id
        /\ \A c \in Backends \ {b} : backend'[c] = backend[c]
    BY <1>0, <2>2 DEF CRs
  <2>4. b \in Managed => Mine(b, backend[b].id)'
    BY <2>1, <2>3, CopiesAreMine DEF Mine, StillMine
  <2>. QED
    BY <2>1, <2>3, <2>4, StopKeeps
<1>. QED
  BY <1>1, <1>2, <1>3, <1>4, <1>5, <1>6 DEF ReconcileDelete

LEMMA AddFinalizerKeeps ==
  ASSUME IInv, NEW b \in Backends, AddFinalizer(b)
  PROVE  IInv'
<1>1. CASE backend' = backend
  BY <1>1, AroundKeeps DEF AddFinalizer, IInv, Shape
<1>2. CASE backend' = [backend EXCEPT ![b].fin = TRUE]
  <2>1. backend[b] \in CRs
    BY DEF IInv, Shape
  <2>2. /\ [backend[b] EXCEPT !.fin = TRUE] \in CRs
        /\ [backend[b] EXCEPT !.fin = TRUE].id = backend[b].id
    BY <2>1 DEF CRs
  <2>. QED
    BY <1>2, <2>2, MetadataKeeps DEF AddFinalizer
<1>. QED
  BY <1>1, <1>2 DEF AddFinalizer

LEMMA BeginKeeps ==
  ASSUME IInv, NEW b \in Backends, BeginBackend(b)
  PROVE  IInv'
<1>1. CASE bpass' = bpass
  BY <1>1, AroundKeeps DEF BeginBackend, IInv, Shape
<1>2. CASE /\ bpc' = [bpc EXCEPT ![b] = "domain"]
           /\ bhand' = [bhand EXCEPT ![b] = cache.backend[b]]
           /\ bwork' = [bwork EXCEPT ![b] = cache.backend[b]]
  <2>1. Moved /\ UNCHANGED <<backend, cache>>
    BY QuietStep DEF BeginBackend
  <2>2. /\ bhand' \in [Backends -> CRs] /\ bhand'[b] = cache.backend[b]
        /\ bwork' \in [Backends -> CRs] /\ bwork'[b] = cache.backend[b]
        /\ bpc' \in [Backends -> Steps] /\ bpc'[b] = "domain"
        /\ backend' \in [Backends -> CRs]
        /\ \A c \in Backends \ {b} : /\ bhand'[c] = bhand[c] /\ bwork'[c] = bwork[c]
                                     /\ bpc'[c] = bpc[c] /\ backend'[c] = backend[c]
    BY <1>2, <2>1 DEF IInv, Shape, Steps
  <2>3. b \in Managed => /\ Mine(b, backend[b].id)' /\ Mine(b, bhand[b].id)'
                         /\ Mine(b, bwork[b].id)'
    BY <2>1, <2>2, CopiesAreMine DEF Mine, StillMine
  <2>. QED
    BY <2>1, <2>2, <2>3, BackendMoves
<1>. QED
  BY <1>1, <1>2 DEF BeginBackend

-----------------------------------------------------------------------------
(* The Keystone controller, the informers, the Deployment and a crash.     *)

LEMMA CrashKeeps ==
  ASSUME IInv, Crash
  PROVE  IInv'
<1>1. /\ UNCHANGED <<backend, domain, ids>>
      /\ cache' = [backend |-> backend, keystone |-> keystone, doms |-> dep.doms]
      /\ bpc' = [b \in Backends |-> "idle"]
      /\ bhand' = [b \in Backends |-> NoBackend]
      /\ bwork' = [b \in Backends |-> NoBackend]
  BY DEF Crash
<1>2. Shape' /\ DomainsSafe' /\ DisposalSafe'
  BY <1>1, NoBackendIsCR DEF IInv, Shape, DomainsSafe, DisposalSafe, Steps
<1>3. ClaimsSafe'
  <2> SUFFICES ASSUME NEW b \in Managed
               PROVE  /\ Mine(b, backend[b].id)' /\ Mine(b, cache.backend[b].id)'
                      /\ Mine(b, bhand[b].id)' /\ Mine(b, bwork[b].id)'
    BY DEF ClaimsSafe
  <2>1. /\ bhand'[b].id = 0 /\ bwork'[b].id = 0 /\ ids' \in Nat
        /\ cache'.backend[b].id = backend[b].id /\ backend'[b].id = backend[b].id
    BY <1>1, NoBackendIsCR, BackendAssumption DEF IInv, Shape
  <2>. QED
    BY <1>1, <2>1 DEF IInv, ClaimsSafe, Mine
<1>. QED
  BY <1>2, <1>3 DEF IInv

LEMMA OthersKeep ==
  ASSUME IInv,
         \/ ReconcileIdentityBackends \/ KeystonePass \/ StopEarly
         \/ Informers \/ Rollout \/ (\E k \in Keys : Elapse(k)) \/ UNCHANGED vars
  PROVE  IInv'
<1>1. UNCHANGED <<backend, domain, bpass, ids>>
  <2>1. CASE ReconcileIdentityBackends \/ KeystonePass \/ StopEarly
    BY <2>1 DEF ReconcileIdentityBackends, KeystonePass, StopEarly,
                ReconcileDeployment, ReconcileHealthCheck
  <2>2. CASE Informers \/ \E k \in Keys : Elapse(k)
    BY <2>2 DEF Informers, SyncBackends, SyncKeystone, SyncDeployment, Elapse
  <2>3. CASE Rollout
    BY <2>3 DEF Rollout, ObserveDeployment, StartPods, StopPods, Rolling
  <2>4. CASE UNCHANGED vars
    BY <2>4 DEF vars
  <2>. QED
    BY <2>1, <2>2, <2>3, <2>4
<1>2. \/ cache' = cache
      \/ cache' = [cache EXCEPT !.backend = backend]
      \/ cache' = [cache EXCEPT !.keystone = keystone]
      \/ cache' = [cache EXCEPT !.doms = dep.doms]
  <2>1. CASE ReconcileIdentityBackends \/ KeystonePass \/ StopEarly
    BY <2>1 DEF ReconcileIdentityBackends, KeystonePass, StopEarly,
                ReconcileDeployment, ReconcileHealthCheck
  <2>2. CASE Informers \/ \E k \in Keys : Elapse(k)
    BY <2>2 DEF Informers, SyncBackends, SyncKeystone, SyncDeployment, Elapse
  <2>3. CASE Rollout
    BY <2>3 DEF Rollout, ObserveDeployment, StartPods, StopPods, Rolling
  <2>4. CASE UNCHANGED vars
    BY <2>4 DEF vars
  <2>. QED
    BY <2>1, <2>2, <2>3, <2>4
<1>3. /\ DOMAIN cache' = {"backend", "keystone", "doms"}
      /\ cache'.backend \in {cache.backend, backend}
  BY <1>2 DEF IInv, Shape
<1>. QED
  BY <1>1, <1>3, AroundKeeps

-----------------------------------------------------------------------------

LEMMA InitIInv ==
  Init => IInv
<1>. SUFFICES ASSUME Init PROVE IInv
  OBVIOUS
<1>1. /\ backend = [b \in Backends |-> NoBackend]
      /\ bhand = backend /\ bwork = backend
      /\ cache = [backend |-> backend, keystone |-> keystone, doms |-> {}]
      /\ bpc = [b \in Backends |-> "idle"]
      /\ domain = [d \in Domains |-> NoDomain] /\ ids = 0
  BY DEF Init
<1>2. Shape
  BY <1>1, NoBackendIsCR DEF Shape, Steps, NoDomain, DomainRecords
<1>3. DomainsSafe /\ DisposalSafe
  BY <1>1 DEF DomainsSafe, DisposalSafe, NoDomain
<1>4. ClaimsSafe
  BY <1>1, NoBackendIsCR, NoneIsMine, BackendAssumption DEF ClaimsSafe
<1>. QED
  BY <1>2, <1>3, <1>4 DEF IInv

LEMMA NextIInv ==
  IInv /\ [Next]_vars => IInv'
<1>. SUFFICES ASSUME IInv, [Next]_vars PROVE IInv'
  OBVIOUS
<1>1. ASSUME NEW b \in Backends,
             CreateBackend(b) \/ EditBackend(b) \/ DeleteBackend(b)
      PROVE  IInv'
  BY <1>1, UserKeeps
<1>2. ASSUME NEW d \in Domains, AdminCreates(d) \/ AdminDeletes(d)
      PROVE  IInv'
  BY <1>2, AdminKeeps
<1>3. ASSUME NEW b \in Backends, BackendPass(b)
      PROVE  IInv'
  BY <1>3, AddFinalizerKeeps, BeginKeeps, EnsureKeeps, ObserveKeeps,
     FinalizerKeeps DEF BackendPass
<1>4. CASE Crash
  BY <1>4, CrashKeeps
<1>5. CASE \/ ReconcileIdentityBackends \/ KeystonePass \/ StopEarly
           \/ Informers \/ Rollout \/ (\E k \in Keys : Elapse(k)) \/ UNCHANGED vars
  BY <1>5, OthersKeep
<1>. QED
  BY <1>1, <1>2, <1>3, <1>4, <1>5 DEF Next

\* A domain no managed backend created is never disabled or deleted by the
\* operator (DisableDomain, DeleteDomain, by ID), and no managed backend
\* records one that it did not create, through caches, retries and crashes.
THEOREM ForeignAlwaysUntouched == Spec => []ForeignUntouched
<1>1. IInv => ForeignUntouched
  <2>. SUFFICES ASSUME IInv PROVE ForeignUntouched
    OBVIOUS
  <2>1. \A d \in Domains : domain[d].id # 0 /\ domain[d].by = Admin => domain[d].on
    BY DEF IInv, DomainsSafe
  <2>2. ASSUME NEW b \in Managed, backend[b].id # 0, Found(b).id = backend[b].id
        PROVE  Found(b).by = b
    <3>1. DomainOf[b] \in Domains
      BY BackendAssumption
    <3>. QED
      BY <2>2, <3>1 DEF IInv, ClaimsSafe, Mine, Found
  <2>. QED
    BY <2>1, <2>2 DEF ForeignUntouched
<1>. QED
  BY InitIInv, NextIInv, <1>1, PTL DEF Spec

-----------------------------------------------------------------------------
(***************************************************************************)
(* Keystone is given the config of a domain only while the domain exists.  *)
(* The Keystone pass acts on a cached "ready" that may be long outdated;   *)
(* what it may count on is that a domain leaves, as long as the            *)
(* administrator does not take it, only behind a backend whose deletion    *)
(* has begun, and that a deletion is never taken back, whatever status is  *)
(* written from an old copy.                                               *)
(***************************************************************************)
Ended(s) == s.st \in {"deleting", "gone"}
Served(d) ==
  \/ domain[d].id # 0
  \/ \E b \in Backends : DomainOf[b] = d /\ Ended(backend[b])

DomainsKnown ==
  \A d \in Domains :
    /\ domain[d].id = 0 => domain[d] = NoDomain
    /\ domain[d].by # Admin => DomainOf[domain[d].by] = d

CopiesLag ==
  \A b \in Backends :
    /\ Ended(cache.backend[b]) => Ended(backend[b])
    /\ Ended(bhand[b]) => Ended(backend[b])
    /\ bwork[b].st = bhand[b].st
    /\ bpc[b] \in {"disable", "delete"} => bhand[b].st = "deleting"

Ready(b) ==
  \E s \in {backend[b], cache.backend[b], bhand[b], bwork[b]} : s.ready = "true"
ReadyServed == \A b \in Backends : Ready(b) => Served(DomainOf[b])
ConfigServed == \A d \in dep.doms \union kdoms : Served(d)

CInv ==
  /\ IInv /\ admins \in Nat
  /\ DomainsKnown /\ CopiesLag
  /\ dep.doms \subseteq Domains /\ kdoms \subseteq Domains
  /\ DOMAIN dep = {"up", "doms", "observed"}
  /\ admins = 0 => ReadyServed /\ ConfigServed

-----------------------------------------------------------------------------
(* How the domains may move, without an administrator.                      *)

Kept ==
  /\ DomainsKnown'
  /\ \A d \in Domains :
       domain[d].id # 0 => \/ domain'[d].id # 0
                           \/ \E b \in Backends : DomainOf[b] = d /\ Ended(backend[b])
NoneBack == \A b \in Backends : Ended(backend[b]) => Ended(backend'[b])

LEMMA ServedStays ==
  ASSUME Kept, NoneBack
  PROVE  \A d \in Domains : Served(d) => Served(d)'
BY DEF Kept, NoneBack, Served

LEMMA SameDomains ==
  ASSUME CInv, UNCHANGED domain
  PROVE  Kept
BY DEF CInv, Kept, DomainsKnown

LEMMA CreatedKept ==
  ASSUME CInv, NEW b \in Backends, CreateIt(b)
  PROVE  Kept /\ domain'[DomainOf[b]].id # 0
<1>1. DomainOf[b] \in Domains /\ ids + 1 # 0
  BY BackendAssumption DEF CInv, IInv, Shape
<1>2. /\ domain'[DomainOf[b]] = [id |-> ids + 1, by |-> b, on |-> TRUE]
      /\ \A d \in Domains \ {DomainOf[b]} : domain'[d] = domain[d]
  BY <1>1 DEF CreateIt, CInv, IInv, Shape
<1>. QED
  BY <1>1, <1>2 DEF CInv, Kept, DomainsKnown

LEMMA NoDomainIs == NoDomain.id = 0 /\ NoDomain.by = Admin
BY DEF NoDomain

\* Only a domain of a backend that is being deleted goes.
LEMMA DisposalKept ==
  ASSUME CInv, NEW b \in Backends, bpc[b] \in {"disable", "delete"},
         domain' \in {domain, Disabled(b), Erased(b)}
  PROVE  Kept
<1>1. \A d \in Recorded(b) : d \in Domains /\ DomainOf[b] = d /\ domain[d].id # 0
  BY DisposesOfItsOwn DEF CInv, DomainsKnown, Recorded
<1>2. Ended(backend[b])
  BY DEF CInv, CopiesLag, Ended
<1>3. CASE domain' = domain
  BY <1>3, SameDomains
<1>4. CASE domain' = Disabled(b)
  <2>1. \A d \in Domains : /\ domain[d] \in DomainRecords
                           /\ d \in Recorded(b) => domain'[d] = [domain[d] EXCEPT !.on = FALSE]
                           /\ d \notin Recorded(b) => domain'[d] = domain[d]
    BY <1>4 DEF Disabled, CInv, IInv, Shape
  <2>2. \A d \in Domains : /\ domain'[d].id = domain[d].id
                           /\ domain'[d].by = domain[d].by
                           /\ d \notin Recorded(b) => domain'[d] = domain[d]
    BY <2>1 DEF DomainRecords
  <2>. QED
    BY <1>1, <2>2 DEF CInv, Kept, DomainsKnown
<1>5. CASE domain' = Erased(b)
  <2>1. \A d \in Domains : /\ d \in Recorded(b) => domain'[d] = NoDomain
                           /\ d \notin Recorded(b) => domain'[d] = domain[d]
    BY <1>5 DEF Erased
  <2>. QED
    BY <1>1, <1>2, <2>1, NoDomainIs DEF CInv, Kept, DomainsKnown
<1>. QED
  BY <1>3, <1>4, <1>5

-----------------------------------------------------------------------------
(* The ways a backend's pass goes on and ends.                             *)

\* A step of one backend: no deletion is taken back, and what becomes ready
\* has a domain.
LEMMA BackendGoes ==
  ASSUME CInv, IInv', Kept, NEW b \in Backends,
         UNCHANGED <<cache, dep, kdoms, admins>>,
         \A c \in Backends \ {b} : /\ backend'[c] = backend[c]
                                   /\ bhand'[c] = bhand[c] /\ bwork'[c] = bwork[c]
                                   /\ bpc'[c] = bpc[c],
         Ended(backend[b]) => Ended(backend'[b]),
         Ended(bhand'[b]) => Ended(backend'[b]),
         bwork'[b].st = bhand'[b].st,
         bpc'[b] \in {"disable", "delete"} => bhand'[b].st = "deleting",
         \A s \in {backend'[b], bhand'[b], bwork'[b]} :
           s.ready = "true" => Ready(b) \/ Served(DomainOf[b])'
  PROVE  CInv'
<1>1. NoneBack
  BY DEF NoneBack
<1>2. \A d \in Domains : Served(d) => Served(d)'
  BY <1>1, ServedStays
<1>3. CopiesLag'
  BY <1>1 DEF CInv, CopiesLag, NoneBack
<1>4. ASSUME admins = 0 PROVE ReadyServed' /\ ConfigServed'
  <2>1. ReadyServed /\ ConfigServed /\ dep.doms \union kdoms \subseteq Domains
    BY <1>4 DEF CInv
  <2>2. ConfigServed'
    BY <1>2, <2>1 DEF ConfigServed
  <2>3. ASSUME NEW c \in Backends, Ready(c)' PROVE Served(DomainOf[c])'
    <3>. DomainOf[c] \in Domains
      BY BackendAssumption
    <3>1. CASE c # b
      BY <1>2, <2>1, <2>3, <3>1 DEF ReadyServed, Ready
    <3>2. CASE c = b
      <4>1. Ready(b) \/ Served(DomainOf[b])'
        BY <2>3, <3>2 DEF Ready
      <4>. QED
        BY <1>2, <2>1, <3>2, <4>1 DEF ReadyServed
    <3>. QED
      BY <3>1, <3>2
  <2>. QED
    BY <2>2, <2>3 DEF ReadyServed
<1>. QED
  BY <1>3, <1>4 DEF CInv, Kept

LEMMA StepServes ==
  ASSUME CInv, IInv', Kept, NEW b \in Backends, NEW next \in Steps, NEW status,
         Step(b, next, status), status.st = bwork[b].st,
         status.ready = "true" => Ready(b) \/ Served(DomainOf[b])',
         next \in {"disable", "delete"} => bhand[b].st = "deleting"
  PROVE  CInv'
<1>1. /\ UNCHANGED <<backend, cache, dep, bhand, kdoms, admins>>
      /\ bpc'[b] = next /\ bwork'[b] = status
      /\ \A c \in Backends \ {b} : bwork'[c] = bwork[c] /\ bpc'[c] = bpc[c]
  BY DEF Step, kpass, bounds, CInv, IInv, Shape
<1>2. /\ bwork'[b].st = bhand'[b].st
      /\ Ended(bhand'[b]) => Ended(backend'[b])
  BY <1>1 DEF CInv, CopiesLag
<1>3. \A s \in {backend'[b], bhand'[b], bwork'[b]} :
        s.ready = "true" => Ready(b) \/ Served(DomainOf[b])'
  BY <1>1 DEF Ready
<1>. QED
  BY <1>1, <1>2, <1>3, BackendGoes

LEMMA StopServes ==
  ASSUME CInv, IInv', Kept, NEW b \in Backends, Stop(b),
         \A c \in Backends \ {b} : backend'[c] = backend[c],
         Ended(backend[b]) => Ended(backend'[b]),
         backend'[b].ready = "true" => Ready(b) \/ Served(DomainOf[b])'
  PROVE  CInv'
<1>1. /\ UNCHANGED <<cache, dep, kdoms, admins>>
      /\ bpc'[b] = "idle" /\ bwork'[b] = NoBackend /\ bhand'[b] = NoBackend
      /\ \A c \in Backends \ {b} : /\ bhand'[c] = bhand[c] /\ bwork'[c] = bwork[c]
                                   /\ bpc'[c] = bpc[c]
  BY DEF Stop, kpass, bounds, CInv, IInv, Shape
<1>2. ~ Ended(NoBackend) /\ NoBackend.ready # "true"
  BY DEF Ended, NoBackend
<1>. QED
  BY <1>1, <1>2, BackendGoes

LEMMA FinishServes ==
  ASSUME CInv, IInv', Kept, NEW b \in Backends, NEW status, NEW then,
         Finish(b, status, then), status.st = bwork[b].st,
         status.ready = "true" => Ready(b) \/ Served(DomainOf[b])'
  PROVE  CInv'
<1>1. Stop(b) /\ bwork[b].st = bhand[b].st /\ DOMAIN backend = Backends
  BY DEF Finish, CInv, CopiesLag, IInv, Shape
<1>2. \/ backend' = backend
      \/ backend' = [backend EXCEPT ![b] = status] /\ backend[b] = bhand[b]
  BY DEF Finish
<1>3. CASE backend' = backend
  BY <1>1, <1>3, StopServes DEF Ready
<1>4. CASE backend' = [backend EXCEPT ![b] = status] /\ backend[b] = bhand[b]
  <2>1. /\ backend'[b] = status /\ \A c \in Backends \ {b} : backend'[c] = backend[c]
    BY <1>1, <1>4
  <2>2. Ended(backend[b]) => Ended(backend'[b])
    BY <1>1, <1>4, <2>1 DEF Ended
  <2>. QED
    BY <1>1, <2>1, <2>2, StopServes
<1>. QED
  BY <1>2, <1>3, <1>4

-----------------------------------------------------------------------------
(* The steps.                                                              *)

LEMMA StatusesOf ==
  ASSUME CInv, NEW b \in Backends
  PROVE  /\ Demoted(bwork[b]).st = bwork[b].st
         /\ Demoted(bwork[b]).ready = "true" => Ready(b)
         /\ bwork[b].ready = "true" => Ready(b)
         /\ \A r \in {"false", "foreign"} :
              LET s == [bwork[b] EXCEPT !.ready = r]
              IN s.st = bwork[b].st /\ s.ready # "true"
         /\ \A p \in BOOLEAN :
              LET s == [bwork[b] EXCEPT !.projected = p]
              IN s.st = bwork[b].st /\ (s.ready = "true" => Ready(b))
         /\ \A i \in Nat : Claimed(b, i).st = bwork[b].st
<1>1. bwork[b] \in CRs
  BY DEF CInv, IInv, Shape
<1>. QED
  BY <1>1 DEF CRs, Demoted, Claimed, Ready

LEMMA EnsureServes ==
  ASSUME CInv, IInv', NEW b \in Backends, EnsureDomain(b)
  PROVE  CInv'
<1>0. DomainOf[b] \in Domains /\ ids \in Nat /\ bwork[b].id \in Nat
  BY BackendAssumption, IdsAreNumbers DEF CInv, IInv, Shape
<1>1. CASE WaitForKeystone(b)
  BY <1>1, SameDomains, StatusesOf, FinishServes DEF WaitForKeystone
<1>2. CASE CallFails(b)
  <2>1. Kept
    BY <1>2, SameDomains, CreatedKept DEF CallFails
  <2>. QED
    BY <1>2, <2>1, StatusesOf, FinishServes DEF CallFails
<1>3. CASE AdoptDomain(b)
  <2>1. Kept /\ domain' = domain
    BY <1>3, SameDomains DEF AdoptDomain
  <2>2. CASE Found(b) = NoDomain
    BY <1>3, <2>1, <2>2, StatusesOf, FinishServes DEF AdoptDomain
  <2>3. CASE Found(b) # NoDomain
    <3>1. Step(b, "observe", Claimed(b, Found(b).id))
      BY <1>3, <2>3 DEF AdoptDomain
    <3>2. Found(b).id \in Nat /\ Served(DomainOf[b])'
      BY <1>0, <2>1, <2>3 DEF CInv, IInv, Shape, DomainsKnown, Found, Served, DomainRecords
    <3>. QED
      BY <2>1, <3>1, <3>2, StatusesOf, StepServes DEF Steps
  <2>. QED
    BY <2>2, <2>3
<1>4. CASE DomainMissing(b)
  BY <1>4, SameDomains, StatusesOf, StepServes DEF DomainMissing, Steps
<1>5. CASE CreateDomain(b)
  <2>1. CASE CreateIt(b) /\ Step(b, "observe", Claimed(b, ids + 1))
    <3>1. Kept /\ Served(DomainOf[b])'
      BY <2>1, CreatedKept DEF Served
    <3>2. ids + 1 \in Nat
      BY <1>0
    <3>. QED
      BY <2>1, <3>1, <3>2, StatusesOf, StepServes DEF Steps
  <2>2. CASE Finish(b, Demoted(bwork[b]), "retry") /\ UNCHANGED <<domain, ids>>
    BY <2>2, SameDomains, StatusesOf, FinishServes
  <2>. QED
    BY <1>5, <2>1, <2>2 DEF CreateDomain
<1>6. CASE ForeignDomain(b)
  <2>1. [bwork[b] EXCEPT !.ready = "foreign"].ready # "true"
    BY StatusesOf
  <2>. QED
    BY <1>6, <2>1, SameDomains, StatusesOf, StepServes DEF ForeignDomain, Steps
<1>7. CASE KeepDomain(b)
  <2>1. /\ domain' = [domain EXCEPT ![DomainOf[b]].on = TRUE]
        /\ domain[DomainOf[b]].id # 0
        /\ Step(b, "observe", Claimed(b, bwork[b].id))
    BY <1>7 DEF KeepDomain, Own, Found
  <2>2. /\ \A d \in Domains \ {DomainOf[b]} : domain'[d] = domain[d]
        /\ domain'[DomainOf[b]].id = domain[DomainOf[b]].id
        /\ domain'[DomainOf[b]].by = domain[DomainOf[b]].by
    BY <1>0, <2>1 DEF CInv, IInv, Shape, DomainRecords
  <2>3. Kept /\ Served(DomainOf[b])'
    BY <1>0, <2>1, <2>2 DEF Kept, CInv, DomainsKnown, Served
  <2>. QED
    BY <1>0, <2>1, <2>3, StatusesOf, StepServes DEF Steps
<1>. QED
  BY <1>1, <1>2, <1>3, <1>4, <1>5, <1>6, <1>7 DEF EnsureDomain

LEMMA ObserveServes ==
  ASSUME CInv, IInv', NEW b \in Backends, ObserveConfig(b)
  PROVE  CInv'
<1>. DEFINE s == [bwork[b] EXCEPT !.projected = Projected(b)]
<1>1. PICK then : Finish(b, s, then) /\ Kept
  BY SameDomains DEF ObserveConfig
<1>2. s.st = bwork[b].st /\ (s.ready = "true" => Ready(b))
  BY StatusesOf DEF Projected
<1>. QED
  BY <1>1, <1>2, FinishServes

LEMMA FinalizerServes ==
  ASSUME CInv, IInv', NEW b \in Backends, ReconcileDelete(b)
  PROVE  CInv'
<1>1. CASE WaitForDeprojection(b)
  BY <1>1, SameDomains, StopServes DEF WaitForDeprojection, Ready
<1>2. CASE Deprojected(b)
  <2>1. PICK next \in {"disable", "release"} : Step(b, next, bwork[b])
    BY <1>2 DEF Deprojected
  <2>2. bhand[b].st = "deleting" /\ Kept
    BY <1>2, SameDomains DEF Deprojected, Tearing
  <2>. QED
    BY <2>1, <2>2, StatusesOf, StepServes DEF Steps
<1>3. CASE DisposeFails(b)
  <2>1. Kept
    BY <1>3, DisposalKept DEF DisposeFails, At
  <2>. QED
    BY <1>3, <2>1, StopServes DEF DisposeFails, Ready
<1>4. CASE DisableDomain(b)
  <2>1. Kept /\ bhand[b].st = "deleting"
    BY <1>4, DisposalKept DEF DisableDomain, At, CInv, CopiesLag
  <2>2. PICK next \in {"release", "delete"} : Step(b, next, bwork[b])
    BY <1>4 DEF DisableDomain
  <2>. QED
    BY <2>1, <2>2, StatusesOf, StepServes DEF Steps
<1>5. CASE DeleteDomain(b)
  <2>1. Kept /\ Step(b, "release", bwork[b])
    BY <1>5, DisposalKept DEF DeleteDomain, At
  <2>. QED
    BY <2>1, StatusesOf, StepServes DEF Steps
<1>6. CASE RemoveFinalizer(b)
  <2>1. Kept /\ Stop(b)
    BY <1>6, SameDomains DEF RemoveFinalizer
  <2>2. CASE backend' = backend
    BY <2>1, <2>2, StopServes DEF Ready
  <2>3. CASE backend' = [backend EXCEPT ![b].st = "gone"]
    <3>1. backend[b] \in CRs /\ DOMAIN backend = Backends
      BY DEF CInv, IInv, Shape
    <3>2. /\ backend'[b].st = "gone" /\ backend'[b].ready = backend[b].ready
          /\ \A c \in Backends \ {b} : backend'[c] = backend[c]
      BY <2>3, <3>1 DEF CRs
    <3>. QED
      BY <2>1, <3>2, StopServes DEF Ready, Ended
  <2>. QED
    BY <1>6, <2>2, <2>3 DEF RemoveFinalizer
<1>. QED
  BY <1>1, <1>2, <1>3, <1>4, <1>5, <1>6 DEF ReconcileDelete

\* A user's change, or the finalizer that is added: the status stays.
LEMMA MetadataServes ==
  ASSUME CInv, IInv', NEW b \in Backends,
         CreateBackend(b) \/ EditBackend(b) \/ DeleteBackend(b) \/ AddFinalizer(b)
  PROVE  CInv'
<1>1. /\ UNCHANGED <<domain, cache, dep, kdoms, admins, bpc, bhand, bwork>>
      /\ backend[b] \in CRs /\ DOMAIN backend = Backends
  BY DEF CreateBackend, EditBackend, DeleteBackend, AddFinalizer, kpass, bpass,
         bounds, CInv, IInv, Shape
<1>2. /\ backend'[b].ready = backend[b].ready
      /\ Ended(backend[b]) => Ended(backend'[b])
      /\ \A c \in Backends \ {b} : backend'[c] = backend[c]
  <2>1. CASE CreateBackend(b) \/ DeleteBackend(b)
    BY <1>1, <2>1 DEF CreateBackend, DeleteBackend, Ended, CRs
  <2>2. CASE EditBackend(b) \/ AddFinalizer(b)
    BY <1>1, <2>2 DEF EditBackend, AddFinalizer, Ended, CRs
  <2>. QED
    BY <2>1, <2>2
<1>3. Kept
  BY <1>1, SameDomains
<1>. QED
  BY <1>1, <1>2, <1>3, BackendGoes DEF CInv, CopiesLag, Ready

LEMMA BeginServes ==
  ASSUME CInv, IInv', NEW b \in Backends, BeginBackend(b)
  PROVE  CInv'
<1>1. Kept /\ UNCHANGED <<backend, cache, dep, kdoms, admins>>
  BY SameDomains DEF BeginBackend, kpass, bounds
<1>2. CASE bpass' = bpass
  BY <1>1, <1>2, BackendGoes DEF CInv, CopiesLag, Ready, bpass
<1>3. CASE /\ bpc' = [bpc EXCEPT ![b] = "domain"]
           /\ bhand' = [bhand EXCEPT ![b] = cache.backend[b]]
           /\ bwork' = [bwork EXCEPT ![b] = cache.backend[b]]
  <2>1. /\ bhand'[b] = cache.backend[b] /\ bwork'[b] = cache.backend[b]
        /\ bpc'[b] = "domain"
        /\ \A c \in Backends \ {b} : /\ bhand'[c] = bhand[c] /\ bwork'[c] = bwork[c]
                                     /\ bpc'[c] = bpc[c]
    BY <1>3 DEF CInv, IInv, Shape
  <2>. QED
    BY <1>1, <2>1, BackendGoes DEF CInv, CopiesLag, Ready
<1>. QED
  BY <1>2, <1>3 DEF BeginBackend

-----------------------------------------------------------------------------
(* Everything else.                                                        *)

LEMMA AdminServes ==
  ASSUME CInv, IInv', NEW d \in Domains, AdminCreates(d) \/ AdminDeletes(d)
  PROVE  CInv'
<1>1. /\ UNCHANGED <<backend, cache, dep, kdoms, bpc, bhand, bwork>>
      /\ admins' = admins + 1 /\ admins \in Nat
  BY DEF AdminCreates, AdminDeletes, CInv, kpass, bpass
<1>2. DomainsKnown'
  <2>1. CASE AdminCreates(d)
    <3>1. /\ domain'[d] = [id |-> ids + 1, by |-> Admin, on |-> TRUE]
          /\ \A e \in Domains \ {d} : domain'[e] = domain[e]
          /\ ids \in Nat
      BY <2>1 DEF AdminCreates, CInv, IInv, Shape
    <3>. QED
      BY <3>1 DEF CInv, DomainsKnown
  <2>2. CASE AdminDeletes(d)
    <3>1. /\ domain'[d] = NoDomain
          /\ \A e \in Domains \ {d} : domain'[e] = domain[e]
      BY <2>2 DEF AdminDeletes, CInv, IInv, Shape
    <3>. QED
      BY <3>1, NoDomainIs DEF CInv, DomainsKnown
  <2>. QED
    BY <2>1, <2>2
<1>. QED
  BY <1>1, <1>2 DEF CInv, CopiesLag

\* The informers deliver, and the Keystone controller renders and rolls out
\* what a cached backend calls ready.
LEMMA AroundServes ==
  ASSUME CInv, IInv', UNCHANGED <<backend, domain, bpc, bhand, bwork, admins>>,
         \A b \in Backends : cache'.backend[b] \in {cache.backend[b], backend[b]},
         DOMAIN dep' = {"up", "doms", "observed"},
         dep'.doms \subseteq dep.doms \union kdoms, kdoms' \subseteq kdoms \union Config
  PROVE  CInv'
<1>1. Kept /\ NoneBack
  BY SameDomains DEF NoneBack
<1>2. \A d \in Domains : Served(d) => Served(d)'
  BY <1>1, ServedStays
<1>3. DomainsKnown' /\ CopiesLag'
  BY <1>1 DEF Kept, CInv, CopiesLag
<1>4. \A b \in Rendered : b \in Backends /\ Ready(b)
  BY DEF Rendered, Attached, Ready
<1>5. Config \subseteq Domains
  BY <1>4, BackendAssumption DEF Config
<1>6. ASSUME admins = 0 PROVE ReadyServed' /\ ConfigServed'
  <2>1. ReadyServed /\ ConfigServed
    BY <1>6 DEF CInv
  <2>2. \A b \in Backends : Ready(b)' => Ready(b)
    BY DEF Ready
  <2>3. ReadyServed'
    BY <1>2, <2>1, <2>2, BackendAssumption DEF ReadyServed
  <2>4. \A d \in Config : Served(d)
    BY <1>4, <2>1 DEF Config, ReadyServed
  <2>5. ConfigServed'
    BY <1>2, <1>5, <2>1, <2>4 DEF ConfigServed, CInv
  <2>. QED
    BY <2>3, <2>5
<1>. QED
  BY <1>3, <1>5, <1>6 DEF CInv

LEMMA CrashServes ==
  ASSUME CInv, IInv', Crash
  PROVE  CInv'
<1>1. /\ UNCHANGED <<backend, domain, dep, admins>>
      /\ cache'.backend = backend /\ kdoms' = {}
      /\ \A b \in Backends : /\ bpc'[b] = "idle" /\ bhand'[b] = NoBackend
                             /\ bwork'[b] = NoBackend
  BY DEF Crash
<1>2. Kept /\ NoneBack
  BY <1>1, SameDomains DEF NoneBack
<1>3. \A d \in Domains : Served(d) => Served(d)'
  BY <1>2, ServedStays
<1>4. ~ Ended(NoBackend) /\ NoBackend.ready # "true"
  BY DEF Ended, NoBackend
<1>5. CopiesLag'
  BY <1>1, <1>4 DEF CopiesLag
<1>6. ASSUME admins = 0 PROVE ReadyServed' /\ ConfigServed'
  <2>1. ReadyServed /\ ConfigServed
    BY <1>6 DEF CInv
  <2>2. \A b \in Backends : Ready(b)' => Ready(b)
    BY <1>1, <1>4 DEF Ready
  <2>. QED
    BY <1>1, <1>3, <2>1, <2>2, BackendAssumption DEF ReadyServed, ConfigServed, CInv
<1>. QED
  BY <1>1, <1>2, <1>5, <1>6 DEF CInv, Kept

LEMMA OthersServe ==
  ASSUME CInv, IInv',
         \/ ReconcileIdentityBackends \/ KeystonePass \/ StopEarly
         \/ Informers \/ Rollout \/ (\E k \in Keys : Elapse(k)) \/ UNCHANGED vars
  PROVE  CInv'
<1>. USE DEF kpass, bpass, bounds
<1>0. DOMAIN cache = {"backend", "keystone", "doms"} /\ DOMAIN dep = {"up", "doms", "observed"}
  BY DEF CInv, IInv, Shape
<1>1. CASE ReconcileIdentityBackends
  BY <1>0, <1>1, AroundServes DEF ReconcileIdentityBackends
<1>2. CASE KeystonePass \/ StopEarly
  <2>1. UNCHANGED <<backend, domain, bpc, bhand, bwork, admins, cache>> /\ kdoms' = {}
    BY <1>2 DEF KeystonePass, StopEarly, ReconcileDeployment, ReconcileHealthCheck, Persist
  <2>2. \/ dep' = dep
        \/ dep' = [up |-> TRUE, doms |-> kdoms, observed |-> FALSE]
    BY <1>2 DEF KeystonePass, StopEarly, ReconcileDeployment, ReconcileHealthCheck
  <2>. QED
    BY <1>0, <2>1, <2>2, AroundServes
<1>3. CASE Informers \/ \E k \in Keys : Elapse(k)
  <2>1. UNCHANGED <<backend, domain, bpc, bhand, bwork, admins, dep, kdoms>>
    BY <1>3 DEF Informers, SyncBackends, SyncKeystone, SyncDeployment, Elapse
  <2>2. \/ cache' = cache
        \/ cache' = [cache EXCEPT !.backend = backend]
        \/ cache' = [cache EXCEPT !.keystone = keystone]
        \/ cache' = [cache EXCEPT !.doms = dep.doms]
    BY <1>3 DEF Informers, SyncBackends, SyncKeystone, SyncDeployment, Elapse
  <2>3. \A b \in Backends : cache'.backend[b] \in {cache.backend[b], backend[b]}
    BY <1>0, <2>2
  <2>. QED
    BY <1>0, <2>1, <2>3, AroundServes
<1>4. CASE Rollout \/ UNCHANGED vars
  <2>1. UNCHANGED <<backend, domain, bpc, bhand, bwork, admins, cache, kdoms>>
    BY <1>4 DEF Rollout, ObserveDeployment, StartPods, StopPods, Rolling, vars
  <2>2. dep' = dep \/ dep' = [dep EXCEPT !.observed = TRUE]
    BY <1>4 DEF Rollout, ObserveDeployment, StartPods, StopPods, vars
  <2>. QED
    BY <1>0, <2>1, <2>2, AroundServes
<1>. QED
  BY <1>1, <1>2, <1>3, <1>4

-----------------------------------------------------------------------------

LEMMA InitCInv == Init => CInv
<1>. SUFFICES ASSUME Init PROVE CInv
  OBVIOUS
<1>1. /\ backend = [b \in Backends |-> NoBackend]
      /\ bhand = backend /\ bwork = backend
      /\ cache.backend = backend /\ dep = NoDeployment /\ kdoms = {}
      /\ bpc = [b \in Backends |-> "idle"]
      /\ domain = [d \in Domains |-> NoDomain] /\ admins = 0
  BY DEF Init
<1>2. ~ Ended(NoBackend) /\ NoBackend.ready # "true"
  BY DEF Ended, NoBackend
<1>3. CopiesLag /\ ReadyServed
  BY <1>1, <1>2 DEF CopiesLag, ReadyServed, Ready
<1>4. DomainsKnown
  BY <1>1 DEF DomainsKnown, NoDomain
<1>5. ConfigServed /\ DOMAIN dep = {"up", "doms", "observed"} /\ dep.doms = {}
  BY <1>1 DEF ConfigServed, NoDeployment
<1>. QED
  BY <1>1, <1>3, <1>4, <1>5, InitIInv DEF CInv

LEMMA NextCInv == CInv /\ [Next]_vars => CInv'
<1>. SUFFICES ASSUME CInv, [Next]_vars PROVE CInv'
  OBVIOUS
<1>1. IInv'
  BY NextIInv DEF CInv
<1>2. ASSUME NEW b \in Backends,
             CreateBackend(b) \/ EditBackend(b) \/ DeleteBackend(b)
      PROVE  CInv'
  BY <1>1, <1>2, MetadataServes
<1>3. ASSUME NEW d \in Domains, AdminCreates(d) \/ AdminDeletes(d)
      PROVE  CInv'
  BY <1>1, <1>3, AdminServes
<1>4. ASSUME NEW b \in Backends, BackendPass(b)
      PROVE  CInv'
  BY <1>1, <1>4, MetadataServes, BeginServes, EnsureServes, ObserveServes,
     FinalizerServes DEF BackendPass
<1>5. CASE Crash
  BY <1>1, <1>5, CrashServes
<1>6. CASE \/ ReconcileIdentityBackends \/ KeystonePass \/ StopEarly
           \/ Informers \/ Rollout \/ (\E k \in Keys : Elapse(k)) \/ UNCHANGED vars
  BY <1>1, <1>6, OthersServe
<1>. QED
  BY <1>2, <1>3, <1>4, <1>5, <1>6 DEF Next

\* The Deployment is given the config of a domain (reconcileIdentityBackends,
\* from a cached status) only while the domain exists or the deletion of its
\* backend has begun, as long as no administrator takes the domain away: for
\* any number of backends, workers, edits and crashes, with shared domains.
THEOREM ConfigAlwaysHasDomain == Spec => []ConfigHasDomain
<1>1. CInv => ConfigHasDomain
  <2>. SUFFICES ASSUME CInv, admins = 0, NEW d \in dep.doms
                PROVE  \/ domain[d] # NoDomain
                       \/ \E b \in Backends : /\ DomainOf[b] = d
                                              /\ backend[b].st \in {"deleting", "gone"}
    BY DEF ConfigHasDomain
  <2>1. Served(d) /\ NoDomain.id = 0
    BY DEF CInv, ConfigServed, NoDomain
  <2>. QED
    BY <2>1 DEF Served, Ended
<1>. QED
  BY InitCInv, NextCInv, <1>1, PTL DEF Spec
=============================================================================
