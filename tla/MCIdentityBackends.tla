------------------------- MODULE MCIdentityBackends -------------------------
(* Instances of IdentityBackends: backends that share a domain, or do not.  *)
EXTENDS IdentityBackends

OneDomain == [b \in Backends |-> CHOOSE d \in Domains : TRUE]
OwnDomain == [b \in Backends |-> IF b = "b1" THEN "d1" ELSE "d2"]

\* What every instance starts from: Keystone up, and nobody at work.
AtRest(up) ==
  /\ cache = [backend |-> backend, keystone |-> keystone, doms |-> dep.doms]
  /\ kpc = "idle" /\ khand = FreshKeystone /\ kwork = FreshKeystone
  /\ kdoms = {}
  /\ bpc = [b \in Backends |-> "idle"]
  /\ bhand = [b \in Backends |-> NoBackend] /\ bwork = bhand
  /\ woken = IF up THEN {} ELSE {"keystone"}

\* The first backend is provisioned and projected, or kept out by a domain
\* that an administrator created.
First == "b1"
Resting(id, ready) == [st |-> "live", fin |-> TRUE, edit |-> MaxEdits, id |-> id,
                       ready |-> ready, projected |-> ready = "true"]
RestingFirst(own, others, left) ==
  /\ backend = [b \in Backends |->
                  IF b # First THEN [NoBackend EXCEPT !.edit = MaxEdits, !.st = others]
                  ELSE IF own THEN Resting(1, "true") ELSE Resting(0, "foreign")]
  /\ domain = [d \in Domains |->
                 IF d = DomainOf[First]
                 THEN [id |-> 1, on |-> TRUE, by |-> IF own THEN First ELSE Admin]
                 ELSE NoDomain]
  /\ keystone = [api |-> TRUE, all |-> own]
  /\ dep = [up |-> TRUE, doms |-> IF own THEN {DomainOf[First]} ELSE {},
            observed |-> TRUE]
  /\ pods = {dep.doms}
  /\ AtRest(TRUE) /\ due = IF own THEN {} ELSE {First}
  /\ ids = 1 /\ admins = MaxAdmin - left /\ crashes = 0

\* One backend alone, the others having come and gone, before or after an
\* administrator created the domain; Keystone is yet to be deployed, or up.
Solitary(who, there, up, left) ==
  /\ backend = [b \in Backends |->
                  [NoBackend EXCEPT !.st = IF b = who THEN "absent" ELSE "gone",
                                    !.edit = IF b \in Managed THEN MaxEdits ELSE 0]]
  /\ domain = [d \in Domains |->
                 IF there /\ DomainOf[who] = d
                 THEN [id |-> 1, on |-> TRUE, by |-> Admin] ELSE NoDomain]
  /\ keystone = [api |-> up, all |-> up]
  /\ dep = [up |-> up, doms |-> {}, observed |-> up]
  /\ pods = IF up THEN {{}} ELSE {}
  /\ AtRest(up) /\ due = {}
  /\ ids = (IF there THEN 1 ELSE 0) /\ admins = MaxAdmin - left
  /\ crashes = MaxCrashes

\* A domain that an administrator keeps from one backend while another adopts
\* it, or deletes or creates while a backend provisions and disposes of it, or
\* replaces behind a backend that is torn down.
ForeignInit ==
  \/ RestingFirst(FALSE, "absent", 0) \/ RestingFirst(TRUE, "gone", 2)
  \/ \E b \in Backends : Solitary(b, FALSE, TRUE, 1)
ForeignSpec == ForeignInit /\ [][Next]_vars

\* A managed backend from the first Deployment on, an adopting one, and the
\* teardown of a managed one with a crash.
SolitaryInit ==
  \/ Solitary("b1", FALSE, FALSE, 0)
  \/ Solitary("b2", TRUE, TRUE, 0)
  \/ RestingFirst(TRUE, "gone", 0)
SolitarySpec == SolitaryInit /\ [][Next]_vars /\ Fairness
=============================================================================
