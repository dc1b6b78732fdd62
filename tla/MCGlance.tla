------------------------------ MODULE MCGlance ------------------------------
(* Glance from its creation, with one of the changes and no fault left, and *)
(* from its steady state, with all of both.                                 *)
EXTENDS Glance

Created == InitWith(MaxChanges - 1, MaxFaults)
Steady ==
  LET cm == [on |-> Backends, default |-> {First}, conf |-> CHOOSE c \in Confs : TRUE]
      r == CHOOSE r \in Releases : \A q \in Releases : r <= q IN
  /\ cr = [st |-> "live", fin |-> TRUE, gen |-> 1, rel |-> r, conf |-> cm.conf]
  /\ status = [conds |-> [t \in Types |-> Condition("True", 1)], pending |-> {},
               endpoint |-> TRUE, installed |-> r]
  /\ backend = [b \in Backends |-> [here |-> TRUE, default |-> b = First,
                  secret |-> TRUE, cred |-> TRUE, proj |-> TRUE]]
  /\ configs = <<cm>> /\ sections = <<Backends>>
  /\ dep = [cm |-> cm, sec |-> Backends, rel |-> r, observed |-> TRUE]
  /\ job = [cm |-> cm, rel |-> r, st |-> "complete"]
  /\ schema = r /\ mariadb = "ready"
  /\ outside = [creds |-> TRUE, accepted |-> TRUE, answers |-> TRUE]
  /\ pass = Idle /\ woken = {} /\ changes = 0 /\ faults = 0

Start == Created \/ Steady
MCSpec == Start /\ [][Next]_vars /\ Fairness
=============================================================================
