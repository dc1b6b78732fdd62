---------------------------- MODULE MCKeyRotation ----------------------------
(* Two repositories: Fernet keys that overlapping Jobs rotate, one PATCH     *)
(* failing, and credential keys on a schedule, with API pods and rows.       *)
EXTENDS KeyRotation

Overlapping ==
  [runs |-> {"r1", "r2"}, pods |-> {}, migrates |-> FALSE, quiet |-> FALSE,
   failures |-> 1, crashes |-> 1]

Scheduled ==
  [runs |-> {"r1", "r2", "r3"}, pods |-> {"p1", "p2"}, migrates |-> TRUE,
   quiet |-> TRUE, failures |-> 0, crashes |-> 1]

MCRepositories == {Overlapping, Scheduled}

\* The replicas are alike, so it does not matter which of them leads first.
InitFirst == Init /\ leader = "o1"
FirstLeads == InitFirst /\ [][Next]_vars /\ Fairness
=============================================================================
