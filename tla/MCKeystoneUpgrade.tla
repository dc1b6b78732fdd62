-------------------------- MODULE MCKeystoneUpgrade --------------------------
(***************************************************************************)
(* Small instances of KeystoneUpgrade.  "latest" is a tag that does not    *)
(* parse as a release.                                                     *)
(***************************************************************************)
EXTENDS KeystoneUpgrade

MCParse == [t \in Tags \ {"latest"} |->
  [year  |-> IF t = "2026.1" THEN 2026 ELSE 2025,
   minor |-> IF t = "2025.2" THEN 2 ELSE 1,
   patch |-> IF t = "2025.1-p1" THEN "p1" ELSE ""]]

MCLevel == [t \in Tags |->
  CASE t = "2025.2" -> 2 [] t = "2026.1" -> 3 [] OTHER -> 1]

\* The user starts from the oldest release.
InitOldest == Init /\ cr.tag = "2025.1"
OldestFirst == InitOldest /\ [][Next]_vars
FairOldestFirst == OldestFirst /\ Fairness

\* The user edits twice, or once and the operator dies once.
FewDisturbances == edits + crashes <= 2
=============================================================================
