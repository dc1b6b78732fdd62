------------------------------ MODULE MCTeardown ------------------------------
(***************************************************************************)
(* Keystone at home, in a namespace of its own or External; with or        *)
(* without a dashboard elsewhere.                                          *)
(***************************************************************************)
EXTENDS Teardown

At(k, h) == [s \in Services |-> IF s = "keystone" THEN k ELSE h]
MCPlacements == {At("home", "none"), At("n", "none"), At("none", "n")}
===============================================================================
