------------------------------- MODULE Release -------------------------------
(***************************************************************************)
(* OpenStack releases, YYYY.N with an optional patch suffix, and the three *)
(* comparisons the upgrade machine decides on                              *)
(* (internal/common/release/release.go).  A release is the record          *)
(* ParseRelease returns; the raw string is not kept because no comparison  *)
(* reads it.                                                               *)
(***************************************************************************)
EXTENDS Integers

CONSTANT Patches            \* the patch suffixes in use, "" for a base release

Years == {y \in Nat : y >= 2010}
Releases == [year : Years, minor : {1, 2}, patch : Patches]

IsSequentialUpgrade(from, to) ==
  \/ from.year = to.year /\ from.minor = 1 /\ to.minor = 2
  \/ to.year = from.year + 1 /\ from.minor = 2 /\ to.minor = 1

IsDowngrade(from, to) ==
  \/ to.year < from.year
  \/ to.year = from.year /\ to.minor < from.minor

IsPatchOnly(from, to) == from.year = to.year /\ from.minor = to.minor
=============================================================================
