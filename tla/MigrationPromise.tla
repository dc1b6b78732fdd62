-------------------------- MODULE MigrationPromise ---------------------------
(***************************************************************************)
(* What an upgrade promises, with no passes, Jobs, caches or retries in    *)
(* it: the database, the status a user reads and the releases that serve.  *)
(* Migrations take effect in order, whichever pod runs them; the status    *)
(* is replaced as a whole by one that is true of the database; a release   *)
(* serves only on a schema it can work with.  KeystoneUpgrade implements   *)
(* it (KeepsPromise there; the theorem is in KeystoneUpgradeProofs).       *)
(***************************************************************************)
EXTENDS Integers

CONSTANTS
  Tags,    \* image tags
  NoTag,   \* no tag
  Level    \* [Tags -> Nat], the schema revision the code of a tag needs

VARIABLES
  schema,   \* how far the expand, migrate and contract trees have advanced
  status,   \* the persisted installed and target release, phase, readiness
  serving   \* the releases that run, or are to be run, as API pods

promised == <<schema, status, serving>>

Expanded(t) == schema.expand >= Level[t]
Prepared(t) == Expanded(t) /\ schema.migrate >= Level[t]

\* What each field of a status claims.
True(s) ==
  /\ s.installed # NoTag => Prepared(s.installed)
  /\ (s.phase = "none") <=> (s.target = NoTag)
  /\ s.phase # "none" => ~ s.dbReady
  /\ s.phase \in {"Migrating", "RollingUpdate", "Contracting"} =>
       Expanded(s.target)
  /\ s.phase \in {"RollingUpdate", "Contracting"} => Prepared(s.target)

Init ==
  /\ schema = [expand |-> 0, migrate |-> 0, contract |-> 0]
  /\ True(status)
  /\ serving = {}

\* The trees named in S reach the revision of t; none ever goes back.
Reach(S, t) ==
  /\ schema' = [tree \in DOMAIN schema |->
                  IF tree \in S /\ schema[tree] < Level[t] THEN Level[t]
                  ELSE schema[tree]]
  /\ UNCHANGED <<status, serving>>

Expand(t) == Reach({"expand"}, t)
Migrate(t) == Expanded(t) /\ Reach({"migrate"}, t)
Contract(t) == Prepared(t) /\ Reach({"contract"}, t)
SyncAtOnce(t) == Reach({"expand", "migrate", "contract"}, t)

Record ==
  /\ True(status')
  /\ UNCHANGED <<schema, serving>>

Roll ==
  /\ \A t \in Tags : t \in serving' \ serving => Prepared(t)
  /\ UNCHANGED <<schema, status>>

Next ==
  \/ \E t \in Tags : Expand(t) \/ Migrate(t) \/ Contract(t) \/ SyncAtOnce(t)
  \/ Record
  \/ Roll

Spec == Init /\ [][Next]_promised
=============================================================================
