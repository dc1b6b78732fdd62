---------------------------- MODULE ReconcileFlow ----------------------------
(***************************************************************************)
(* What every operator of the repository builds a reconcile pass from:     *)
(* conditions and their aggregate (internal/common/conditions,             *)
(* internal/common/reconcile), immutable config objects and their pruning  *)
(* (internal/common/config), and the flows of the leaf steps shared by the *)
(* service operators (HTTPRoute, autoscaler, NetworkPolicy, API probe).    *)
(*                                                                         *)
(* A condition is its status and the generation it observed; its reason    *)
(* and message are left out.  A step's outcome is the condition it leaves  *)
(* behind, the delay it asks for (0 for none) and whether it failed; what  *)
(* another controller decides is a parameter.                              *)
(***************************************************************************)
EXTENDS Integers, FiniteSets, Sequences

LOCAL INSTANCE FiniteSetsExt
LOCAL INSTANCE SequencesExt

Unset == [st |-> "Unset", gen |-> 0]
Condition(st, gen) == [st |-> st, gen |-> gen]
Conditions(types, gens) ==
  [types -> [st : {"True", "False"}, gen : gens] \union {Unset}]

SetCondition(conds, type, st, gen) ==
  [conds EXCEPT ![type] = Condition(st, gen)]
AllTrue(conds, types) == \A t \in types : conds[t].st = "True"

SetAggregateReady(conds, gen, types) ==
  SetCondition(conds, "Ready", IF AllTrue(conds, types) THEN "True"
                               ELSE "False", gen)

-----------------------------------------------------------------------------
(* The chain of steps and the parallel group.                              *)

Outcome(cond, after, err) == [cond |-> cond, after |-> after, err |-> err]

ShortestRequeue(delays) ==
  IF delays \subseteq {0} THEN 0 ELSE Min(delays \ {0})

\* Each member works on its own copy; what is merged back is its one
\* condition, and that also when another member failed.
MergeGroup(conds, outcomes) ==
  [t \in DOMAIN conds |->
     IF t \in DOMAIN outcomes THEN outcomes[t].cond ELSE conds[t]]
GroupFails(outcomes) == \E t \in DOMAIN outcomes : outcomes[t].err
GroupDelay(outcomes) ==
  IF GroupFails(outcomes) THEN 0
  ELSE ShortestRequeue({outcomes[t].after : t \in DOMAIN outcomes})

-----------------------------------------------------------------------------
(* Immutable objects, oldest first, named by their content.                *)

CreateImmutable(objs, content) ==
  IF Contains(objs, content) THEN objs ELSE Append(objs, content)

\* The one just created stays, and the newest `retain' of the others.
PruneImmutable(objs, current, retain) ==
  LET others == SelectSeq(objs, LAMBDA o : o # current)
      kept == ToSet(others) \ ToSet(SubSeq(others, 1, Len(others) - retain))
  IN SelectSeq(objs, LAMBDA o : o = current \/ o \in kept)

-----------------------------------------------------------------------------
(* The shared flows.  cur is the member's condition before the pass.       *)

\* A failing API call leaves the condition as it was.
Failed(cur) == Outcome(cur, 0, TRUE)

Deployed == 10              \* RequeueDeploymentPolling, in seconds

\* HTTPRoute: nothing to do without a gateway, an unmet wish without the CRD,
\* otherwise the Gateway controller decides.
ReconcileHTTPRoute(installed, wanted, accepted, gen) ==
  IF ~ wanted THEN Outcome(Condition("True", gen), 0, FALSE)
  ELSE IF ~ installed THEN Outcome(Condition("False", gen), 0, FALSE)
  ELSE IF accepted THEN Outcome(Condition("True", gen), 0, FALSE)
  ELSE Outcome(Condition("False", gen), Deployed, FALSE)

ReconcileHPA(gen) == Outcome(Condition("True", gen), 0, FALSE)

\* NetworkPolicy: an empty ingress list fails closed, as an error.
ReconcileNetworkPolicy(wanted, sources, cur, gen) ==
  IF wanted /\ sources = 0 THEN Failed(cur)
  ELSE Outcome(Condition("True", gen), 0, FALSE)

CacheHit(cur, fresh) == cur.st = "True" /\ fresh

\* The API probe: a fresh success is served from the cache, and the condition
\* is stamped with the new generation all the same.
ReconcileProbe(endpoint, cur, fresh, answers, gen) ==
  IF ~ endpoint THEN Outcome(Condition("False", gen), Deployed, FALSE)
  ELSE IF CacheHit(cur, fresh) \/ answers
  THEN Outcome(Condition("True", gen), 0, FALSE)
  ELSE Outcome(Condition("False", gen), Deployed, FALSE)
=============================================================================
