-------------------------- MODULE ClientRefinement --------------------------
(* The client of a session implements the lifecycle it promises each shared  *)
(* application: the mapping from its state, and the property.                *)
EXTENDS ClientSession

StageOf(a) ==
  CASE a \notin known     -> "absent"
    [] given_up[a]        -> "dropped"
    [] running[a] # None  -> "mirrored"
    [] OTHER              -> "dormant"

Lifecycle == INSTANCE AppLifecycle WITH
  session <- IF coord = "up" THEN "up" ELSE "over",
  stage   <- [a \in Apps |-> StageOf(a)],
  crashed <- {a \in Apps : respawned_once[a]},
  told    <- {a \in Apps : a \notin subscribed \/ RequestsFor(a) # {}}

(* Every step of the client is a step of the lifecycle or leaves it alone: a *)
(* dropped application is never mirrored again, and the host is told in the  *)
(* step that drops it.                                                       *)
ImplementsLifecycle == Lifecycle!Spec
=============================================================================
