------------------------------ MODULE MCClient ------------------------------
(* Small instances of ClientSession: one application with one window, or two *)
(* windows of one and one of another; process identifiers are interchange-   *)
(* able values.                                                              *)
EXTENDS ClientInvariant, TLC

CONSTANTS a1, a2

OneApp == {a1}
TwoApps == {a1, a2}

OneAppOwner == [w \in Windows |-> a1]
TwoAppOwner == [w \in Windows |-> IF w = 3 THEN a2 ELSE a1]

PidSymmetry == Permutations(Pids)

(* States that differ only in what is left of a free identifier's last use   *)
(* are the same: Fork overwrites all of it, and nothing reads it before.     *)
InUse(f, unused) == [p \in Pids |-> IF Free(p) THEN unused ELSE f[p]]

ReuseView ==
  <<InUse(app_id, None), InUse(exit_reason, None), InUse(quit, FALSE),
    phase, exits, reader, down, up, world, managerVars, routerVars, to_host, streamVars>>
=============================================================================
