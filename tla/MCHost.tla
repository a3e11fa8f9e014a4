------------------------------- MODULE MCHost -------------------------------
(* Small instances of HostSession: one application with one window, or two   *)
(* with a window each.                                                       *)
EXTENDS HostSession

CONSTANTS a1, a2

OneApp == {a1}
TwoApps == {a1, a2}

OneAppOwner == [w \in Windows |-> a1]
TwoAppOwner == [w \in Windows |-> IF w = 1 THEN a1 ELSE a2]
=============================================================================
