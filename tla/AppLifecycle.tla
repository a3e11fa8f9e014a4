---------------------------- MODULE AppLifecycle ----------------------------
(* What the client promises about each shared application while the session  *)
(* is up, without processes, queues or windows.                              *)
(*                                                                           *)
(* An application is absent until it is announced; then it is mirrored by    *)
(* one helper or dormant.  A helper that crashes is replaced once.  Dropping *)
(* an application is final, and the host is told in the same step.  Nothing  *)
(* is promised about a session that is over.                                 *)
CONSTANT Apps

VARIABLES
  session,   \* "up" or "over"
  stage,     \* per application: "absent", "mirrored", "dormant", "dropped"
  crashed,   \* applications whose one replacement has been used
  told       \* applications the host was asked to stop sharing

appVars == <<session, stage, crashed, told>>

Stages == {"absent", "mirrored", "dormant", "dropped"}

Init ==
  /\ session = "up"
  /\ stage = [a \in Apps |-> "absent"]
  /\ crashed = {}
  /\ told = {}

Move(a, from, to) ==
  /\ session = "up" /\ session' = "up"
  /\ stage[a] \in from
  /\ stage' = [stage EXCEPT ![a] = to]

(* Announced: the first helper is spawned, or the spawn fails.               *)
Announce(a) ==
  /\ Move(a, {"absent"}, "mirrored") \/ Move(a, {"absent"}, "dormant")
  /\ UNCHANGED <<crashed, told>>

(* The helper idled out; or it did while a window was opened, and its        *)
(* replacement could not be spawned.                                         *)
Rest(a) == Move(a, {"mirrored"}, "dormant") /\ UNCHANGED <<crashed, told>>

(* A window was opened on a dormant application.                             *)
Revive(a) == Move(a, {"dormant"}, "mirrored") /\ UNCHANGED <<crashed, told>>

(* A crash: replaced the first time only.                                    *)
Replace(a) ==
  /\ a \notin crashed
  /\ Move(a, {"mirrored"}, "mirrored") \/ Move(a, {"mirrored"}, "dormant")
  /\ crashed' = crashed \cup {a}
  /\ UNCHANGED told

(* The user quit the mirror, or the helper crashed again.                    *)
Drop(a) ==
  /\ Move(a, {"mirrored"}, "dropped")
  /\ told' = told \cup {a}
  /\ UNCHANGED crashed

(* The session ends; from then on any application may be in any stage.       *)
End ==
  /\ session' = "over"
  /\ stage' \in [Apps -> Stages]
  /\ crashed' \subseteq Apps
  /\ told' \subseteq Apps

Next ==
  \/ \E a \in Apps : Announce(a) \/ Rest(a) \/ Revive(a) \/ Replace(a) \/ Drop(a)
  \/ End

Spec == Init /\ [][Next]_appVars
=============================================================================
