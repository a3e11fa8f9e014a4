----------------------- MODULE ClientLifecycleProofs -----------------------
(* The client implements the lifecycle of AppLifecycle, step by step, and    *)
(* tells the host exactly once of each application it gave up.               *)
EXTENDS ClientProofs, FiniteSetTheorems

----------------------------------------------------------------------------
(* The requests under way, as the queue to the host grows and shrinks.       *)
ClientMessage == UpMessage \cup {UnsubscribeApp(a) : a \in Apps}

LEMMA QueueToHost == TypeOK => to_host \in Seq(ClientMessage)
BY DEF TypeOK, ManagerTypeOK, ClientMessage

LEMMA RequestsAppended ==
  ASSUME TypeOK, NEW msg \in ClientMessage, to_host' = Append(to_host, msg)
  PROVE  /\ \A a \in Apps : msg # UnsubscribeApp(a) => RequestsFor(a)' = RequestsFor(a)
         /\ \A a \in Apps : msg = UnsubscribeApp(a) =>
              RequestsFor(a)' = RequestsFor(a) \cup {Len(to_host) + 1}
<1>1. /\ DOMAIN to_host = 1..Len(to_host) /\ Len(to_host) \in Nat
      /\ DOMAIN to_host' = 1..(Len(to_host) + 1)
      /\ to_host'[Len(to_host) + 1] = msg
      /\ \A i \in 1..Len(to_host) : to_host'[i] = to_host[i]
  BY QueueToHost, AppendProperties
<1>2. QED
  BY <1>1 DEF RequestsFor

LEMMA RequestsTaken ==
  ASSUME TypeOK, to_host # <<>>, to_host' = Tail(to_host)
  PROVE  /\ \A a \in Apps : \A i : i \in RequestsFor(a)' <=>
                              i \in Nat \ {0} /\ i + 1 \in RequestsFor(a)
         /\ \A a \in Apps : 1 \in RequestsFor(a) <=> Head(to_host) = UnsubscribeApp(a)
<1>1. /\ DOMAIN to_host = 1..Len(to_host) /\ Len(to_host) \in Nat /\ Len(to_host) > 0
      /\ Head(to_host) = to_host[1]
      /\ DOMAIN to_host' = 1..(Len(to_host) - 1)
      /\ \A i \in 1..(Len(to_host) - 1) : to_host'[i] = to_host[i + 1]
  BY QueueToHost, HeadTailProperties
<1>2. QED
  BY <1>1 DEF RequestsFor

(* A relayed event is no request; requests for two applications differ.      *)
LEMMA RequestsDiffer ==
  /\ \A a, b : UnsubscribeApp(a) = UnsubscribeApp(b) => a = b
  /\ \A m, a : m.type = "Relay" => m # UnsubscribeApp(a)
BY DEF UnsubscribeApp

(* Two steps leave the requests as they are.                                 *)
LEMMA RequestsKept ==
  ASSUME UNCHANGED to_host
  PROVE  \A a \in Apps : RequestsFor(a)' = RequestsFor(a)
BY DEF RequestsFor

----------------------------------------------------------------------------
(* What the lifecycle sees of one application stays as it is.                *)
SameStage(a) ==
  /\ a \in known' <=> a \in known
  /\ given_up'[a] = given_up[a]
  /\ running'[a] = None <=> running[a] = None

LEMMA StageKept ==
  ASSUME NEW a, SameStage(a)
  PROVE  StageOf(a)' = StageOf(a)
BY DEF SameStage, StageOf

(* One application moves from a stage to another while the session is up.    *)
LEMMA OneMoves ==
  ASSUME coord = "up", coord' = "up", NEW a \in Apps,
         \A b \in Apps \ {a} : SameStage(b)
  PROVE  \A from : StageOf(a) \in from => Lifecycle!Move(a, from, StageOf(a)')
<1>1. \A b \in Apps \ {a} : StageOf(b)' = StageOf(b)
  BY StageKept
<1>2. [b \in Apps |-> StageOf(b)]' = [[b \in Apps |-> StageOf(b)] EXCEPT ![a] = StageOf(a)']
  BY <1>1
<1>3. QED
  BY <1>2 DEF Lifecycle!Move

(* No application moves.                                                     *)
LEMMA NoneMoves ==
  ASSUME coord = "up", coord' = "up", \A a \in Apps : SameStage(a)
  PROVE  UNCHANGED <<IF coord = "up" THEN "up" ELSE "over", [a \in Apps |-> StageOf(a)]>>
BY StageKept

(* The applications the host was told of.                                    *)
Told == {a \in Apps : a \notin subscribed \/ RequestsFor(a) # {}}
Crashed == {a \in Apps : respawned_once[a]}

(* Announcing an application.                                                *)
LEMMA AnnounceStep ==
  ASSUME TypeOK, ClientInv, coord = "up", NEW a \in Apps, AppAnnounced(a), UNCHANGED subscribed
  PROVE  Lifecycle!Announce(a)
<1>1. /\ a \notin known /\ known' = known \cup {a}
      /\ UNCHANGED <<coord, given_up, respawned_once, to_host>>
      /\ ~given_up[a] /\ running[a] = None
  BY DEF AppAnnounced, ClientInv, Stations, NothingHeld
<1>2. \A b \in Apps \ {a} : running'[b] = running[b]
  BY DEF AppAnnounced, TypeOK, ManagerTypeOK
<1>3. Crashed' = Crashed /\ Told' = Told
  BY <1>1, RequestsKept DEF Crashed, Told
<1>4. StageOf(a) = "absent" /\ StageOf(a)' \in {"mirrored", "dormant"}
  BY <1>1 DEF StageOf
<1>5. Lifecycle!Move(a, {"absent"}, StageOf(a)')
  BY <1>1, <1>2, <1>4, OneMoves DEF SameStage
<1>6. QED
  BY <1>3, <1>4, <1>5 DEF Lifecycle!Announce, Crashed, Told

(* A window opened on a dormant application, whose helper is spawned or not. *)
LEMMA OpenedStep ==
  ASSUME TypeOK, coord = "up", NEW w \in Windows, NEW t, NEW s,
         WindowOpenedDormant(w, t, s), UNCHANGED subscribed
  PROVE  Lifecycle!Next \/ UNCHANGED Lifecycle!appVars
<1> DEFINE a == Owner[w]
<1>1. /\ a \in Apps /\ a \in known /\ ~given_up[a] /\ running[a] = None
      /\ UNCHANGED <<coord, known, given_up, respawned_once, to_host>>
      /\ SpawnAndReplay(a, [windows[a] EXCEPT ![w] = NewRecord(w, t, s)])
  BY DataAssumption DEF WindowOpenedDormant, AcceptsWindows, Dormant
<1>2. \A b \in Apps \ {a} : running'[b] = running[b]
  BY <1>1 DEF SpawnAndReplay, TypeOK, ManagerTypeOK
<1>3. Crashed' = Crashed /\ Told' = Told
  BY <1>1, RequestsKept DEF Crashed, Told
<1>4. StageOf(a) = "dormant"
  BY <1>1 DEF StageOf
<1>5. CASE running'[a] = None
  <2>1. \A b \in Apps : SameStage(b)
    BY <1>1, <1>2, <1>5 DEF SameStage
  <2>2. QED
    BY <1>1, <1>3, <2>1, NoneMoves DEF Lifecycle!appVars, Crashed, Told
<1>6. CASE running'[a] # None
  <2>1. StageOf(a)' = "mirrored"
    BY <1>1, <1>6 DEF StageOf
  <2>2. Lifecycle!Move(a, {"dormant"}, "mirrored")
    BY <1>1, <1>2, <1>4, <2>1, OneMoves DEF SameStage
  <2>3. QED
    BY <1>1, <1>3, <2>2 DEF Lifecycle!Next, Lifecycle!Revive, Crashed, Told
<1>7. QED
  BY <1>5, <1>6

----------------------------------------------------------------------------
(* Exit reports: one application, mirrored until now, whose helper was p.    *)
LEMMA ExitBefore ==
  ASSUME TypeOK, ClientInv, coord = "up", NEW p \in exits
  PROVE  app_id[p] \in Apps /\ StageOf(app_id[p]) = "mirrored"
<1>1. p \in Pids /\ app_id[p] \in Apps /\ p # None
  BY ProcessAssumption DEF TypeOK, HelperTypeOK, Unreaped
<1>2. QED
  BY <1>1, OnlyProcess DEF StageOf

LEMMA DroppedStep ==
  ASSUME TypeOK, ClientInv, coord = "up", NEW p \in Pids, NEW a \in Apps, a = app_id[p],
         HelperDropped(p), UNCHANGED subscribed
  PROVE  Lifecycle!Drop(a)
<1>1. /\ p \in exits
      /\ running' = [running EXCEPT ![a] = None]
      /\ given_up' = [given_up EXCEPT ![a] = TRUE]
      /\ to_host' = Append(to_host, UnsubscribeApp(a))
      /\ UNCHANGED <<coord, known, respawned_once>>
  BY DEF HelperDropped, ExitOf, GiveUpApp
<1>2. a \in Apps /\ StageOf(a) = "mirrored" /\ a \in known
  BY <1>1, ExitBefore, OnlyProcess
<1>3. StageOf(a)' = "dropped"
  BY <1>1, <1>2 DEF StageOf, TypeOK, ManagerTypeOK
<1>4. \A b \in Apps \ {a} : SameStage(b)
  BY <1>1 DEF SameStage, TypeOK, ManagerTypeOK
<1>5. Lifecycle!Move(a, {"mirrored"}, "dropped")
  BY <1>1, <1>2, <1>3, <1>4, OneMoves
<1>6. Told' = Told \cup {a}
  <2>1. UnsubscribeApp(a) \in ClientMessage
    BY DEF ClientMessage
  <2>2. /\ \A b \in Apps \ {a} : RequestsFor(b)' = RequestsFor(b)
        /\ RequestsFor(a)' # {}
    BY <1>1, <2>1, RequestsAppended, RequestsDiffer
  <2>3. QED
    BY <1>2, <2>2 DEF Told
<1>7. Crashed' = Crashed
  BY <1>1 DEF Crashed
<1>8. QED
  BY <1>5, <1>6, <1>7 DEF Lifecycle!Drop, Told, Crashed

LEMMA ReapedStep ==
  ASSUME TypeOK, ClientInv, coord = "up", NEW p \in Pids, NEW a \in Apps, a = app_id[p],
         HelperReaped(p) \/ HelperRevived(p), UNCHANGED subscribed
  PROVE  Lifecycle!Next \/ UNCHANGED Lifecycle!appVars
<1>1. /\ p \in exits /\ UNCHANGED <<coord, known, given_up, respawned_once, to_host>>
      /\ running' = [running EXCEPT ![a] = None]
           \/ \E q \in Pids : running' = [running EXCEPT ![a] = q]
  BY DEF HelperReaped, HelperRevived, ExitOf, SpawnAndReplay
<1>2. a \in Apps /\ StageOf(a) = "mirrored" /\ a \in known /\ ~given_up[a] /\ running[a] # None
  BY <1>1, ExitBefore, OnlyProcess, ProcessAssumption
<1>3. Crashed' = Crashed /\ Told' = Told
  BY <1>1, RequestsKept DEF Crashed, Told
<1>4. \A b \in Apps \ {a} : SameStage(b)
  BY <1>1 DEF SameStage, TypeOK, ManagerTypeOK
<1>5. CASE running'[a] = None
  <2>1. StageOf(a)' = "dormant"
    BY <1>1, <1>2, <1>5 DEF StageOf
  <2>2. Lifecycle!Move(a, {"mirrored"}, "dormant")
    BY <1>1, <1>2, <1>4, <2>1, OneMoves
  <2>3. QED
    BY <1>2, <1>3, <2>2 DEF Lifecycle!Next, Lifecycle!Rest, Crashed, Told
<1>6. CASE running'[a] # None
  <2>1. \A b \in Apps : SameStage(b)
    BY <1>1, <1>2, <1>4, <1>6 DEF SameStage
  <2>2. QED
    BY <1>1, <1>3, <2>1, NoneMoves DEF Lifecycle!appVars, Crashed, Told
<1>7. QED
  BY <1>5, <1>6

LEMMA ReplacedStep ==
  ASSUME TypeOK, ClientInv, coord = "up", NEW p \in Pids, NEW a \in Apps, a = app_id[p],
         HelperRespawned(p), UNCHANGED subscribed
  PROVE  Lifecycle!Replace(a)
<1>1. /\ p \in exits /\ UNCHANGED <<coord, known, given_up, to_host>>
      /\ ~respawned_once[a] /\ respawned_once' = [respawned_once EXCEPT ![a] = TRUE]
      /\ running' = [running EXCEPT ![a] = None]
           \/ \E q \in Pids : running' = [running EXCEPT ![a] = q]
  BY DEF HelperRespawned, ExitOf, ExitAction, SpawnAndReplay
<1>2. a \in Apps /\ StageOf(a) = "mirrored" /\ a \in known /\ ~given_up[a]
  BY <1>1, ExitBefore, OnlyProcess
<1>3. Told' = Told
  BY <1>1, RequestsKept DEF Told
<1>4. \A b \in Apps \ {a} : SameStage(b)
  BY <1>1 DEF SameStage, TypeOK, ManagerTypeOK
<1>5. a \notin Crashed /\ Crashed' = Crashed \cup {a}
  BY <1>1, <1>2 DEF Crashed, TypeOK, ManagerTypeOK
<1>6. StageOf(a)' \in {"mirrored", "dormant"}
  BY <1>1, <1>2 DEF StageOf
<1>7. Lifecycle!Move(a, {"mirrored"}, StageOf(a)')
  BY <1>1, <1>2, <1>4, OneMoves
<1>8. QED
  BY <1>3, <1>5, <1>6, <1>7 DEF Lifecycle!Replace, Crashed, Told

(* The host takes a message: what it was told stays told.                    *)
LEMMA ReceivesStep ==
  ASSUME TypeOK, coord = "up", HostReceives
  PROVE  UNCHANGED Lifecycle!appVars
<1>1. /\ to_host # <<>> /\ to_host' = Tail(to_host)
      /\ UNCHANGED <<coord, known, running, given_up, respawned_once>>
  BY DEF HostReceives, managerVars
<1>2. Told' = Told
  <2>1. ASSUME NEW a \in Apps
        PROVE  RequestsFor(a)' # {} <=> \E i \in RequestsFor(a) : i # 1
    <3>1. \A i \in RequestsFor(a) : i \in Nat \ {0}
      BY QueueToHost DEF RequestsFor
    <3>2. \A i : i \in RequestsFor(a)' <=> i \in Nat \ {0} /\ i + 1 \in RequestsFor(a)
      BY <1>1, RequestsTaken
    <3>3. \A i \in RequestsFor(a) : i # 1 => i - 1 \in Nat \ {0} /\ (i - 1) + 1 = i
      BY <3>1
    <3>4. \A i \in Nat \ {0} : i + 1 # 1
      OBVIOUS
    <3>5. QED
      BY <3>2, <3>3, <3>4
  <2>2. ASSUME NEW a \in Apps
        PROVE  a \notin subscribed' <=> a \notin subscribed \/ 1 \in RequestsFor(a)
    <3>1. 1 \in RequestsFor(a) <=> Head(to_host) = UnsubscribeApp(a)
      BY <1>1, RequestsTaken
    <3>2. CASE Head(to_host).type = "UnsubscribeApp"
      <4>1. Head(to_host) \in ClientMessage
        BY <1>1, QueueToHost, HeadTailProperties
      <4>2. PICK b \in Apps : Head(to_host) = UnsubscribeApp(b)
        BY <3>2, <4>1 DEF ClientMessage, UpMessage, Relay, DecodeProgress
      <4>3. subscribed' = subscribed \ {b}
        BY <3>2, <4>2 DEF HostReceives, Drops, UnsubscribeApp
      <4>4. QED
        BY <3>1, <4>2, <4>3, RequestsDiffer
    <3>3. CASE Head(to_host).type # "UnsubscribeApp"
      BY <3>1, <3>3 DEF HostReceives, streamVars, UnsubscribeApp
    <3>4. QED
      BY <3>2, <3>3
  <2>3. QED
    BY <2>1, <2>2 DEF Told
<1>3. Crashed' = Crashed
  BY <1>1 DEF Crashed
<1>4. \A a \in Apps : SameStage(a)
  BY <1>1 DEF SameStage
<1>5. QED
  BY <1>1, <1>2, <1>3, <1>4, NoneMoves DEF Lifecycle!appVars, Crashed, Told

----------------------------------------------------------------------------
(* The other steps of an up session: the lifecycle sees nothing of them.     *)
Unseen ==
  UNCHANGED <<coord, known, running, given_up, respawned_once, to_host, subscribed>>

LEMMA UnseenStep ==
  ASSUME coord = "up", Unseen
  PROVE  UNCHANGED Lifecycle!appVars
<1>1. \A a \in Apps : SameStage(a)
  BY DEF Unseen, SameStage
<1>2. Crashed' = Crashed /\ Told' = Told
  BY RequestsKept DEF Unseen, Crashed, Told
<1>3. QED
  BY <1>1, <1>2, NoneMoves DEF Unseen, Lifecycle!appVars, Crashed, Told

(* Every message of the host is unseen, but for an announcement and for a    *)
(* window opened on a dormant application.                                   *)
LEMMA HostStepSeen ==
  ASSUME HostStep
  PROVE  \/ Unseen
         \/ \E a \in Apps : AppAnnounced(a) /\ UNCHANGED subscribed
         \/ \E w \in Windows, t \in Titles, s \in Sizes :
              WindowOpenedDormant(w, t, s) /\ UNCHANGED subscribed
<1>1. UNCHANGED <<given_up, coord, respawned_once, to_host>>
  BY HostStepKeeps
<1>2. subscribed' = subscribed
  BY DEF HostStep, HostAnnounces, HostOpens, HostOpenFails, HostResizes, HostRetitles,
     HostMinimizes, HostRestores, HostCloses, HostMaps, Announces, Opens, OpenFails, Resizes,
     Retitles, Minimizes, Restores, Closes, Maps, Becomes, streamVars
<1> DEFINE Kept == UNCHANGED <<known, running>>
<1>3. Kept => Unseen
  BY <1>1, <1>2 DEF Unseen
<1>4. UNCHANGED clientVars => Kept
  BY DEF clientVars, managerVars
<1>5. \A w, rec, frame : UpdateWindow(w, rec, frame) => Kept
  BY DEF UpdateWindow
<1>6. \A w \in Windows : OnWindowClosed(w) => Kept
  BY DEF OnWindowClosed
<1>7. \A w \in Windows, m \in Mappings : OnInputMapping(w, m) => Kept
  BY <1>5 DEF OnInputMapping, InputMappingKnown, InputMappingEarly
<1>8. \A w \in Windows, t \in Titles, s \in Sizes : WindowOpenedRunning(w, t, s) => Kept
  BY DEF WindowOpenedRunning
<1>9. ASSUME NEW a \in Apps, HostAnnounces(a) PROVE Kept \/ AppAnnounced(a)
  BY <1>4, <1>9 DEF HostAnnounces
<1>10. ASSUME NEW w \in Windows, HostOpens(w)
       PROVE  Kept \/ \E t \in Titles, s \in Sizes : WindowOpenedDormant(w, t, s)
  BY <1>4, <1>8, <1>10 DEF HostOpens, WindowOpenedDropped
<1>11. ASSUME NEW w \in Windows, HostResizes(w) \/ HostRetitles(w) PROVE Kept
  BY <1>4, <1>5, <1>11
     DEF HostResizes, HostRetitles, OnWindowResized, OnWindowTitleChanged, UpdateIgnored
<1>12. ASSUME NEW w \in Windows, HostMinimizes(w) \/ HostRestores(w) PROVE Kept
  BY <1>4, <1>5, <1>12
     DEF HostMinimizes, HostRestores, OnWindowMinimized, OnWindowRestored, UpdateIgnored
<1>13. ASSUME NEW w \in Windows, HostCloses(w) \/ HostMaps(w) \/ HostOpenFails(w) PROVE Kept
  BY <1>4, <1>6, <1>7, <1>13 DEF HostCloses, HostMaps, HostOpenFails
<1>14. Kept \/ (\E a \in Apps : AppAnnounced(a))
            \/ (\E w \in Windows, t \in Titles, s \in Sizes : WindowOpenedDormant(w, t, s))
  BY <1>9, <1>10, <1>11, <1>12, <1>13 DEF HostStep
<1>15. QED
  BY <1>2, <1>3, <1>14

(* A helper's message: input is passed on, which is no request.              *)
LEMMA HelperUpSeen ==
  ASSUME TypeOK, NEW p \in Pids, ManagerHears(p)
  PROVE  /\ UNCHANGED <<coord, known, running, given_up, respawned_once, subscribed>>
         /\ \A a \in Apps : RequestsFor(a)' = RequestsFor(a)
<1>1. /\ UNCHANGED <<coord, known, running, given_up, respawned_once, subscribed>>
      /\ up[p] # <<>>
  BY DEF ManagerHears, OnHelperUp, managerVars, streamVars
<1>2. CASE Head(up[p]).type = "Relay"
  <2>1. to_host' = Append(to_host, Head(up[p]))
    BY <1>2 DEF ManagerHears, OnHelperUp
  <2>2. Head(up[p]) \in ClientMessage
    BY <1>1, HeadTailProperties DEF TypeOK, HelperTypeOK, ClientMessage
  <2>3. QED
    BY <1>1, <1>2, <2>1, <2>2, RequestsAppended, RequestsDiffer
<1>3. CASE Head(up[p]).type # "Relay"
  BY <1>1, <1>3, RequestsKept DEF ManagerHears, OnHelperUp
<1>4. QED
  BY <1>2, <1>3

(* The steps that concern neither the host nor which helper runs.            *)
LEMMA OtherUnseen ==
  /\ UNCHANGED vars => Unseen
  /\ ManagerFinishes => Unseen
  /\ \A p \in Pids :
       HelperReads(p) \/ HelperLeaves(p) \/ UserActs(p) \/ HelperCrashes(p) => Unseen
  /\ \A w \in Windows : VideoArrives(w) => Unseen
BY DEF vars, clientVars, managerVars, streamVars, HelperReads, HelperLeaves, UserActs,
   HelperCrashes, VideoArrives, ForwardVideo, ManagerFinishes, FinishReplay, FinishOpen,
   FinishClose, Unseen

----------------------------------------------------------------------------
(* Every step of the client while the session stays up is a step of the      *)
(* lifecycle or a stutter.                                                   *)
LEMMA UpSessionStep ==
  ASSUME TypeOK, ClientInv, coord = "up", coord' = "up", [Next]_vars
  PROVE  Lifecycle!Next \/ UNCHANGED Lifecycle!appVars
<1>1. CASE Unseen
  BY <1>1, UnseenStep
<1>2. CASE HostStep
  <2>1. ASSUME NEW a \in Apps, AppAnnounced(a), UNCHANGED subscribed
        PROVE  Lifecycle!Next
    BY <2>1, AnnounceStep DEF Lifecycle!Next
  <2>2. QED
    BY <1>1, <1>2, <2>1, HostStepSeen, OpenedStep
<1>3. CASE HostReceives
  BY <1>3, ReceivesStep
<1>4. ASSUME NEW p \in Pids, ManagerHears(p)
      PROVE  UNCHANGED Lifecycle!appVars
  <2>1. /\ UNCHANGED <<coord, known, running, given_up, respawned_once, subscribed>>
        /\ \A a \in Apps : RequestsFor(a)' = RequestsFor(a)
    BY <1>4, HelperUpSeen
  <2>2. \A a \in Apps : SameStage(a)
    BY <2>1 DEF SameStage
  <2>3. Crashed' = Crashed /\ Told' = Told
    BY <2>1 DEF Crashed, Told
  <2>4. QED
    BY <2>2, <2>3, NoneMoves DEF Lifecycle!appVars, Crashed, Told
<1>5. ASSUME NEW p \in Pids, ManagerReaps(p)
      PROVE  Lifecycle!Next \/ UNCHANGED Lifecycle!appVars
  <2>1. UNCHANGED subscribed /\ p \in exits /\ OnHelperExited(p)
    BY <1>5 DEF ManagerReaps, streamVars, OnHelperExited, HelperDropped, HelperReaped,
       HelperRevived, HelperRespawned, ExitOf
  <2>2. PICK a \in Apps : a = app_id[p]
    BY <2>1, ExitBefore
  <2>3. CASE HelperDropped(p)
    BY <2>1, <2>2, <2>3, DroppedStep DEF Lifecycle!Next
  <2>4. CASE HelperReaped(p) \/ HelperRevived(p)
    BY <2>1, <2>2, <2>4, ReapedStep
  <2>5. CASE HelperRespawned(p)
    BY <2>1, <2>2, <2>5, ReplacedStep DEF Lifecycle!Next
  <2>6. QED
    BY <2>1, <2>3, <2>4, <2>5 DEF OnHelperExited
<1>6. CASE SessionEnds
  BY <1>6 DEF SessionEnds, Disconnected, CoordinatorExits
<1>7. QED
  BY <1>1, <1>2, <1>3, <1>4, <1>5, <1>6, OtherUnseen DEF Next

(* A session that is over is never up again, and nothing is promised of it.  *)
LEMMA OverSessionStep ==
  ASSUME [Next]_vars, coord' # "up" \/ coord # "up"
  PROVE  Lifecycle!End
<1>1. coord' # "up"
  BY SessionEndsOnly DEF SessionEnds, Disconnected, CoordinatorExits
<1>2. \A a \in Apps : StageOf(a)' \in Lifecycle!Stages
  BY DEF StageOf, Lifecycle!Stages
<1>3. QED
  BY <1>1, <1>2 DEF Lifecycle!End

(* The client implements the lifecycle it promises each application: at most *)
(* one replacement after a crash, no return from being dropped, and the host *)
(* told in the step that drops it.                                           *)
THEOREM ClientImplementsLifecycle == Spec => ImplementsLifecycle
<1>1. Init => Lifecycle!Init
  BY DEF Init, HelperInit, ManagerInit, StreamInit, Lifecycle!Init, StageOf, RequestsFor
<1>2. TypeOK /\ ClientInv /\ [Next]_vars => [Lifecycle!Next]_(Lifecycle!appVars)
  BY UpSessionStep, OverSessionStep DEF Lifecycle!Next
<1>3. QED
  BY <1>1, <1>2, TypeCorrect, TablesAgree, PTL DEF Spec, ImplementsLifecycle, Lifecycle!Spec

----------------------------------------------------------------------------
(* What keeps UnsubscribeOnce from step to step: of an application that was  *)
(* not given up nothing was asked, and the host still shares it.             *)
OneRequest(a) == \E i : RequestsFor(a) = {i}

Unsubscribed(a) ==
  IF given_up[a]
  THEN \/ OneRequest(a) /\ a \in subscribed
       \/ RequestsFor(a) = {} /\ a \notin subscribed
  ELSE RequestsFor(a) = {} /\ a \in subscribed

ToldInv == coord = "up" => \A a \in Apps : Unsubscribed(a)

LEMMA ToldInvStep == TypeOK /\ ClientInv /\ ToldInv /\ [Next]_vars => ToldInv'
<1>1. SUFFICES ASSUME TypeOK, ClientInv, [Next]_vars, coord = "up", coord' = "up",
                      NEW a \in Apps, Unsubscribed(a)
               PROVE  Unsubscribed(a)'
  BY SessionEndsOnly DEF ToldInv, SessionEnds, Disconnected, CoordinatorExits
<1>2. CASE /\ given_up'[a] = given_up[a] /\ subscribed' = subscribed
           /\ RequestsFor(a)' = RequestsFor(a)
  BY <1>1, <1>2 DEF Unsubscribed, OneRequest
<1>3. CASE Unseen
  BY <1>2, <1>3, RequestsKept DEF Unseen
<1>4. CASE HostStep
  BY <1>2, <1>3, <1>4, HostStepSeen, HostStepKeeps, RequestsKept
<1>5. ASSUME NEW p \in Pids, ManagerHears(p)
      PROVE  Unsubscribed(a)'
  BY <1>1, <1>2, <1>5, HelperUpSeen
<1>6. CASE HostReceives
  <2>1. /\ to_host # <<>> /\ to_host' = Tail(to_host) /\ given_up' = given_up
    BY <1>6 DEF HostReceives, managerVars
  <2>2. /\ \A i : i \in RequestsFor(a)' <=> i \in Nat \ {0} /\ i + 1 \in RequestsFor(a)
        /\ 1 \in RequestsFor(a) <=> Head(to_host) = UnsubscribeApp(a)
    BY <1>1, <2>1, RequestsTaken
  <2>3. RequestsFor(a) \subseteq Nat \ {0}
    BY <1>1, QueueToHost DEF RequestsFor
  <2>4. CASE Head(to_host) = UnsubscribeApp(a)
    <3>1. subscribed' = subscribed \ {a}
      BY <1>6, <2>4 DEF HostReceives, Drops, UnsubscribeApp
    <3>2. RequestsFor(a) = {1} /\ given_up[a]
      BY <1>1, <2>2, <2>4 DEF Unsubscribed, OneRequest
    <3>3. RequestsFor(a)' = {}
      BY <2>2, <3>2
    <3>4. QED
      BY <2>1, <3>1, <3>2, <3>3 DEF Unsubscribed
  <2>5. CASE Head(to_host) # UnsubscribeApp(a)
    <3>1. a \in subscribed' <=> a \in subscribed
      <4>1. CASE Head(to_host).type = "UnsubscribeApp"
        <5>1. Head(to_host) \in ClientMessage
          BY <1>1, <2>1, QueueToHost, HeadTailProperties
        <5>2. PICK b \in Apps : Head(to_host) = UnsubscribeApp(b)
          BY <4>1, <5>1 DEF ClientMessage, UpMessage, Relay, DecodeProgress
        <5>3. subscribed' = subscribed \ {b}
          BY <1>6, <4>1, <5>2 DEF HostReceives, Drops, UnsubscribeApp
        <5>4. QED
          BY <2>5, <5>2, <5>3
      <4>2. CASE Head(to_host).type # "UnsubscribeApp"
        BY <1>6, <4>2 DEF HostReceives, streamVars
      <4>3. QED
        BY <4>1, <4>2
    <3>2. RequestsFor(a) = {} => RequestsFor(a)' = {}
      BY <2>2
    <3>3. ASSUME NEW i, RequestsFor(a) = {i}
          PROVE  RequestsFor(a)' = {i - 1}
      <4>1. i \in Nat \ {0} /\ i # 1
        BY <2>2, <2>3, <2>5, <3>3
      <4>2. \A j : j \in RequestsFor(a)' <=> j \in Nat \ {0} /\ j + 1 = i
        BY <2>2, <3>3
      <4>3. QED
        BY <4>1, <4>2
    <3>4. OneRequest(a) => OneRequest(a)'
      BY <3>3 DEF OneRequest
    <3>5. QED
      BY <1>1, <2>1, <3>1, <3>2, <3>4 DEF Unsubscribed
  <2>6. QED
    BY <2>4, <2>5
<1>7. ASSUME NEW p \in Pids, ManagerReaps(p)
      PROVE  Unsubscribed(a)'
  <2>1. UNCHANGED subscribed /\ p \in exits /\ OnHelperExited(p)
    BY <1>7 DEF ManagerReaps, streamVars, OnHelperExited, HelperDropped, HelperReaped,
       HelperRevived, HelperRespawned, ExitOf
  <2>2. CASE HelperDropped(p)
    <3>1. /\ given_up' = [given_up EXCEPT ![app_id[p]] = TRUE]
          /\ to_host' = Append(to_host, UnsubscribeApp(app_id[p]))
      BY <2>2 DEF HelperDropped, GiveUpApp
    <3>2. app_id[p] \in Apps /\ ~given_up[app_id[p]]
      BY <1>1, <2>1, ExitBefore, OnlyProcess
    <3>3. UnsubscribeApp(app_id[p]) \in ClientMessage
      BY <3>2 DEF ClientMessage
    <3>4. CASE a = app_id[p]
      <4>1. RequestsFor(a) = {} /\ a \in subscribed
        BY <1>1, <3>2, <3>4 DEF Unsubscribed
      <4>2. RequestsFor(a)' = {Len(to_host) + 1}
        BY <1>1, <3>1, <3>3, <3>4, <4>1, RequestsAppended
      <4>3. given_up'[a]
        BY <1>1, <3>1, <3>4 DEF TypeOK, ManagerTypeOK
      <4>4. QED
        BY <2>1, <4>1, <4>2, <4>3 DEF Unsubscribed, OneRequest
    <3>5. CASE a # app_id[p]
      <4>1. given_up'[a] = given_up[a]
        BY <1>1, <3>1, <3>5 DEF TypeOK, ManagerTypeOK
      <4>2. RequestsFor(a)' = RequestsFor(a)
        BY <1>1, <3>1, <3>3, <3>5, RequestsAppended, RequestsDiffer
      <4>3. QED
        BY <1>2, <2>1, <4>1, <4>2
    <3>6. QED
      BY <3>4, <3>5
  <2>3. CASE HelperReaped(p) \/ HelperRevived(p) \/ HelperRespawned(p)
    <3>1. UNCHANGED <<given_up, to_host>>
      BY <2>3 DEF HelperReaped, HelperRevived, HelperRespawned
    <3>2. QED
      BY <1>2, <2>1, <3>1, RequestsKept
  <2>4. QED
    BY <2>1, <2>2, <2>3 DEF OnHelperExited
<1>8. CASE SessionEnds
  BY <1>1, <1>8 DEF SessionEnds, Disconnected, CoordinatorExits
<1>9. QED
  BY <1>1, <1>3, <1>4, <1>5, <1>6, <1>7, <1>8, OtherUnseen DEF Next

(* The host stops sharing an application exactly when the client gave it up, *)
(* and is told so once.                                                      *)
THEOREM UnsubscribedOnce == Spec => []UnsubscribeOnce
<1>1. Init => ToldInv
  <2>1. to_host = <<>> => \A a \in Apps : RequestsFor(a) = {}
    BY DEF RequestsFor
  <2>2. QED
    BY <2>1 DEF Init, ManagerInit, StreamInit, ToldInv, Unsubscribed
<1>2. ToldInv => UnsubscribeOnce
  <2>1. \A a \in Apps : OneRequest(a) => Cardinality(RequestsFor(a)) = 1 /\ RequestsFor(a) # {}
    BY FS_Singleton DEF OneRequest
  <2>2. \A a \in Apps : RequestsFor(a) = {} => Cardinality(RequestsFor(a)) # 1
    BY FS_EmptySet
  <2>3. SUFFICES ASSUME ToldInv, coord = "up", NEW a \in Apps
                 PROVE  given_up[a] <=> \/ Cardinality(RequestsFor(a)) = 1 /\ a \in subscribed
                                        \/ RequestsFor(a) = {} /\ a \notin subscribed
    BY Zenon DEF UnsubscribeOnce
  <2>4. Unsubscribed(a)
    BY <2>3 DEF ToldInv
  <2>5. CASE given_up[a]
    BY <2>1, <2>4, <2>5, Zenon DEF Unsubscribed
  <2>6. CASE ~given_up[a]
    BY <2>2, <2>4, <2>6, Zenon DEF Unsubscribed
  <2>7. QED
    BY <2>5, <2>6
<1>3. QED
  BY <1>1, <1>2, ToldInvStep, TypeCorrect, TablesAgree, PTL DEF Spec
=============================================================================
