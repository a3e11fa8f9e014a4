---------------------------- MODULE ClientProofs ----------------------------
(* The client session, for every value of the constants: its type            *)
(* correctness; ClientInv is inductive; and what follows from it, one helper *)
(* per application, tracks routed to the helper that shows them, and the     *)
(* finality of giving an application up.  One lemma per group of handlers.   *)
EXTENDS ClientInvariant, SequenceTheorems, TLAPS

(* Queues of one table stay queues when an element is added to one of them.  *)
LEMMA AppendToQueue ==
  ASSUME NEW S, NEW K, NEW f \in [K -> Seq(S)], NEW k \in K, NEW e \in S
  PROVE  [f EXCEPT ![k] = Append(@, e)] \in [K -> Seq(S)]
<1>1. Append(f[k], e) \in Seq(S)
  BY AppendProperties
<1>2. QED
  BY <1>1

LEMMA TailOfQueue ==
  ASSUME NEW S, NEW K, NEW f \in [K -> Seq(S)], NEW k \in K, f[k] # <<>>
  PROVE  /\ Head(f[k]) \in S
         /\ [f EXCEPT ![k] = Tail(@)] \in [K -> Seq(S)]
<1>1. Head(f[k]) \in S /\ Tail(f[k]) \in Seq(S)
  BY HeadTailProperties
<1>2. QED
  BY <1>1

(* A helper forked for an application keeps the process table well typed.    *)
LEMMA ForkType ==
  ASSUME NEW p \in Pids, NEW a \in Apps, NEW frames,
         HelperTypeOK, Fork(p, a, frames), exits' \subseteq exits
  PROVE  HelperTypeOK'
BY DEF HelperTypeOK, Fork, Option, Unreaped, Alive, Free

(* So does queueing frames for one.                                          *)
LEMMA SendDownType ==
  ASSUME NEW p, NEW frames, HelperTypeOK, SendDown(p, frames), exits' \subseteq exits
  PROVE  HelperTypeOK'
BY DEF HelperTypeOK, SendDown, Option, Unreaped, Alive

(* So does every step of a helper or of its user.                            *)
LEMMA DieType ==
  ASSUME NEW p \in Pids, HelperTypeOK, Alive(p), Die(p), exit_reason' \in [Pids -> Option(ExitReasons)]
  PROVE  HelperTypeOK'
<1>1. PICK n \in 0..Len(up[p]) : up' = [up EXCEPT ![p] = SubSeq(@, 1, n)]
  BY DEF Die
<1>2. up[p] \in Seq(UpMessage)
  BY DEF HelperTypeOK
<1>3. SubSeq(up[p], 1, n) \in Seq(UpMessage)
  BY <1>2, SubSeqProperties
<1>4. QED
  BY <1>1, <1>3 DEF HelperTypeOK, Die, Option, Unreaped, Alive

LEMMA HelperReadsType ==
  ASSUME NEW p \in Pids, HelperTypeOK, HelperReads(p)
  PROVE  HelperTypeOK'
<1>1. CASE DrainControl(p)
  BY <1>1 DEF HelperTypeOK, DrainControl, RequestExit, Option, ExitReasons, Unreaped, Alive
<1>2. CASE CreateWindowFails(p)
  BY <1>2 DEF HelperTypeOK, CreateWindowFails, Unreaped, Alive
<1>3. CASE DecodeVideo(p)
  <2>1. PICK w \in Windows : \/ up' = [up EXCEPT ![p] = Append(@, DecodeProgress(w))]
                             \/ UNCHANGED up
    BY <1>3 DEF DecodeVideo
  <2>2. DecodeProgress(w) \in UpMessage
    BY DEF UpMessage
  <2>3. up' \in [Pids -> Seq(UpMessage)]
    <3>1. CASE up' = [up EXCEPT ![p] = Append(@, DecodeProgress(w))]
      BY <3>1, <2>2, AppendToQueue DEF HelperTypeOK
    <3>2. CASE UNCHANGED up
      BY <3>2 DEF HelperTypeOK
    <3>3. QED
      BY <2>1, <3>1, <3>2
  <2>4. QED
    BY <1>3, <2>3 DEF HelperTypeOK, DecodeVideo, Unreaped, Alive
<1>4. CASE DecoderPanics(p)
  BY <1>4 DEF HelperTypeOK, DecoderPanics, Unreaped, Alive
<1>5. CASE ReadEof(p, ~ChannelHeld(p))
  BY <1>5 DEF HelperTypeOK, ReadEof, RequestExit, Option, ExitReasons, Unreaped, Alive
<1>6. QED
  BY <1>1, <1>2, <1>3, <1>4, <1>5 DEF HelperReads

LEMMA UserActsType ==
  ASSUME NEW p \in Pids, HelperTypeOK, UserActs(p)
  PROVE  HelperTypeOK'
<1>1. CASE UserQuits(p)
  BY <1>1 DEF HelperTypeOK, UserQuits, RequestExit, Option, ExitReasons, Unreaped, Alive
<1>2. ASSUME NEW w \in Windows, UserInput(p, w)
      PROVE  HelperTypeOK'
  <2>1. Relay(w) \in UpMessage
    BY DEF UpMessage
  <2>2. up' \in [Pids -> Seq(UpMessage)]
    BY <1>2, <2>1, AppendToQueue DEF HelperTypeOK, UserInput
  <2>3. QED
    BY <1>2, <2>2 DEF HelperTypeOK, UserInput, Unreaped, Alive
<1>3. QED
  BY <1>1, <1>2 DEF UserActs

LEMMA HelperLeavesType ==
  ASSUME NEW p \in Pids, HelperTypeOK, HelperLeaves(p)
  PROVE  HelperTypeOK'
BY DieType DEF HelperLeaves, LeaveLoop, HelperTypeOK, Alive

LEMMA HelperCrashesType ==
  ASSUME NEW p \in Pids, HelperTypeOK, HelperCrashes(p)
  PROVE  HelperTypeOK'
<1>1. exit_reason' \in [Pids -> Option(ExitReasons)]
  BY DEF HelperCrashes, Crash, HelperTypeOK, Option, ExitReasons
<1>2. QED
  BY <1>1, DieType DEF HelperCrashes, Crash

(* A spawn with replay keeps everything it changes well typed.               *)
LEMMA SpawnAndReplayType ==
  ASSUME NEW a \in Apps, NEW ws, HelperTypeOK, ManagerTypeOK,
         SpawnAndReplay(a, ws), DOMAIN ws = Windows, exits' \subseteq exits
  PROVE  /\ HelperTypeOK'
         /\ running' \in [Apps -> Option(Pids)]
         /\ routes' \in [Windows -> Option(Pids)]
         /\ progress' \in [Windows -> Option(Pids)]
         /\ handler' \in {"idle", "opening", "closing", "replaying"}
         /\ about' \subseteq Windows
<1>0. /\ routes' \in [Windows -> Option(Pids)]
      /\ progress' \in [Windows -> Option(Pids)]
  BY DEF SpawnAndReplay, routerVars, ManagerTypeOK
<1>1. ASSUME NEW p \in Pids,
             Fork(p, a, ReplayFrames(a, ws)),
             running' = [running EXCEPT ![a] = p],
             handler' = "replaying", about' = Present(ws)
      PROVE  /\ HelperTypeOK'
             /\ running' \in [Apps -> Option(Pids)]
             /\ handler' \in {"idle", "opening", "closing", "replaying"}
             /\ about' \subseteq Windows
  <2>1. HelperTypeOK'
    BY <1>1, ForkType
  <2>2. QED
    BY <1>1, <2>1 DEF ManagerTypeOK, Option, Present
<1>2. CASE /\ running' = [running EXCEPT ![a] = None]
           /\ UNCHANGED <<app_id, phase, exit_reason, reader, down, up, world, quit,
                          handler, about>>
  <2>1. HelperTypeOK'
    BY <1>2 DEF HelperTypeOK, Unreaped, Alive
  <2>2. QED
    BY <1>0, <1>2, <2>1 DEF ManagerTypeOK, Option
<1>3. QED
  BY <1>0, <1>1, <1>2 DEF SpawnAndReplay

(* The manager's part of the invariant, when everything it reads is typed.   *)
LEMMA AppAnnouncedType ==
  ASSUME NEW a \in Apps, HelperTypeOK, ManagerTypeOK, AppAnnounced(a)
  PROVE  HelperTypeOK' /\ ManagerTypeOK'
<1>1. exits' \subseteq exits
  BY DEF AppAnnounced
<1>2. ASSUME NEW p \in Pids, Fork(p, a, IconFrames(a)), running' = [running EXCEPT ![a] = p]
      PROVE  HelperTypeOK' /\ ManagerTypeOK'
  <2>1. HelperTypeOK'
    BY <1>1, <1>2, ForkType
  <2>2. running' \in [Apps -> Option(Pids)]
    BY <1>2 DEF ManagerTypeOK, Option
  <2>3. QED
    BY <2>1, <2>2 DEF AppAnnounced, ManagerTypeOK, routerVars
<1>3. CASE UNCHANGED <<app_id, phase, exit_reason, reader, down, up, world, quit, running>>
  BY <1>3 DEF AppAnnounced, ManagerTypeOK, HelperTypeOK, routerVars, Unreaped, Alive
<1>4. QED
  BY <1>2, <1>3 DEF AppAnnounced

LEMMA RecordWindowType ==
  ASSUME NEW w \in Windows, NEW t \in Titles, NEW s \in Sizes,
         ManagerTypeOK, RecordWindow(w, t, s)
  PROVE  /\ windows' \in [Apps -> [Windows -> Option(WindowReplay)]]
         /\ app_of_window' \in [Windows -> Option(Apps)]
         /\ app_of_track' \in [Windows -> Option(Apps)]
<1>1. Owner[w] \in Apps
  BY DataAssumption
<1>2. NewRecord(w, t, s) \in WindowReplay
  BY DEF NewRecord, OpenedReplay, WindowReplay, ManagerTypeOK
<1>3. windows' \in [Apps -> [Windows -> Option(WindowReplay)]]
  <2>1. windows' = [windows EXCEPT ![Owner[w]][w] = NewRecord(w, t, s)]
    BY DEF RecordWindow
  <2>2. windows \in [Apps -> [Windows -> Option(WindowReplay)]]
    BY DEF ManagerTypeOK
  <2>3. NewRecord(w, t, s) \in Option(WindowReplay)
    BY <1>2 DEF Option
  <2>4. QED
    BY <1>1, <2>1, <2>2, <2>3
<1>4. /\ app_of_window' \in [Windows -> Option(Apps)]
      /\ app_of_track' \in [Windows -> Option(Apps)]
  BY <1>1 DEF RecordWindow, ManagerTypeOK, Option
<1>5. QED
  BY <1>3, <1>4

(* Setting routes to running helpers keeps the router well typed.            *)
LEMMA RouteTracksType ==
  ASSUME NEW ws, ManagerTypeOK, RouteTracks(ws)
  PROVE  routes' \in [Windows -> Option(Pids)]
<1>1. \A w \in Windows : Owner[w] \in Apps
  BY DataAssumption
<1>2. QED
  BY <1>1 DEF RouteTracks, ManagerTypeOK

LEMMA OpenCallType ==
  ASSUME NEW w \in Windows, NEW rec, NEW call, HelperTypeOK, ManagerTypeOK,
         OpenCall(w, rec, call)
  PROVE  HelperTypeOK' /\ routes' \in [Windows -> Option(Pids)]
<1>1. CASE /\ Forward(Owner[w], <<WindowOpened(w, rec.title, rec.size)>>
                  \o (IF rec.mapping # None THEN <<InputMapping(w, rec.mapping)>> ELSE <<>>))
           /\ UNCHANGED <<exits, routes>>
  <2>1. HelperTypeOK'
    BY <1>1, SendDownType DEF Forward
  <2>2. QED
    BY <1>1, <2>1 DEF ManagerTypeOK
<1>2. CASE RouteTracks({w}) /\ UNCHANGED helperVars
  BY <1>2, RouteTracksType DEF helperVars, HelperTypeOK, Unreaped, Alive
<1>3. QED
  BY <1>1, <1>2 DEF OpenCall

LEMMA WindowOpenedType ==
  ASSUME NEW w \in Windows, NEW t \in Titles, NEW s \in Sizes,
         HelperTypeOK, ManagerTypeOK,
         WindowOpenedDormant(w, t, s) \/ WindowOpenedRunning(w, t, s)
  PROVE  HelperTypeOK' /\ ManagerTypeOK'
<1>0. Owner[w] \in Apps
  BY DataAssumption
<1>1. CASE WindowOpenedDormant(w, t, s)
  <2>1. RecordWindow(w, t, s) /\ exits' \subseteq exits
    BY <1>1 DEF WindowOpenedDormant, AcceptsWindows, Dormant
  <2>2. /\ HelperTypeOK'
        /\ running' \in [Apps -> Option(Pids)]
        /\ routes' \in [Windows -> Option(Pids)]
        /\ progress' \in [Windows -> Option(Pids)]
        /\ handler' \in {"idle", "opening", "closing", "replaying"}
        /\ about' \subseteq Windows
    <3>1. DOMAIN [windows[Owner[w]] EXCEPT ![w] = NewRecord(w, t, s)] = Windows
      BY <1>0 DEF ManagerTypeOK
    <3>2. QED
      BY <1>0, <1>1, <2>1, <3>1, SpawnAndReplayType DEF WindowOpenedDormant
  <2>3. QED
    BY <1>1, <2>1, <2>2, RecordWindowType DEF WindowOpenedDormant, AcceptsWindows, Dormant, ManagerTypeOK
<1>2. CASE WindowOpenedRunning(w, t, s)
  <2>1. RecordWindow(w, t, s) /\ OpenCall(w, NewRecord(w, t, s), "announce")
    BY <1>2 DEF WindowOpenedRunning, OpenOrder
  <2>2. HelperTypeOK' /\ routes' \in [Windows -> Option(Pids)]
    BY <2>1, OpenCallType
  <2>3. /\ pending_mappings' \in [Windows -> Option(Mappings)]
        /\ handler' \in {"idle", "opening", "closing", "replaying"}
        /\ about' \subseteq Windows
    BY <1>0, <1>2 DEF WindowOpenedRunning, ManagerTypeOK, Option
  <2>4. QED
    BY <1>2, <2>1, <2>2, <2>3, RecordWindowType DEF WindowOpenedRunning, AcceptsWindows, Dormant, ManagerTypeOK
<1>3. QED
  BY <1>1, <1>2

(* An update is typed when the record it stores is.                          *)
LEMMA UpdateWindowType ==
  ASSUME NEW w \in Windows, NEW rec, NEW frame,
         HelperTypeOK, ManagerTypeOK, UpdateWindow(w, rec, frame),
         Recorded(w) \in WindowReplay => rec \in WindowReplay
  PROVE  HelperTypeOK' /\ ManagerTypeOK'
<1>1. app_of_window[w] \in Apps
  BY DEF UpdateWindow, ManagerTypeOK, Option
<1>2. windows' \in [Apps -> [Windows -> Option(WindowReplay)]]
  <2>1. CASE Recorded(w) # None
    <3>1. Recorded(w) \in WindowReplay
      BY <1>1, <2>1 DEF Recorded, ManagerTypeOK, Option
    <3>2. windows' = [windows EXCEPT ![app_of_window[w]][w] = rec]
      BY <2>1 DEF UpdateWindow, Recorded
    <3>3. QED
      BY <1>1, <3>1, <3>2 DEF ManagerTypeOK, Option
  <2>2. CASE Recorded(w) = None
    BY <2>2 DEF UpdateWindow, ManagerTypeOK, Recorded
  <2>3. QED
    BY <2>1, <2>2
<1>3. exits' \subseteq exits
  BY DEF UpdateWindow
<1>4. HelperTypeOK'
  BY <1>3, SendDownType DEF UpdateWindow, Forward
<1>5. QED
  BY <1>2, <1>4 DEF UpdateWindow, ManagerTypeOK, routerVars

(* Neither half of closing a window leaves a table badly typed.              *)
LEMMA CloseCallType ==
  ASSUME NEW w \in Windows, NEW call, HelperTypeOK, ManagerTypeOK, CloseCall(w, call)
  PROVE  /\ HelperTypeOK'
         /\ windows' \in [Apps -> [Windows -> Option(WindowReplay)]]
         /\ app_of_window' \in [Windows -> Option(Apps)]
         /\ app_of_track' \in [Windows -> Option(Apps)]
         /\ routes' \in [Windows -> Option(Pids)]
         /\ progress' \in [Windows -> Option(Pids)]
<1> DEFINE a == app_of_window[w]
<1>1. CASE /\ routes' = [routes EXCEPT ![w] = None]
           /\ progress' = [progress EXCEPT ![w] = None]
           /\ UNCHANGED <<helperVars, windows, app_of_window, app_of_track>>
  BY <1>1 DEF helperVars, HelperTypeOK, ManagerTypeOK, Option, Unreaped, Alive
<1>2. CASE /\ Forward(a, <<WindowClosed(w)>>)
           /\ windows' = [windows EXCEPT ![a][w] = None]
           /\ app_of_window' = [app_of_window EXCEPT ![w] = None]
           /\ app_of_track' = IF windows[a][w] # None THEN [app_of_track EXCEPT ![w] = None]
                              ELSE app_of_track
           /\ UNCHANGED <<exits, routerVars>>
  <2>1. HelperTypeOK'
    BY <1>2, SendDownType DEF Forward
  <2>2. windows' \in [Apps -> [Windows -> Option(WindowReplay)]]
    BY <1>2 DEF ManagerTypeOK, Option
  <2>3. QED
    BY <1>2, <2>1, <2>2 DEF ManagerTypeOK, Option, routerVars
<1>3. QED
  BY <1>1, <1>2 DEF CloseCall

LEMMA OnWindowClosedType ==
  ASSUME NEW w \in Windows, HelperTypeOK, ManagerTypeOK, OnWindowClosed(w)
  PROVE  HelperTypeOK' /\ ManagerTypeOK'
<1>1. pending_mappings' \in [Windows -> Option(Mappings)]
  BY DEF OnWindowClosed, ManagerTypeOK, Option
<1>2. CASE app_of_window[w] = None
  BY <1>1, <1>2 DEF OnWindowClosed, HelperTypeOK, ManagerTypeOK, helperVars, routerVars,
                      Unreaped, Alive
<1>3. CASE app_of_window[w] # None
  <2>1. CloseCall(w, CloseOrder[1]) /\ handler' = "closing" /\ about' = {w}
    BY <1>3 DEF OnWindowClosed
  <2>2. QED
    BY <1>1, <2>1, CloseCallType DEF OnWindowClosed, ManagerTypeOK
<1>4. QED
  BY <1>2, <1>3

(* The second half of a handler.                                             *)
LEMMA ManagerFinishesType ==
  ASSUME HelperTypeOK, ManagerTypeOK, ManagerFinishes
  PROVE  HelperTypeOK' /\ ManagerTypeOK'
<1>1. CASE FinishReplay
  <2>1. routes' \in [Windows -> Option(Pids)]
    BY <1>1, RouteTracksType DEF FinishReplay
  <2>2. progress' \in [Windows -> Option(Pids)]
    BY <1>1 DEF FinishReplay, ManagerTypeOK, Option
  <2>3. QED
    BY <1>1, <2>1, <2>2 DEF FinishReplay, Return, helperVars, HelperTypeOK, ManagerTypeOK,
       Unreaped, Alive
<1>2. ASSUME NEW w \in Windows, FinishOpen(w)
      PROVE  HelperTypeOK' /\ ManagerTypeOK'
  <2>1. HelperTypeOK' /\ routes' \in [Windows -> Option(Pids)]
    BY <1>2, OpenCallType DEF FinishOpen
  <2>2. QED
    BY <1>2, <2>1 DEF FinishOpen, Return, ManagerTypeOK
<1>3. ASSUME NEW w \in Windows, FinishClose(w)
      PROVE  HelperTypeOK' /\ ManagerTypeOK'
  <2>1. CloseCall(w, CloseOrder[2])
    BY <1>3 DEF FinishClose
  <2>2. QED
    BY <1>3, <2>1, CloseCallType DEF FinishClose, Return, ManagerTypeOK
<1>4. QED
  BY <1>1, <1>2, <1>3 DEF ManagerFinishes

LEMMA InputMappingType ==
  ASSUME NEW w \in Windows, NEW m \in Mappings, HelperTypeOK, ManagerTypeOK,
         OnInputMapping(w, m)
  PROVE  HelperTypeOK' /\ ManagerTypeOK'
<1>1. CASE InputMappingKnown(w, m)
  <2>1. Recorded(w) \in WindowReplay => [Recorded(w) EXCEPT !.mapping = m] \in WindowReplay
    BY DEF WindowReplay, Option
  <2>2. QED
    BY <1>1, <2>1, UpdateWindowType DEF InputMappingKnown
<1>2. CASE InputMappingEarly(w, m)
  BY <1>2 DEF InputMappingEarly, HelperTypeOK, ManagerTypeOK, helperVars, routerVars,
              Option, Unreaped, Alive
<1>3. QED
  BY <1>1, <1>2 DEF OnInputMapping

LEMMA OnHelperUpType ==
  ASSUME NEW p \in Pids, HelperTypeOK, ManagerTypeOK, OnHelperUp(p)
  PROVE  HelperTypeOK' /\ ManagerTypeOK'
<1>1. /\ Head(up[p]) \in UpMessage
      /\ up' \in [Pids -> Seq(UpMessage)]
  <2>1. up \in [Pids -> Seq(UpMessage)] /\ up[p] # <<>>
    BY DEF OnHelperUp, HelperTypeOK
  <2>2. QED
    BY <2>1, TailOfQueue DEF OnHelperUp
<1>2. HelperTypeOK'
  BY <1>1 DEF OnHelperUp, HelperTypeOK, Unreaped, Alive
<1>3. to_host' \in Seq(UpMessage \cup {UnsubscribeApp(a) : a \in Apps})
  <2>1. to_host \in Seq(UpMessage \cup {UnsubscribeApp(a) : a \in Apps})
    BY DEF ManagerTypeOK
  <2>2. to_host' = to_host \/ to_host' = Append(to_host, Head(up[p]))
    BY DEF OnHelperUp
  <2>3. QED
    BY <1>1, <2>1, <2>2, AppendProperties
<1>4. progress' \in [Windows -> Option(Pids)]
  <2>1. progress' = progress \/ progress' = [progress EXCEPT ![Head(up[p]).window] = p]
    BY DEF OnHelperUp
  <2>2. QED
    BY <2>1 DEF ManagerTypeOK, Option
<1>5. QED
  BY <1>2, <1>3, <1>4 DEF OnHelperUp, ManagerTypeOK, managerVars

LEMMA HelperDroppedType ==
  ASSUME NEW p \in Pids, HelperTypeOK, ManagerTypeOK, HelperDropped(p)
  PROVE  HelperTypeOK' /\ ManagerTypeOK'
<1>1. p \in exits /\ exits' = exits \ {p}
  BY DEF HelperDropped, ExitOf
<1>2. app_id[p] \in Apps
  BY <1>1 DEF HelperTypeOK, Unreaped
<1>3. GiveUpApp(app_id[p])
  BY DEF HelperDropped
<1>4. HelperTypeOK'
  BY <1>1 DEF HelperDropped, HelperTypeOK, Unreaped, Alive
<1>5. to_host' \in Seq(UpMessage \cup {UnsubscribeApp(a) : a \in Apps})
  BY <1>2, <1>3, AppendProperties DEF GiveUpApp, DropAppWindows, ManagerTypeOK
<1>6. windows' \in [Apps -> [Windows -> Option(WindowReplay)]]
  BY <1>2, <1>3 DEF GiveUpApp, DropAppWindows, ManagerTypeOK, Option
<1>7. /\ running' \in [Apps -> Option(Pids)]
      /\ given_up' \in [Apps -> BOOLEAN]
  BY <1>2, <1>3 DEF GiveUpApp, DropAppWindows, ManagerTypeOK, Option
<1>8. /\ app_of_window' \in [Windows -> Option(Apps)]
      /\ app_of_track' \in [Windows -> Option(Apps)]
      /\ routes' \in [Windows -> Option(Pids)]
      /\ progress' \in [Windows -> Option(Pids)]
  BY <1>3 DEF GiveUpApp, DropAppWindows, ManagerTypeOK, Option
<1>9. QED
  BY <1>4, <1>5, <1>6, <1>7, <1>8 DEF HelperDropped, ManagerTypeOK

LEMMA OnHelperExitedType ==
  ASSUME NEW p \in Pids, HelperTypeOK, ManagerTypeOK, OnHelperExited(p)
  PROVE  HelperTypeOK' /\ ManagerTypeOK'
<1>1. p \in exits /\ exits' = exits \ {p}
  BY DEF OnHelperExited, HelperDropped, HelperReaped, HelperRevived, HelperRespawned, ExitOf
<1>2. app_id[p] \in Apps
  BY <1>1 DEF HelperTypeOK, Unreaped
<1>3. CASE HelperDropped(p)
  BY <1>3, HelperDroppedType
<1>4. CASE HelperReaped(p)
  <2>1. running' \in [Apps -> Option(Pids)]
    BY <1>4, <1>2 DEF HelperReaped, ManagerTypeOK, Option
  <2>2. QED
    BY <1>1, <1>4, <2>1
       DEF HelperReaped, HelperTypeOK, ManagerTypeOK, routerVars, Unreaped, Alive
<1>5. CASE HelperRevived(p)
  <2>1. SpawnAndReplay(app_id[p], windows[app_id[p]])
    BY <1>5 DEF HelperRevived
  <2>2. QED
    BY <1>1, <1>2, <1>5, <2>1, SpawnAndReplayType DEF HelperRevived, ManagerTypeOK
<1>6. CASE HelperRespawned(p)
  <2>1. /\ SpawnAndReplay(app_id[p], windows[app_id[p]])
        /\ respawned_once' \in [Apps -> BOOLEAN]
    BY <1>6 DEF HelperRespawned, ManagerTypeOK
  <2>2. QED
    BY <1>1, <1>2, <1>6, <2>1, SpawnAndReplayType DEF HelperRespawned, ManagerTypeOK
<1>7. QED
  BY <1>3, <1>4, <1>5, <1>6 DEF OnHelperExited

(* Every message of the host leaves the state well typed.                    *)
LEMMA HostStepType ==
  ASSUME TypeOK, HostStep
  PROVE  TypeOK'
<1>1. HelperTypeOK /\ ManagerTypeOK
  BY DEF TypeOK
<1>2. UNCHANGED clientVars => HelperTypeOK' /\ ManagerTypeOK'
  BY <1>1 DEF clientVars, helperVars, managerVars, routerVars, HelperTypeOK, ManagerTypeOK,
              Unreaped, Alive
<1>3. ASSUME NEW a \in Apps, HostAnnounces(a)
      PROVE  TypeOK'
  BY <1>1, <1>2, <1>3, AppAnnouncedType DEF HostAnnounces, Announces, TypeOK
<1>4. ASSUME NEW w \in Windows,
             \/ HostOpens(w) \/ HostOpenFails(w) \/ HostResizes(w) \/ HostRetitles(w)
             \/ HostMinimizes(w) \/ HostRestores(w) \/ HostCloses(w) \/ HostMaps(w)
      PROVE  TypeOK'
  <2>1. CASE HostOpens(w)
    <3>1. HelperTypeOK' /\ ManagerTypeOK'
      BY <1>1, <1>2, <2>1, WindowOpenedType DEF HostOpens, WindowOpenedDropped
    <3>2. QED
      BY <2>1, <3>1 DEF HostOpens, Opens, OpenFails, Becomes, WindowStates, TypeOK
  <2>2. CASE HostResizes(w)
    <3>1. ASSUME NEW s \in Sizes
          PROVE  Recorded(w) \in WindowReplay => [Recorded(w) EXCEPT !.size = s] \in WindowReplay
      BY <3>1 DEF WindowReplay
    <3>2. HelperTypeOK' /\ ManagerTypeOK'
      BY <1>1, <1>2, <2>2, <3>1, UpdateWindowType
         DEF HostResizes, OnWindowResized, UpdateIgnored
    <3>3. QED
      BY <2>2, <3>2 DEF HostResizes, Resizes, TypeOK, streamVars
  <2>3. CASE HostRetitles(w)
    <3>1. ASSUME NEW t \in Titles
          PROVE  Recorded(w) \in WindowReplay => [Recorded(w) EXCEPT !.title = t] \in WindowReplay
      BY <3>1 DEF WindowReplay
    <3>2. HelperTypeOK' /\ ManagerTypeOK'
      BY <1>1, <1>2, <2>3, <3>1, UpdateWindowType
         DEF HostRetitles, OnWindowTitleChanged, UpdateIgnored
    <3>3. QED
      BY <2>3, <3>2 DEF HostRetitles, Retitles, TypeOK, streamVars
  <2>4. ASSUME NEW b \in BOOLEAN
        PROVE  Recorded(w) \in WindowReplay => [Recorded(w) EXCEPT !.minimized = b] \in WindowReplay
    BY <2>4 DEF WindowReplay
  <2>5. CASE HostMinimizes(w)
    <3>1. HelperTypeOK' /\ ManagerTypeOK'
      BY <1>1, <1>2, <2>4, <2>5, UpdateWindowType
         DEF HostMinimizes, OnWindowMinimized, UpdateIgnored
    <3>2. QED
      BY <2>5, <3>1 DEF HostMinimizes, Minimizes, Becomes, WindowStates, TypeOK
  <2>6. CASE HostRestores(w)
    <3>1. HelperTypeOK' /\ ManagerTypeOK'
      BY <1>1, <1>2, <2>4, <2>6, UpdateWindowType
         DEF HostRestores, OnWindowRestored, UpdateIgnored
    <3>2. QED
      BY <2>6, <3>1 DEF HostRestores, Restores, Becomes, WindowStates, TypeOK
  <2>7. CASE HostCloses(w)
    BY <1>1, <2>7, OnWindowClosedType DEF HostCloses, Closes, Becomes, WindowStates, TypeOK
  <2>8. CASE HostMaps(w)
    <3>1. HelperTypeOK' /\ ManagerTypeOK'
      BY <1>1, <2>8, InputMappingType DEF HostMaps
    <3>2. QED
      BY <2>8, <3>1 DEF HostMaps, Maps, TypeOK, streamVars
  <2>9. CASE HostOpenFails(w)
    BY <1>1, <1>2, <2>9 DEF HostOpenFails, OpenFails, Becomes, WindowStates, TypeOK
  <2>10. QED
    BY <1>4, <2>1, <2>2, <2>3, <2>5, <2>6, <2>7, <2>8, <2>9
<1>5. QED
  BY <1>3, <1>4 DEF HostStep

LEMMA HostReceivesType ==
  ASSUME TypeOK, HostReceives
  PROVE  TypeOK'
<1>1. to_host' \in Seq(UpMessage \cup {UnsubscribeApp(a) : a \in Apps})
  BY HeadTailProperties DEF HostReceives, TypeOK, ManagerTypeOK
<1>2. /\ subscribed' \subseteq Apps
      /\ host_windows' \in [Windows -> WindowStates]
      /\ announced' \subseteq Apps
  BY DEF HostReceives, Drops, streamVars, WindowStates, TypeOK
<1>3. QED
  BY <1>1, <1>2 DEF HostReceives, TypeOK, ManagerTypeOK, HelperTypeOK, helperVars,
                    managerVars, routerVars, Unreaped, Alive

(* So does everything that happens on the client's side.                     *)
LEMMA ClientStepType ==
  ASSUME TypeOK,
         \/ SessionEnds \/ ManagerFinishes
         \/ \E p \in Pids : \/ HelperReads(p) \/ HelperLeaves(p)
                            \/ UserActs(p) \/ HelperCrashes(p)
                            \/ ManagerHears(p) \/ ManagerReaps(p)
         \/ \E w \in Windows : VideoArrives(w)
  PROVE  TypeOK'
<1>1. HelperTypeOK /\ ManagerTypeOK
  BY DEF TypeOK
<1>2. CASE SessionEnds
  <2>1. HelperTypeOK' /\ ManagerTypeOK'
    BY <1>1, <1>2 DEF SessionEnds, Disconnected, CoordinatorExits, HelperTypeOK,
       ManagerTypeOK, helperVars, routerVars, Option, Unreaped, Alive
  <2>2. QED
    BY <1>2, <2>1 DEF SessionEnds, TypeOK, streamVars
<1>3. ASSUME NEW p \in Pids,
             HelperReads(p) \/ HelperLeaves(p) \/ UserActs(p) \/ HelperCrashes(p)
      PROVE  TypeOK'
  <2>1. HelperTypeOK'
    BY <1>1, <1>3, HelperReadsType, HelperLeavesType, UserActsType, HelperCrashesType
  <2>2. UNCHANGED <<managerVars, routerVars, to_host, streamVars>>
    BY <1>3 DEF HelperReads, HelperLeaves, UserActs, HelperCrashes
  <2>3. QED
    BY <1>1, <2>1, <2>2 DEF TypeOK, ManagerTypeOK, managerVars, routerVars, streamVars
<1>4. ASSUME NEW p \in Pids, ManagerHears(p) \/ ManagerReaps(p)
      PROVE  TypeOK'
  <2>1. HelperTypeOK' /\ ManagerTypeOK'
    BY <1>1, <1>4, OnHelperUpType, OnHelperExitedType DEF ManagerHears, ManagerReaps
  <2>2. QED
    BY <1>4, <2>1 DEF ManagerHears, ManagerReaps, TypeOK, streamVars
<1>5. ASSUME NEW w \in Windows, VideoArrives(w)
      PROVE  TypeOK'
  <2>1. HelperTypeOK'
    BY <1>1, <1>5, SendDownType DEF VideoArrives, ForwardVideo
  <2>2. QED
    BY <1>1, <1>5, <2>1 DEF VideoArrives, ForwardVideo, TypeOK, ManagerTypeOK,
       managerVars, routerVars, streamVars
<1>6. CASE ManagerFinishes
  <2>1. HelperTypeOK' /\ ManagerTypeOK'
    BY <1>1, <1>6, ManagerFinishesType
  <2>2. QED
    BY <1>6, <2>1 DEF ManagerFinishes, TypeOK, streamVars
<1>7. QED
  BY <1>2, <1>3, <1>4, <1>5, <1>6

(* The type invariant is inductive.                                          *)
LEMMA TypeOKStep == TypeOK /\ [Next]_vars => TypeOK'
<1>1. SUFFICES ASSUME TypeOK, [Next]_vars PROVE TypeOK'
  OBVIOUS
<1>2. CASE UNCHANGED vars
  BY <1>1, <1>2 DEF vars, clientVars, helperVars, managerVars, routerVars, streamVars, TypeOK,
                    HelperTypeOK, ManagerTypeOK, Unreaped, Alive
<1>3. CASE Next
  BY <1>1, <1>3, HostStepType, HostReceivesType, ClientStepType DEF Next
<1>4. QED
  BY <1>1, <1>2, <1>3

LEMMA TypeOKInit == Init => TypeOK
BY DEF Init, HelperInit, ManagerInit, StreamInit, WindowStates, TypeOK, HelperTypeOK,
       ManagerTypeOK, Option, Unreaped, Alive

(* The client session is type correct: whatever the host sends, the user     *)
(* does and the helpers suffer, every table of the manager and the router    *)
(* holds what its readers expect, and no process exists without the          *)
(* application it was spawned for.                                           *)
THEOREM TypeCorrect == Spec => []TypeOK
BY TypeOKInit, TypeOKStep, PTL DEF Spec

----------------------------------------------------------------------------
(* What the steps of helpers and of the user have in common: they report an  *)
(* exit only for a process that is gone, and start no process.               *)
LEMMA HelperTable ==
  ASSUME TypeOK, ClientInv, NEW p \in Pids,
         HelperReads(p) \/ HelperLeaves(p) \/ UserActs(p) \/ HelperCrashes(p)
  PROVE  /\ app_id' = app_id
         /\ \A q \in Pids : /\ Unreaped(q)' <=> Unreaped(q)
                            /\ (q \in exits => phase[q] = "gone")'
                            /\ (up[q] # <<>>)' => up[q] # <<>> \/ Unreaped(q)
<1>1. ProcessTable /\ HelperTypeOK
  BY DEF ClientInv, TypeOK
<1>2. CASE HelperReads(p)
  <2>1. CASE DrainControl(p)
    BY <1>1, <2>1 DEF ProcessTable, HelperTypeOK, DrainControl, RequestExit, Unreaped, Alive
  <2>2. CASE CreateWindowFails(p)
    BY <1>1, <2>2 DEF ProcessTable, HelperTypeOK, CreateWindowFails, Unreaped, Alive
  <2>3. CASE DecodeVideo(p)
    <3>1. UNCHANGED <<app_id, phase, exits>> /\ Alive(p)
      BY <2>3 DEF DecodeVideo
    <3>2. \A q \in Pids : q # p => up'[q] = up[q]
      <4>1. PICK w \in Windows : \/ up' = [up EXCEPT ![p] = Append(@, DecodeProgress(w))]
                                 \/ UNCHANGED up
        BY <2>3 DEF DecodeVideo
      <4>2. QED
        BY <4>1, <1>1 DEF HelperTypeOK
    <3>3. QED
      BY <1>1, <3>1, <3>2 DEF ProcessTable, Unreaped, Alive
  <2>4. CASE DecoderPanics(p)
    BY <1>1, <2>4 DEF ProcessTable, HelperTypeOK, DecoderPanics, Unreaped, Alive
  <2>5. CASE ReadEof(p, ~ChannelHeld(p))
    BY <1>1, <2>5 DEF ProcessTable, HelperTypeOK, ReadEof, RequestExit, Unreaped, Alive
  <2>6. QED
    BY <1>2, <2>1, <2>2, <2>3, <2>4, <2>5 DEF HelperReads
<1>3. CASE UserActs(p)
  BY <1>1, <1>3 DEF ProcessTable, HelperTypeOK, UserActs, UserQuits, UserInput,
                    RequestExit, Unreaped, Alive
<1>4. CASE HelperLeaves(p) \/ HelperCrashes(p)
  <2>1. Alive(p) /\ Die(p)
    BY <1>4 DEF HelperLeaves, LeaveLoop, HelperCrashes, Crash, Alive
  <2>2. \A q \in Pids : q # p => up'[q] = up[q]
    BY <1>1, <2>1 DEF Die, HelperTypeOK
  <2>3. QED
    BY <1>1, <2>1, <2>2 DEF Die, ProcessTable, HelperTypeOK, Unreaped, Alive
<1>5. QED
  BY <1>2, <1>3, <1>4

LEMMA HelperStepInv ==
  ASSUME TypeOK, ClientInv, NEW p \in Pids,
         HelperReads(p) \/ HelperLeaves(p) \/ UserActs(p) \/ HelperCrashes(p)
  PROVE  ClientInv'
<1>1. UNCHANGED <<managerVars, routerVars>>
  BY DEF HelperReads, HelperLeaves, UserActs, HelperCrashes
<1>2. /\ app_id' = app_id
      /\ \A q \in Pids : /\ Unreaped(q)' <=> Unreaped(q)
                         /\ (q \in exits => phase[q] = "gone")'
                         /\ (up[q] # <<>>)' => up[q] # <<>> \/ Unreaped(q)
  BY HelperTable
<1>3. ProcessTable'
  BY <1>2 DEF ClientInv, TypeOK, HelperTypeOK, ProcessTable
<1>4. WindowTables' /\ HandlerUnderWay'
  BY <1>1 DEF ClientInv, WindowTables, HandlerUnderWay, managerVars, routerVars
<1>5. (coord = "up" => ProcessesHeld /\ Stations /\ WindowsRouted)'
  <2>1. running \in [Apps -> Option(Pids)]
    BY DEF TypeOK, ManagerTypeOK
  <2>2. ProcessesHeld => ProcessesHeld'
    BY <1>1, <1>2, <2>1 DEF ProcessesHeld, managerVars, Option
  <2>3. QED
    BY <1>1, <2>2 DEF ClientInv, Stations, NothingHeld, WindowsRouted, managerVars, routerVars
<1>6. QED
  BY <1>3, <1>4, <1>5 DEF ClientInv

(* A spawn, with whatever frames, keeps the process table.                   *)
Spawned(a, p, frames) == Fork(p, a, frames) /\ running' = [running EXCEPT ![a] = p]
NotSpawned(a) == running' = [running EXCEPT ![a] = None] /\ UNCHANGED <<app_id, phase, up>>

LEMMA SpawnTable ==
  ASSUME TypeOK, ProcessTable, NEW a \in Apps, NEW frames, exits' \subseteq exits,
         (\E p \in Pids : Spawned(a, p, frames)) \/ NotSpawned(a)
  PROVE  ProcessTable'
BY DEF TypeOK, HelperTypeOK, ProcessTable, Spawned, NotSpawned, Fork, Free

(* If no process of the application is left but those just reported, the     *)
(* manager then holds the new process, or none.                              *)
LEMMA SpawnHeld ==
  ASSUME TypeOK, ProcessesHeld, NEW a \in Apps, NEW frames, exits' \subseteq exits,
         (\E p \in Pids : Spawned(a, p, frames)) \/ NotSpawned(a),
         \A p \in Pids : Alive(p) \/ p \in exits' => app_id[p] # a,
         \A p \in exits \ exits' : app_id[p] = a
  PROVE  ProcessesHeld'
<1>1. HelperTypeOK /\ ManagerTypeOK
  BY DEF TypeOK
<1>2. ASSUME NEW p \in Pids, Spawned(a, p, frames)
      PROVE  ProcessesHeld'
  <2>1. Free(p) /\ app_id' = [app_id EXCEPT ![p] = a] /\ phase' = [phase EXCEPT ![p] = "live"]
        /\ running' = [running EXCEPT ![a] = p]
    BY <1>2 DEF Fork, Spawned
  <2>2. ASSUME NEW q \in Pids, Unreaped(q)'
        PROVE  (running[app_id[q]] = q)'
    <3>1. CASE q = p
      BY <1>1, <2>1, <3>1 DEF HelperTypeOK, ManagerTypeOK
    <3>2. CASE q # p
      <4>1. (Alive(q) \/ q \in exits') /\ app_id'[q] = app_id[q]
        BY <1>1, <2>1, <2>2, <3>2 DEF Unreaped, Alive, HelperTypeOK
      <4>2. Unreaped(q) /\ app_id[q] # a
        BY <4>1 DEF Unreaped
      <4>3. QED
        BY <1>1, <2>1, <4>1, <4>2 DEF ProcessesHeld, HelperTypeOK, ManagerTypeOK
    <3>3. QED
      BY <3>1, <3>2
  <2>3. ASSUME NEW b \in Apps, running'[b] # None
        PROVE  (Unreaped(running[b]) /\ app_id[running[b]] = b)'
    <3>1. CASE b = a
      BY <1>1, <2>1, <3>1 DEF HelperTypeOK, ManagerTypeOK, Unreaped, Alive
    <3>2. CASE b # a
      <4>1. running'[b] = running[b] /\ running[b] \in Pids
        BY <1>1, <2>1, <2>3, <3>2 DEF ManagerTypeOK, Option
      <4>2. Unreaped(running[b]) /\ app_id[running[b]] = b
        BY <4>1, <2>3 DEF ProcessesHeld
      <4>3. running[b] # p
        BY <2>1, <4>2 DEF Free, Unreaped, Alive
      <4>4. QED
        BY <1>1, <2>1, <3>2, <4>1, <4>2, <4>3 DEF Unreaped, Alive, HelperTypeOK
    <3>3. QED
      BY <3>1, <3>2
  <2>4. QED
    BY <2>2, <2>3 DEF ProcessesHeld
<1>3. CASE NotSpawned(a)
  <2>1. running' = [running EXCEPT ![a] = None] /\ UNCHANGED <<app_id, phase>>
    BY <1>3 DEF NotSpawned
  <2>2. ASSUME NEW q \in Pids, Unreaped(q)'
        PROVE  (running[app_id[q]] = q)'
    BY <1>1, <2>1, <2>2 DEF ProcessesHeld, HelperTypeOK, ManagerTypeOK, Unreaped, Alive
  <2>3. ASSUME NEW b \in Apps, running'[b] # None
        PROVE  (Unreaped(running[b]) /\ app_id[running[b]] = b)'
    <3>1. b # a /\ running'[b] = running[b] /\ running[b] \in Pids
      BY <1>1, <2>1, <2>3 DEF ManagerTypeOK, Option
    <3>2. QED
      BY <1>1, <2>1, <2>3, <3>1 DEF ProcessesHeld, Unreaped, Alive
  <2>4. QED
    BY <2>2, <2>3 DEF ProcessesHeld
<1>4. QED
  BY <1>2, <1>3

LEMMA SpawnAndReplaySpawns ==
  ASSUME NEW a, NEW ws, SpawnAndReplay(a, ws)
  PROVE  (\E p \in Pids : Spawned(a, p, ReplayFrames(a, ws))) \/ NotSpawned(a)
BY DEF SpawnAndReplay, Spawned, NotSpawned

(* While no handler is under way none is about a window.                     *)
LEMMA HandlerIdle ==
  ASSUME ClientInv, Handling
  PROVE  handler = "idle" /\ about = {} /\ CoordinatorRuns
BY DEF ClientInv, HandlerUnderWay, Handling

(* A replay routes nothing yet: it is about every recorded window of its     *)
(* application.                                                              *)
LEMMA SpawnRoutes ==
  ASSUME TypeOK, WindowTables, about = {}, handler = "idle",
         NEW a \in Apps, SpawnAndReplay(a, windows'[a]),
         windows' \in [Apps -> [Windows -> Option(WindowReplay)]],
         \A b \in Apps, w \in Windows : windows'[b][w] # None => Owner[w] = b,
         \A b \in Apps : b # a => windows'[b] = windows[b],
         \A w \in Windows : windows[a][w] # None => windows'[a][w] # None,
         \A w \in Windows :
           /\ app_of_window'[w] = IF windows'[Owner[w]][w] = None THEN None ELSE Owner[w]
           /\ app_of_track'[w] = app_of_window'[w]
  PROVE  /\ WindowTables' /\ HandlerUnderWay'
         /\ WindowsRouted => WindowsRouted'
<1>1. \A w \in Windows : Owner[w] \in Apps
  BY DataAssumption
<1>2. \A w \in Windows : Owner[w] # None
  BY <1>1, DataAssumption
<1>3. \A w \in Windows : windows[Owner[w]][w] # None => windows'[Owner[w]][w] # None
  BY <1>1
<1>4. routes' = routes /\ progress' = progress
  BY DEF SpawnAndReplay, routerVars
<1>5. WindowTables'
  BY <1>2, <1>3, <1>4 DEF WindowTables
<1>6. ASSUME NEW p \in Pids, running' = [running EXCEPT ![a] = p],
             handler' = "replaying", about' = Present(windows'[a])
      PROVE  HandlerUnderWay' /\ (WindowsRouted => WindowsRouted')
  <2>1. \A w \in Windows : w \in about' <=> windows'[a][w] # None
    BY <1>6 DEF Present
  <2>2. HandlerUnderWay'
    BY <1>6 DEF HandlerUnderWay, Present
  <2>3. ASSUME WindowsRouted, NEW w \in Windows, windows'[Owner[w]][w] # None,
               running'[Owner[w]] # None, w \notin about'
        PROVE  routes'[w] = running'[Owner[w]]
    <3>1. Owner[w] # a
      BY <2>1, <2>3
    <3>2. QED
      BY <1>1, <1>4, <1>6, <2>3, <3>1 DEF TypeOK, ManagerTypeOK, WindowsRouted
  <2>4. QED
    BY <2>2, <2>3 DEF WindowsRouted
<1>7. CASE running' = [running EXCEPT ![a] = None] /\ UNCHANGED <<handler, about>>
  <2>1. HandlerUnderWay'
    BY <1>7 DEF HandlerUnderWay
  <2>2. ASSUME WindowsRouted, NEW w \in Windows, windows'[Owner[w]][w] # None,
               running'[Owner[w]] # None
        PROVE  routes'[w] = running'[Owner[w]]
    BY <1>1, <1>4, <1>7, <2>2 DEF TypeOK, ManagerTypeOK, WindowsRouted
  <2>3. QED
    BY <1>5, <2>1, <2>2 DEF WindowsRouted
<1>8. QED
  BY <1>5, <1>6, <1>7 DEF SpawnAndReplay

(* Steps that start and end no process, no recorded window and no handler.   *)
LEMMA QuietInv ==
  ASSUME TypeOK, ClientInv,
         UNCHANGED <<app_id, phase, exits, known, running, given_up,
                     app_of_window, app_of_track, routes, handler, about>>,
         coord' = coord \/ coord' # "up",
         \A p \in Pids : up'[p] # <<>> => up[p] # <<>>,
         \A a \in Apps, w \in Windows : windows'[a][w] = None <=> windows[a][w] = None,
         about = {} \/ progress' = progress,
         \A w \in Windows : progress'[w] # None => app_of_track[w] # None
  PROVE  ClientInv'
<1>1. \A w \in Windows : Owner[w] \in Apps
  BY DataAssumption
<1>2. ProcessTable'
  BY DEF ClientInv, ProcessTable
<1>3. WindowTables'
  BY <1>1 DEF ClientInv, WindowTables
<1>4. ProcessesHeld => ProcessesHeld'
  BY DEF ProcessesHeld, Unreaped, Alive
<1>5. Stations => Stations'
  BY DEF Stations, NothingHeld
<1>6. WindowsRouted => WindowsRouted'
  BY <1>1 DEF WindowsRouted
<1>7. HandlerUnderWay'
  <2>1. about \subseteq Windows
    BY DEF TypeOK, ManagerTypeOK
  <2>2. \A w \in about : windows'[Owner[w]][w] # None
    BY <1>1, <2>1 DEF ClientInv, HandlerUnderWay
  <2>3. QED
    BY <2>2 DEF ClientInv, HandlerUnderWay
<1>8. QED
  BY <1>2, <1>3, <1>4, <1>5, <1>6, <1>7 DEF ClientInv

(* Announcing an application: it had no process.                             *)
LEMMA AppAnnouncedInv ==
  ASSUME TypeOK, ClientInv, NEW a \in Apps, AppAnnounced(a)
  PROVE  ClientInv'
<1>1. ManagerTypeOK /\ HelperTypeOK
  BY DEF TypeOK
<1>2. /\ a \notin known /\ known' = known \cup {a}
      /\ UNCHANGED <<exits, coord, windows, given_up, app_of_window, app_of_track,
                     handler, about, routes, progress>>
  BY DEF AppAnnounced, routerVars
<1>3. WindowTables' /\ HandlerUnderWay'
  BY <1>2 DEF ClientInv, WindowTables, HandlerUnderWay
<1>4. CASE UNCHANGED <<app_id, phase, up, running>>
  BY <1>2, <1>3, <1>4 DEF ClientInv, ProcessTable, ProcessesHeld, Stations, NothingHeld,
                          WindowsRouted, Unreaped, Alive
<1>5. ASSUME NEW p \in Pids, Spawned(a, p, IconFrames(a))
      PROVE  ClientInv'
  <2>1. ProcessTable'
    BY <1>2, <1>5, SpawnTable DEF ClientInv
  <2>2. ASSUME coord = "up"
        PROVE  ProcessesHeld' /\ Stations' /\ WindowsRouted'
    <3>1. NothingHeld(a) /\ ~given_up[a] /\ ProcessesHeld
      BY <1>2, <2>2 DEF ClientInv, Stations
    <3>2. \A q \in Pids : Alive(q) \/ q \in exits' => app_id[q] # a
      BY <1>2, <3>1, ProcessAssumption DEF ProcessesHeld, NothingHeld, Unreaped
    <3>3. ProcessesHeld'
      BY <1>2, <1>5, <3>1, <3>2, SpawnHeld
    <3>4. \A b \in Apps : b # a => running'[b] = running[b]
      BY <1>1, <1>5 DEF Spawned, ManagerTypeOK
    <3>5. Stations'
      BY <1>2, <2>2, <3>1, <3>4 DEF ClientInv, Stations, NothingHeld
    <3>6. WindowsRouted'
      BY <1>2, <2>2, <3>1, <3>4, DataAssumption DEF ClientInv, WindowsRouted, NothingHeld
    <3>7. QED
      BY <3>3, <3>5, <3>6
  <2>3. QED
    BY <1>2, <1>3, <2>1, <2>2 DEF ClientInv, WindowTables
<1>6. QED
  BY <1>4, <1>5 DEF AppAnnounced, Spawned

(* What recording a window changes: that window is present, no other is.     *)
LEMMA RecordWindowTables ==
  ASSUME TypeOK, ClientInv, NEW w \in Windows, NEW t \in Titles, NEW s \in Sizes,
         RecordWindow(w, t, s)
  PROVE  /\ \A b \in Apps, v \in Windows : windows'[b][v] # None => Owner[v] = b
         /\ \A b \in Apps : b # Owner[w] => windows'[b] = windows[b]
         /\ windows'[Owner[w]] = [windows[Owner[w]] EXCEPT ![w] = NewRecord(w, t, s)]
         /\ \A v \in Windows : windows[Owner[w]][v] # None => windows'[Owner[w]][v] # None
         /\ \A v \in Windows :
              /\ app_of_window'[v] = IF windows'[Owner[v]][v] = None THEN None ELSE Owner[v]
              /\ app_of_track'[v] = app_of_window'[v]
<1>1. Owner \in [Windows -> Apps]
  BY DataAssumption
<1>2. NewRecord(w, t, s) # None
  <2>1. NewRecord(w, t, s) \in WindowReplay
    BY DEF NewRecord, OpenedReplay, WindowReplay, TypeOK, ManagerTypeOK
  <2>2. QED
    BY <2>1, ReplayAssumption
<1>3. windows' = [windows EXCEPT ![Owner[w]][w] = NewRecord(w, t, s)]
  BY DEF RecordWindow
<1>4. /\ \A b \in Apps : b # Owner[w] => windows'[b] = windows[b]
      /\ windows'[Owner[w]] = [windows[Owner[w]] EXCEPT ![w] = NewRecord(w, t, s)]
      /\ windows'[Owner[w]][w] = NewRecord(w, t, s)
      /\ \A v \in Windows : v # w => windows'[Owner[w]][v] = windows[Owner[w]][v]
  BY <1>1, <1>3 DEF TypeOK, ManagerTypeOK
<1>5. ASSUME NEW b \in Apps, NEW v \in Windows, windows'[b][v] # None
      PROVE  Owner[v] = b
  <2>1. b # Owner[w] \/ v # w => windows'[b][v] = windows[b][v]
    BY <1>4
  <2>2. QED
    BY <1>5, <2>1 DEF ClientInv, WindowTables
<1>6. ASSUME NEW v \in Windows
      PROVE  /\ app_of_window'[v] = IF windows'[Owner[v]][v] = None THEN None ELSE Owner[v]
             /\ app_of_track'[v] = app_of_window'[v]
  <2>1. CASE v = w
    BY <1>2, <1>4, <2>1 DEF RecordWindow, TypeOK, ManagerTypeOK
  <2>2. CASE v # w
    <3>1. windows'[Owner[v]][v] = windows[Owner[v]][v]
      BY <1>1, <1>4, <2>2
    <3>2. app_of_window'[v] = app_of_window[v] /\ app_of_track'[v] = app_of_track[v]
      BY <2>2 DEF RecordWindow, TypeOK, ManagerTypeOK
    <3>3. QED
      BY <3>1, <3>2 DEF ClientInv, WindowTables
  <2>3. QED
    BY <2>1, <2>2
<1>7. QED
  BY <1>2, <1>4, <1>5, <1>6

(* A window opened on a dormant application.                                 *)
LEMMA WindowOpenedDormantInv ==
  ASSUME TypeOK, TypeOK', ClientInv, NEW w \in Windows, NEW t \in Titles, NEW s \in Sizes,
         WindowOpenedDormant(w, t, s)
  PROVE  ClientInv'
<1> DEFINE a == Owner[w]
<1>1. a \in Apps
  BY DataAssumption
<1>2. /\ RecordWindow(w, t, s) /\ UNCHANGED <<exits, coord, known, given_up>>
      /\ a \in known /\ ~given_up[a] /\ running[a] = None
      /\ SpawnAndReplay(a, [windows[a] EXCEPT ![w] = NewRecord(w, t, s)])
      /\ Handling
  BY DEF WindowOpenedDormant, AcceptsWindows, Dormant
<1>3. /\ \A b \in Apps, v \in Windows : windows'[b][v] # None => Owner[v] = b
      /\ \A b \in Apps : b # a => windows'[b] = windows[b]
      /\ windows'[a] = [windows[a] EXCEPT ![w] = NewRecord(w, t, s)]
      /\ \A v \in Windows : windows[a][v] # None => windows'[a][v] # None
      /\ \A v \in Windows :
           /\ app_of_window'[v] = IF windows'[Owner[v]][v] = None THEN None ELSE Owner[v]
           /\ app_of_track'[v] = app_of_window'[v]
  BY <1>2, RecordWindowTables
<1>4. SpawnAndReplay(a, windows'[a])
  BY <1>2, <1>3
<1>5. WindowTables' /\ HandlerUnderWay' /\ (WindowsRouted => WindowsRouted')
  <2>1. windows' \in [Apps -> [Windows -> Option(WindowReplay)]]
    BY DEF TypeOK, ManagerTypeOK
  <2>2. handler = "idle" /\ about = {}
    BY <1>2, HandlerIdle
  <2>3. QED
    BY <1>1, <1>3, <1>4, <2>1, <2>2, SpawnRoutes DEF ClientInv
<1>6. (\E p \in Pids : Spawned(a, p, ReplayFrames(a, windows'[a]))) \/ NotSpawned(a)
  BY <1>4, SpawnAndReplaySpawns
<1>7. ProcessTable'
  BY <1>1, <1>2, <1>6, SpawnTable DEF ClientInv
<1>8. ASSUME coord = "up"
      PROVE  ProcessesHeld' /\ Stations'
  <2>1. ProcessesHeld /\ Stations
    BY <1>8 DEF ClientInv
  <2>2. \A p \in Pids : Alive(p) \/ p \in exits' => app_id[p] # a
    BY <1>2, <2>1, ProcessAssumption DEF ProcessesHeld, Unreaped
  <2>3. ProcessesHeld'
    BY <1>1, <1>2, <1>6, <2>1, <2>2, SpawnHeld
  <2>4. \A b \in Apps : b # a => running'[b] = running[b]
    BY <1>1, <1>6 DEF Spawned, NotSpawned, TypeOK, ManagerTypeOK
  <2>5. Stations'
    BY <1>2, <1>3, <2>1, <2>4 DEF Stations, NothingHeld
  <2>6. QED
    BY <2>3, <2>5
<1>9. QED
  BY <1>2, <1>5, <1>7, <1>8 DEF ClientInv

(* A window opened on a running application is about to be routed.           *)
LEMMA WindowOpenedRunningInv ==
  ASSUME TypeOK, ClientInv, NEW w \in Windows, NEW t \in Titles, NEW s \in Sizes,
         WindowOpenedRunning(w, t, s)
  PROVE  ClientInv'
<1> DEFINE a == Owner[w]
<1>1. a \in Apps /\ \A v \in Windows : Owner[v] \in Apps /\ Owner[v] # None
  BY DataAssumption
<1>2. /\ RecordWindow(w, t, s)
      /\ UNCHANGED <<app_id, phase, exits, up, coord, known, running, given_up, routes,
                     progress>>
      /\ a \in known /\ ~given_up[a] /\ running[a] # None
      /\ handler' = "opening" /\ about = {} /\ about' = {w}
  BY HandlerIdle
     DEF WindowOpenedRunning, AcceptsWindows, Dormant, OpenCall, OpenOrder, Forward, SendDown
<1>3. /\ \A b \in Apps, v \in Windows : windows'[b][v] # None => Owner[v] = b
      /\ \A b \in Apps : b # a => windows'[b] = windows[b]
      /\ \A v \in Windows : windows[a][v] # None => windows'[a][v] # None
      /\ \A v \in Windows :
           /\ app_of_window'[v] = IF windows'[Owner[v]][v] = None THEN None ELSE Owner[v]
           /\ app_of_track'[v] = app_of_window'[v]
  BY <1>2, RecordWindowTables
<1>4. windows'[a][w] # None /\ \A v \in Windows : v # w => windows'[Owner[v]][v] = windows[Owner[v]][v]
  <2>1. app_of_window'[w] = a
    BY <1>1, <1>2 DEF RecordWindow, TypeOK, ManagerTypeOK
  <2>2. windows'[a][w] # None
    BY <1>1, <1>3, <2>1
  <2>3. QED
    BY <1>1, <1>2, <2>2 DEF RecordWindow, TypeOK, ManagerTypeOK
<1>5. HandlerUnderWay'
  BY <1>2, <1>4 DEF HandlerUnderWay
<1>6. WindowTables'
  <2>1. ASSUME NEW v \in Windows, progress'[v] # None \/ routes'[v] # None
        PROVE  windows'[Owner[v]][v] # None
    BY <1>1, <1>2, <1>4, <2>1 DEF ClientInv, WindowTables
  <2>2. QED
    BY <1>1, <1>3, <2>1 DEF WindowTables
<1>7. ProcessTable'
  BY <1>2 DEF ClientInv, ProcessTable
<1>8. ASSUME coord = "up"
      PROVE  ProcessesHeld' /\ Stations' /\ WindowsRouted'
  <2>1. ProcessesHeld /\ Stations /\ WindowsRouted
    BY <1>8 DEF ClientInv
  <2>2. ProcessesHeld'
    BY <1>2, <2>1 DEF ProcessesHeld, Unreaped, Alive
  <2>3. Stations'
    BY <1>2, <1>3, <2>1 DEF Stations, NothingHeld
  <2>4. WindowsRouted'
    BY <1>1, <1>2, <1>4, <2>1 DEF WindowsRouted
  <2>5. QED
    BY <2>2, <2>3, <2>4
<1>9. QED
  BY <1>2, <1>5, <1>6, <1>7, <1>8 DEF ClientInv

(* An update of a recorded window leaves it recorded.                        *)
LEMMA UpdateWindowInv ==
  ASSUME TypeOK, ClientInv, NEW w \in Windows, NEW rec, NEW frame,
         UpdateWindow(w, rec, frame),
         Recorded(w) \in WindowReplay => rec \in WindowReplay
  PROVE  ClientInv'
<1> DEFINE a == app_of_window[w]
<1>1. a \in Apps
  BY DEF UpdateWindow, TypeOK, ManagerTypeOK, Option
<1>2. UNCHANGED <<app_id, phase, exits, up, coord, known, running, given_up,
                  app_of_window, app_of_track, handler, about, routes, progress>>
  BY DEF UpdateWindow, Forward, SendDown, routerVars
<1>3. ASSUME NEW b \in Apps, NEW v \in Windows
      PROVE  windows'[b][v] = None <=> windows[b][v] = None
  <2>1. CASE windows[a][w] = None
    BY <2>1 DEF UpdateWindow
  <2>2. CASE windows[a][w] # None
    <3>1. windows' = [windows EXCEPT ![a][w] = rec]
      BY <2>2 DEF UpdateWindow
    <3>2. rec # None
      BY <1>1, <2>2, ReplayAssumption DEF TypeOK, ManagerTypeOK, Recorded, Option
    <3>3. CASE b = a /\ v = w
      BY <1>1, <2>2, <3>1, <3>2, <3>3 DEF TypeOK, ManagerTypeOK
    <3>4. CASE b # a \/ v # w
      BY <1>1, <3>1, <3>4 DEF TypeOK, ManagerTypeOK
    <3>5. QED
      BY <3>3, <3>4
  <2>3. QED
    BY <2>1, <2>2
<1>4. QED
  BY <1>2, <1>3, QuietInv DEF ClientInv, WindowTables

(* The first half of closing a window takes its route; the record stays.     *)
LEMMA OnWindowClosedInv ==
  ASSUME TypeOK, ClientInv, NEW w \in Windows, OnWindowClosed(w)
  PROVE  ClientInv'
<1>0. \A v \in Windows : Owner[v] \in Apps /\ Owner[v] # None
  BY DataAssumption
<1>1. CASE app_of_window[w] = None
  BY <1>1, QuietInv DEF OnWindowClosed, helperVars, routerVars, ClientInv, WindowTables
<1>2. CASE app_of_window[w] # None
  <2>1. windows[Owner[w]][w] # None
    BY <1>2 DEF ClientInv, WindowTables
  <2>2. /\ routes' = [routes EXCEPT ![w] = None]
        /\ progress' = [progress EXCEPT ![w] = None]
        /\ handler' = "closing" /\ about = {} /\ about' = {w}
        /\ UNCHANGED <<app_id, phase, exits, up, coord, known, running, given_up, windows,
                       app_of_window, app_of_track>>
    BY <1>2, HandlerIdle DEF OnWindowClosed, CloseCall, CloseOrder, helperVars
  <2>3. /\ routes'[w] = None /\ progress'[w] = None
        /\ \A v \in Windows : v # w => routes'[v] = routes[v] /\ progress'[v] = progress[v]
    BY <2>2 DEF TypeOK, ManagerTypeOK
  <2>4. WindowTables' /\ HandlerUnderWay'
    BY <2>1, <2>2, <2>3 DEF ClientInv, WindowTables, HandlerUnderWay
  <2>5. ProcessTable' /\ (ProcessesHeld => ProcessesHeld')
    BY <2>2 DEF ClientInv, ProcessTable, ProcessesHeld, Unreaped, Alive
  <2>6. Stations => Stations'
    BY <2>2 DEF Stations, NothingHeld
  <2>7. WindowsRouted => WindowsRouted'
    BY <2>2, <2>3 DEF WindowsRouted
  <2>8. QED
    BY <2>2, <2>4, <2>5, <2>6, <2>7 DEF ClientInv
<1>3. QED
  BY <1>1, <1>2

(* After the second half the window has left every table.                    *)
LEMMA FinishCloseInv ==
  ASSUME TypeOK, ClientInv, NEW w \in Windows, FinishClose(w)
  PROVE  ClientInv'
<1> DEFINE a == Owner[w]
<1>1. \A v \in Windows : Owner[v] \in Apps /\ Owner[v] # None
  BY DataAssumption
<1>2. /\ w \in about /\ handler = "closing" /\ windows[a][w] # None
      /\ app_of_window[w] = a /\ routes[w] = None /\ progress[w] = None
      /\ about = {w}
  BY DEF FinishClose, ClientInv, HandlerUnderWay, WindowTables
<1>3. /\ windows' = [windows EXCEPT ![a][w] = None]
      /\ app_of_window' = [app_of_window EXCEPT ![w] = None]
      /\ app_of_track' = [app_of_track EXCEPT ![w] = None]
      /\ handler' = "idle" /\ about' = {}
      /\ UNCHANGED <<app_id, phase, exits, up, coord, known, running, given_up, routes,
                     progress>>
  BY <1>2 DEF FinishClose, CloseCall, CloseOrder, Return, Forward, SendDown, routerVars
<1>4. \A b \in Apps, v \in Windows :
        windows'[b][v] = IF b = a /\ v = w THEN None ELSE windows[b][v]
  BY <1>1, <1>3 DEF TypeOK, ManagerTypeOK
<1>5. /\ app_of_window'[w] = None /\ app_of_track'[w] = None
      /\ \A v \in Windows : v # w => /\ app_of_window'[v] = app_of_window[v]
                                     /\ app_of_track'[v] = app_of_track[v]
  BY <1>3 DEF TypeOK, ManagerTypeOK
<1>6. WindowTables' /\ HandlerUnderWay'
  BY <1>1, <1>2, <1>3, <1>4, <1>5 DEF ClientInv, WindowTables, HandlerUnderWay
<1>7. ProcessTable' /\ (ProcessesHeld => ProcessesHeld')
  BY <1>3 DEF ClientInv, ProcessTable, ProcessesHeld, Unreaped, Alive
<1>8. Stations => Stations'
  BY <1>3, <1>4 DEF Stations, NothingHeld
<1>9. WindowsRouted => WindowsRouted'
  BY <1>1, <1>2, <1>3, <1>4 DEF WindowsRouted
<1>10. QED
  BY <1>3, <1>6, <1>7, <1>8, <1>9 DEF ClientInv

(* Setting the routes that a handler owes keeps the tables, whatever windows *)
(* it names of those the handler is about.                                   *)
LEMMA RoutesSetInv ==
  ASSUME TypeOK, ClientInv, RouteTracks(about), handler' = "idle", about' = {},
         \A w \in Windows : progress'[w] # None => progress[w] # None,
         UNCHANGED <<app_id, phase, exits, up, coord, known, running, given_up, windows,
                     app_of_window, app_of_track>>
  PROVE  ClientInv'
<1>1. \A v \in Windows : Owner[v] \in Apps /\ Owner[v] # None
  BY DataAssumption
<1>2. \A v \in about : windows[Owner[v]][v] # None
  BY DEF ClientInv, HandlerUnderWay
<1>3. \A v \in Windows : routes'[v] = IF v \in about /\ running[Owner[v]] # None
                                     THEN running[Owner[v]] ELSE routes[v]
  BY DEF RouteTracks
<1>4. \A v \in Windows : routes'[v] # None => windows[Owner[v]][v] # None
  BY <1>2, <1>3 DEF ClientInv, WindowTables
<1>5. WindowTables' /\ HandlerUnderWay'
  BY <1>4 DEF ClientInv, WindowTables, HandlerUnderWay
<1>6. ProcessTable' /\ (ProcessesHeld => ProcessesHeld')
  BY DEF ClientInv, ProcessTable, ProcessesHeld, Unreaped, Alive
<1>7. Stations => Stations'
  BY DEF Stations, NothingHeld
<1>8. WindowsRouted => WindowsRouted'
  BY <1>3 DEF WindowsRouted
<1>9. QED
  BY <1>5, <1>6, <1>7, <1>8 DEF ClientInv

LEMMA FinishRoutes ==
  ASSUME TypeOK, ClientInv, FinishReplay \/ \E w \in Windows : FinishOpen(w)
  PROVE  /\ RouteTracks(about) /\ handler' = "idle" /\ about' = {}
         /\ \A w \in Windows : progress'[w] # None => progress[w] # None
         /\ UNCHANGED <<helperVars, coord, known, running, windows, respawned_once, given_up,
                        app_of_window, app_of_track, pending_mappings, to_host>>
<1>1. CASE FinishReplay
  BY <1>1 DEF FinishReplay, Return
<1>2. ASSUME NEW w \in Windows, FinishOpen(w)
      PROVE  about = {w} /\ RouteTracks({w}) /\ Return /\ UNCHANGED helperVars
  BY <1>2 DEF FinishOpen, OpenCall, OpenOrder, ClientInv, HandlerUnderWay
<1>3. QED
  BY <1>1, <1>2 DEF FinishOpen, Return

LEMMA ManagerFinishesInv ==
  ASSUME TypeOK, ClientInv, ManagerFinishes
  PROVE  ClientInv'
BY FinishRoutes, RoutesSetInv, FinishCloseInv DEF ManagerFinishes, helperVars

(* Progress is recorded only for a track that the application owns.          *)
LEMMA OnHelperUpInv ==
  ASSUME TypeOK, ClientInv, NEW p \in Pids, OnHelperUp(p)
  PROVE  ClientInv'
<1>1. up[p] # <<>> /\ app_id[p] \in Apps
  BY DEF OnHelperUp, ClientInv, ProcessTable
<1>2. /\ about = {}
      /\ UNCHANGED <<app_id, phase, exits, coord, known, running, windows, given_up,
                     app_of_window, app_of_track, routes, handler, about>>
  BY HandlerIdle DEF OnHelperUp, managerVars
<1>3. \A q \in Pids : up'[q] # <<>> => up[q] # <<>>
  BY <1>1 DEF OnHelperUp, TypeOK, HelperTypeOK
<1>4. ASSUME NEW w \in Windows, progress'[w] # None
      PROVE  app_of_track[w] # None
  <2>1. CASE progress'[w] = progress[w]
    BY <1>4, <2>1 DEF ClientInv, WindowTables
  <2>2. CASE progress'[w] # progress[w]
    <3>1. /\ progress' = [progress EXCEPT ![Head(up[p]).window] = p]
          /\ app_of_track[Head(up[p]).window] = app_id[p]
      BY <2>2 DEF OnHelperUp
    <3>2. w = Head(up[p]).window
      BY <2>2, <3>1 DEF TypeOK, ManagerTypeOK
    <3>3. QED
      BY <1>1, <3>1, <3>2, DataAssumption
  <2>3. QED
    BY <2>1, <2>2
<1>5. QED
  BY <1>2, <1>3, <1>4, QuietInv

(* The exit of the helper that ran an application: it was its only process.  *)
LEMMA OnlyProcess ==
  ASSUME TypeOK, ClientInv, coord = "up", NEW p \in exits
  PROVE  /\ app_id[p] \in known /\ ~given_up[app_id[p]] /\ running[app_id[p]] = p
         /\ \A q \in Pids : Alive(q) \/ q \in exits \ {p} => app_id[q] # app_id[p]
<1>1. p \in Pids /\ Unreaped(p) /\ app_id[p] \in Apps /\ phase[p] = "gone"
  BY DEF TypeOK, HelperTypeOK, Unreaped, ClientInv, ProcessTable
<1>2. running[app_id[p]] = p /\ p # None
  BY <1>1, ProcessAssumption DEF ClientInv, ProcessesHeld
<1>3. QED
  BY <1>1, <1>2 DEF ClientInv, ProcessesHeld, Stations, NothingHeld, Unreaped, Alive

LEMMA HelperDroppedInv ==
  ASSUME TypeOK, ClientInv, NEW p \in Pids, HelperDropped(p)
  PROVE  ClientInv'
<1> DEFINE a == app_id[p]
<1>1. /\ p \in exits /\ exits' = exits \ {p} /\ GiveUpApp(a)
      /\ UNCHANGED <<app_id, phase, up, coord, known, handler, about>> /\ about = {}
  BY HandlerIdle DEF HelperDropped, ExitOf
<1>2. a \in Apps /\ \A v \in Windows : Owner[v] \in Apps /\ Owner[v] # None
  BY <1>1, DataAssumption DEF TypeOK, HelperTypeOK, Unreaped
<1>3. \A b \in Apps, v \in Windows :
        windows'[b][v] = IF b = a THEN None ELSE windows[b][v]
  BY <1>1, <1>2 DEF GiveUpApp, DropAppWindows, TypeOK, ManagerTypeOK
<1>4. \A v \in Windows : v \in Present(windows[a]) <=> windows[a][v] # None
  BY <1>2 DEF Present, TypeOK, ManagerTypeOK
<1>5. ASSUME NEW v \in Windows
      PROVE  /\ app_of_window'[v] = IF windows[a][v] # None THEN None ELSE app_of_window[v]
             /\ app_of_track'[v] = IF windows[a][v] # None THEN None ELSE app_of_track[v]
             /\ routes'[v] = IF windows[a][v] # None THEN None ELSE routes[v]
             /\ progress'[v] = IF windows[a][v] # None THEN None ELSE progress[v]
  BY <1>1, <1>4 DEF GiveUpApp, DropAppWindows
<1>6. /\ running'[a] = None /\ given_up'[a]
      /\ \A b \in Apps : b # a => running'[b] = running[b] /\ given_up'[b] = given_up[b]
  BY <1>1, <1>2 DEF GiveUpApp, DropAppWindows, TypeOK, ManagerTypeOK
<1>7. ProcessTable'
  BY <1>1 DEF ClientInv, ProcessTable
<1>8. WindowTables' /\ HandlerUnderWay'
  BY <1>1, <1>2, <1>3, <1>5 DEF ClientInv, WindowTables, HandlerUnderWay
<1>9. ASSUME coord = "up"
      PROVE  ProcessesHeld' /\ Stations' /\ WindowsRouted'
  <2>1. /\ a \in known /\ running[a] = p
        /\ \A q \in Pids : Alive(q) \/ q \in exits' => app_id[q] # a
    BY <1>1, <1>9, OnlyProcess
  <2>2. ProcessesHeld /\ Stations /\ WindowsRouted
    BY <1>9 DEF ClientInv
  <2>3. ProcessesHeld'
    <3>1. ASSUME NEW q \in Pids, Unreaped(q)'
          PROVE  (running[app_id[q]] = q)'
      <4>1. (Alive(q) \/ q \in exits') /\ app_id'[q] = app_id[q]
        BY <1>1, <3>1 DEF Unreaped, Alive
      <4>2. Unreaped(q) /\ app_id[q] # a /\ app_id[q] \in Apps
        BY <1>1, <2>1, <4>1 DEF Unreaped, TypeOK, HelperTypeOK
      <4>3. QED
        BY <1>6, <2>2, <4>1, <4>2 DEF ProcessesHeld
    <3>2. ASSUME NEW b \in Apps, running'[b] # None
          PROVE  (Unreaped(running[b]) /\ app_id[running[b]] = b)'
      <4>1. b # a /\ running'[b] = running[b] /\ running[b] \in Pids
        BY <1>6, <3>2 DEF TypeOK, ManagerTypeOK, Option
      <4>2. Unreaped(running[b]) /\ app_id[running[b]] = b
        BY <2>2, <3>2, <4>1 DEF ProcessesHeld
      <4>3. running[b] # p
        BY <4>1, <4>2
      <4>4. QED
        BY <1>1, <4>1, <4>2, <4>3 DEF Unreaped, Alive
    <3>3. QED
      BY <3>1, <3>2 DEF ProcessesHeld
  <2>4. Stations'
    BY <1>1, <1>3, <1>6, <2>1, <2>2 DEF Stations, NothingHeld
  <2>5. WindowsRouted'
    BY <1>1, <1>2, <1>3, <1>5, <1>6, <2>2 DEF ClientInv, WindowTables, WindowsRouted
  <2>6. QED
    BY <2>3, <2>4, <2>5
<1>10. QED
  BY <1>1, <1>7, <1>8, <1>9 DEF ClientInv

(* Idle without a window: only the helper goes.                              *)
LEMMA HelperReapedInv ==
  ASSUME TypeOK, ClientInv, NEW p \in Pids, HelperReaped(p)
  PROVE  ClientInv'
<1> DEFINE a == app_id[p]
<1>1. /\ p \in exits /\ exits' = exits \ {p} /\ running' = [running EXCEPT ![a] = None]
      /\ UNCHANGED <<app_id, phase, up, coord, known, windows, given_up, app_of_window,
                     app_of_track, handler, about, routes, progress>>
  BY DEF HelperReaped, ExitOf, routerVars
<1>2. a \in Apps
  BY <1>1 DEF TypeOK, HelperTypeOK, Unreaped
<1>3. NotSpawned(a)
  BY <1>1 DEF NotSpawned
<1>4. ProcessTable'
  BY <1>1 DEF ClientInv, ProcessTable
<1>5. WindowTables' /\ HandlerUnderWay'
  BY <1>1 DEF ClientInv, WindowTables, HandlerUnderWay
<1>6. ASSUME coord = "up"
      PROVE  ProcessesHeld' /\ Stations' /\ WindowsRouted'
  <2>1. ProcessesHeld'
    BY <1>1, <1>2, <1>3, <1>6, OnlyProcess, SpawnHeld DEF ClientInv
  <2>2. \A b \in Apps : running'[b] # None => running'[b] = running[b]
    BY <1>1, <1>2 DEF TypeOK, ManagerTypeOK
  <2>3. Stations'
    BY <1>1, <1>6, <2>2 DEF ClientInv, Stations, NothingHeld
  <2>4. WindowsRouted'
    BY <1>1, <1>6, <2>2, DataAssumption DEF ClientInv, WindowsRouted
  <2>5. QED
    BY <2>1, <2>3, <2>4
<1>7. QED
  BY <1>1, <1>4, <1>5, <1>6 DEF ClientInv

(* A helper replaced by another that replays the recorded windows.           *)
LEMMA HelperReplacedInv ==
  ASSUME TypeOK, TypeOK', ClientInv, NEW p \in Pids, HelperRevived(p) \/ HelperRespawned(p)
  PROVE  ClientInv'
<1> DEFINE a == app_id[p]
<1>1. /\ p \in exits /\ exits' = exits \ {p} /\ SpawnAndReplay(a, windows'[a])
      /\ UNCHANGED <<coord, known, windows, given_up, app_of_window, app_of_track>>
      /\ Handling
  BY DEF HelperRevived, HelperRespawned, ExitOf
<1>2. a \in Apps
  BY <1>1 DEF TypeOK, HelperTypeOK, Unreaped
<1>3. WindowTables' /\ HandlerUnderWay' /\ (WindowsRouted => WindowsRouted')
  <2>0. handler = "idle" /\ about = {}
    BY <1>1, HandlerIdle
  <2>1. windows' \in [Apps -> [Windows -> Option(WindowReplay)]]
    BY DEF TypeOK, ManagerTypeOK
  <2>2. WindowTables
    BY DEF ClientInv
  <2>3. \A b \in Apps, w \in Windows : windows'[b][w] # None => Owner[w] = b
    BY <1>1, <2>2 DEF WindowTables
  <2>4. \A w \in Windows :
          /\ app_of_window'[w] = IF windows'[Owner[w]][w] = None THEN None ELSE Owner[w]
          /\ app_of_track'[w] = app_of_window'[w]
    BY <1>1, <2>2 DEF WindowTables
  <2>5. QED
    BY <1>1, <1>2, <2>0, <2>1, <2>2, <2>3, <2>4, SpawnRoutes
<1>4. (\E q \in Pids : Spawned(a, q, ReplayFrames(a, windows'[a]))) \/ NotSpawned(a)
  BY <1>1, SpawnAndReplaySpawns
<1>5. ProcessTable'
  BY <1>1, <1>2, <1>4, SpawnTable DEF ClientInv
<1>6. ASSUME coord = "up"
      PROVE  ProcessesHeld' /\ Stations'
  <2>1. /\ a \in known /\ ~given_up[a]
        /\ \A q \in Pids : Alive(q) \/ q \in exits' => app_id[q] # a
    BY <1>1, <1>6, OnlyProcess
  <2>2. ProcessesHeld'
    BY <1>1, <1>2, <1>4, <1>6, <2>1, SpawnHeld DEF ClientInv
  <2>3. \A b \in Apps : b # a => running'[b] = running[b]
    BY <1>2, <1>4 DEF Spawned, NotSpawned, TypeOK, ManagerTypeOK
  <2>4. Stations'
    BY <1>1, <1>6, <2>1, <2>3 DEF ClientInv, Stations, NothingHeld
  <2>5. QED
    BY <2>2, <2>4
<1>7. QED
  BY <1>1, <1>3, <1>5, <1>6 DEF ClientInv

(* The invariant survives every message of the host.                         *)
LEMMA HostStepInv ==
  ASSUME TypeOK, TypeOK', ClientInv, HostStep
  PROVE  ClientInv'
<1>1. CASE UNCHANGED clientVars
  BY <1>1, QuietInv DEF clientVars, helperVars, managerVars, routerVars, ClientInv, WindowTables
<1>2. ASSUME NEW a \in Apps, HostAnnounces(a)
      PROVE  ClientInv'
  BY <1>1, <1>2, AppAnnouncedInv DEF HostAnnounces
<1>3. ASSUME NEW w \in Windows, HostOpens(w)
      PROVE  ClientInv'
  BY <1>1, <1>3, WindowOpenedDormantInv, WindowOpenedRunningInv
     DEF HostOpens, WindowOpenedDropped
<1>4. ASSUME NEW w \in Windows,
             HostResizes(w) \/ HostRetitles(w) \/ HostMinimizes(w) \/ HostRestores(w)
      PROVE  ClientInv'
  <2>1. CASE UpdateIgnored(w)
    BY <1>1, <2>1 DEF UpdateIgnored
  <2>2. ASSUME NEW s \in Sizes, OnWindowResized(w, s)
        PROVE  ClientInv'
    <3>1. Recorded(w) \in WindowReplay => [Recorded(w) EXCEPT !.size = s] \in WindowReplay
      BY DEF WindowReplay
    <3>2. QED
      BY <2>2, <3>1, UpdateWindowInv DEF OnWindowResized
  <2>3. ASSUME NEW t \in Titles, OnWindowTitleChanged(w, t)
        PROVE  ClientInv'
    <3>1. Recorded(w) \in WindowReplay => [Recorded(w) EXCEPT !.title = t] \in WindowReplay
      BY DEF WindowReplay
    <3>2. QED
      BY <2>3, <3>1, UpdateWindowInv DEF OnWindowTitleChanged
  <2>4. CASE OnWindowMinimized(w) \/ OnWindowRestored(w)
    <3>1. ASSUME NEW b \in BOOLEAN
          PROVE  Recorded(w) \in WindowReplay => [Recorded(w) EXCEPT !.minimized = b] \in WindowReplay
      BY <3>1 DEF WindowReplay
    <3>2. QED
      BY <2>4, <3>1, UpdateWindowInv DEF OnWindowMinimized, OnWindowRestored
  <2>5. QED
    BY <1>4, <2>1, <2>2, <2>3, <2>4
       DEF HostResizes, HostRetitles, HostMinimizes, HostRestores
<1>5. ASSUME NEW w \in Windows, HostCloses(w)
      PROVE  ClientInv'
  BY <1>5, OnWindowClosedInv DEF HostCloses
<1>6. ASSUME NEW w \in Windows, HostMaps(w)
      PROVE  ClientInv'
  <2>1. PICK m \in Mappings : OnInputMapping(w, m)
    BY <1>6 DEF HostMaps
  <2>2. CASE InputMappingKnown(w, m)
    <3>1. Recorded(w) \in WindowReplay => [Recorded(w) EXCEPT !.mapping = m] \in WindowReplay
      BY DEF WindowReplay, Option
    <3>2. QED
      BY <2>2, <3>1, UpdateWindowInv DEF InputMappingKnown
  <2>3. CASE InputMappingEarly(w, m)
    BY <2>3, QuietInv DEF InputMappingEarly, helperVars, routerVars, ClientInv, WindowTables
  <2>4. QED
    BY <2>1, <2>2, <2>3 DEF OnInputMapping
<1>7. ASSUME NEW w \in Windows, HostOpenFails(w)
      PROVE  ClientInv'
  BY <1>1, <1>7 DEF HostOpenFails
<1>8. QED
  BY <1>2, <1>3, <1>4, <1>5, <1>6, <1>7 DEF HostStep

(* ClientInv is inductive relative to type correctness.                      *)
LEMMA ClientInvStep == TypeOK /\ ClientInv /\ [Next]_vars => ClientInv'
<1>1. SUFFICES ASSUME TypeOK, ClientInv, [Next]_vars PROVE ClientInv'
  OBVIOUS
<1>2. TypeOK'
  BY <1>1, TypeOKStep
<1>3. CASE UNCHANGED vars
  BY <1>1, <1>3, QuietInv
     DEF vars, clientVars, helperVars, managerVars, routerVars, ClientInv, WindowTables
<1>4. CASE HostStep
  BY <1>1, <1>2, <1>4, HostStepInv
<1>5. CASE HostReceives
  BY <1>1, <1>5, QuietInv
     DEF HostReceives, helperVars, managerVars, routerVars, ClientInv, WindowTables
<1>6. CASE SessionEnds
  <2>1. CASE Disconnected
    BY <1>1, <2>1 DEF Disconnected, helperVars, routerVars, ClientInv, ProcessTable,
       WindowTables, HandlerUnderWay
  <2>2. CASE CoordinatorExits
    BY <1>1, <2>2, QuietInv
       DEF CoordinatorExits, helperVars, routerVars, ClientInv, WindowTables
  <2>3. QED
    BY <1>6, <2>1, <2>2 DEF SessionEnds
<1>7. ASSUME NEW p \in Pids,
             HelperReads(p) \/ HelperLeaves(p) \/ UserActs(p) \/ HelperCrashes(p)
      PROVE  ClientInv'
  BY <1>1, <1>7, HelperStepInv
<1>8. ASSUME NEW p \in Pids, ManagerHears(p) \/ ManagerReaps(p)
      PROVE  ClientInv'
  BY <1>1, <1>2, <1>8, OnHelperUpInv, HelperDroppedInv, HelperReapedInv, HelperReplacedInv
     DEF ManagerHears, ManagerReaps, OnHelperExited
<1>9. ASSUME NEW w \in Windows, VideoArrives(w)
      PROVE  ClientInv'
  BY <1>1, <1>9, QuietInv
     DEF VideoArrives, ForwardVideo, SendDown, managerVars, routerVars, ClientInv, WindowTables
<1>10. CASE ManagerFinishes
  BY <1>1, <1>10, ManagerFinishesInv
<1>11. QED
  BY <1>1, <1>3, <1>4, <1>5, <1>6, <1>7, <1>8, <1>9, <1>10 DEF Next

LEMMA ClientInvInit == Init => ClientInv
BY DataAssumption
   DEF Init, HelperInit, ManagerInit, ClientInv, ProcessTable, WindowTables, HandlerUnderWay,
       ProcessesHeld, Stations, NothingHeld, WindowsRouted, Unreaped, Alive

(* The tables of the manager, the router and the processes agree in every    *)
(* reachable state.                                                          *)
THEOREM TablesAgree == Spec => []ClientInv
BY TypeOKInit, TypeOKStep, ClientInvInit, ClientInvStep, PTL DEF Spec

(* While the session is up an application has at most one helper process,    *)
(* the one whose channel the manager holds: an exit report is never taken    *)
(* for that of a successor (on_helper_exited).                               *)
THEOREM OneHelper == Spec => []HelperOwnership
<1>1. ClientInv => HelperOwnership
  BY DEF ClientInv, ProcessesHeld, HelperOwnership
<1>2. QED
  BY <1>1, TablesAgree, PTL

(* While the session is up a track is routed only while its window is        *)
(* recorded, and to the helper that runs its application, but for the tracks *)
(* that the handler under way is about.                                      *)
THEOREM RoutesFollowHelpers == Spec => []RouteOwnership
<1>1. ClientInv => RouteOwnership
  BY DEF ClientInv, WindowTables, WindowsRouted, RouteOwnership
<1>2. QED
  BY <1>1, TablesAgree, PTL

(* A host message gives no application up, replaces no crashed helper, ends  *)
(* no session, and is answered by none to the host.                          *)
LEMMA HostStepKeeps ==
  ASSUME HostStep
  PROVE  UNCHANGED <<given_up, coord, respawned_once, to_host>>
<1> DEFINE Kept == UNCHANGED <<given_up, coord, respawned_once, to_host>>
<1>1. UNCHANGED clientVars => Kept
  BY DEF clientVars, managerVars
<1>2. \A w, rec, frame : UpdateWindow(w, rec, frame) => Kept
  BY DEF UpdateWindow
<1>3. \A w \in Windows : OnWindowClosed(w) => Kept
  BY DEF OnWindowClosed
<1>4. \A w \in Windows, m \in Mappings : OnInputMapping(w, m) => Kept
  BY <1>2 DEF OnInputMapping, InputMappingKnown, InputMappingEarly
<1>5. \A w \in Windows, t \in Titles, s \in Sizes :
        WindowOpenedDormant(w, t, s) \/ WindowOpenedRunning(w, t, s) => Kept
  BY DEF WindowOpenedDormant, WindowOpenedRunning, AcceptsWindows, Dormant
<1>6. ASSUME NEW a \in Apps, HostAnnounces(a) PROVE Kept
  BY <1>1, <1>6 DEF HostAnnounces, AppAnnounced
<1>7. ASSUME NEW w \in Windows, HostOpens(w) PROVE Kept
  BY <1>1, <1>5, <1>7 DEF HostOpens, WindowOpenedDropped
<1>8. ASSUME NEW w \in Windows, HostResizes(w) \/ HostRetitles(w) PROVE Kept
  BY <1>1, <1>2, <1>8
     DEF HostResizes, HostRetitles, OnWindowResized, OnWindowTitleChanged, UpdateIgnored
<1>9. ASSUME NEW w \in Windows, HostMinimizes(w) \/ HostRestores(w) PROVE Kept
  BY <1>1, <1>2, <1>9
     DEF HostMinimizes, HostRestores, OnWindowMinimized, OnWindowRestored, UpdateIgnored
<1>10. ASSUME NEW w \in Windows, HostCloses(w) \/ HostMaps(w) PROVE Kept
  BY <1>3, <1>4, <1>10 DEF HostCloses, HostMaps
<1>11. ASSUME NEW w \in Windows, HostOpenFails(w) PROVE Kept
  BY <1>1, <1>11 DEF HostOpenFails
<1>12. QED
  BY <1>6, <1>7, <1>8, <1>9, <1>10, <1>11 DEF HostStep

(* Only the end of the session changes the state of the coordinator.         *)
LEMMA SessionEndsOnly ==
  ASSUME [Next]_vars
  PROVE  SessionEnds \/ coord' = coord
<1>1. CASE UNCHANGED vars
  BY <1>1 DEF vars, clientVars, managerVars
<1>2. CASE HostStep
  BY <1>2, HostStepKeeps
<1>3. CASE HostReceives \/ ManagerFinishes \/ \E w \in Windows : VideoArrives(w)
  BY <1>3 DEF HostReceives, ManagerFinishes, FinishReplay, FinishOpen, FinishClose,
     VideoArrives, ForwardVideo, managerVars
<1>4. ASSUME NEW p \in Pids,
             \/ HelperReads(p) \/ HelperLeaves(p) \/ UserActs(p) \/ HelperCrashes(p)
             \/ ManagerHears(p) \/ ManagerReaps(p)
      PROVE  coord' = coord
  BY <1>4 DEF HelperReads, HelperLeaves, UserActs, HelperCrashes, ManagerHears, OnHelperUp,
     ManagerReaps, OnHelperExited, HelperDropped, HelperReaped, HelperRevived,
     HelperRespawned, managerVars
<1>5. QED
  BY <1>1, <1>2, <1>3, <1>4 DEF Next

(* Nothing takes a given-up application back.                                *)
LEMMA GivenUpStays ==
  ASSUME TypeOK, [Next]_vars, NEW a \in Apps, given_up[a]
  PROVE  given_up'[a]
<1>1. given_up' = given_up \/ \E b \in Apps : given_up' = [given_up EXCEPT ![b] = TRUE]
  <2>1. CASE UNCHANGED vars
    BY <2>1 DEF vars, clientVars, managerVars
  <2>2. CASE HostStep
    BY <2>2, HostStepKeeps
  <2>3. CASE \/ HostReceives \/ SessionEnds \/ ManagerFinishes
             \/ \E w \in Windows : VideoArrives(w)
    BY <2>3 DEF HostReceives, SessionEnds, Disconnected, CoordinatorExits, ManagerFinishes,
       FinishReplay, FinishOpen, FinishClose, VideoArrives, ForwardVideo, managerVars
  <2>4. ASSUME NEW p \in Pids,
               \/ HelperReads(p) \/ HelperLeaves(p) \/ UserActs(p) \/ HelperCrashes(p)
               \/ ManagerHears(p)
        PROVE  given_up' = given_up
    BY <2>4 DEF HelperReads, HelperLeaves, UserActs, HelperCrashes, ManagerHears, OnHelperUp,
       managerVars
  <2>5. ASSUME NEW p \in Pids, ManagerReaps(p)
        PROVE  given_up' = given_up \/ given_up' = [given_up EXCEPT ![app_id[p]] = TRUE]
    BY <2>5 DEF ManagerReaps, OnHelperExited, HelperDropped, HelperReaped, HelperRevived,
       HelperRespawned, GiveUpApp, DropAppWindows
  <2>6. ASSUME NEW p \in Pids, ManagerReaps(p)
        PROVE  app_id[p] \in Apps
    BY <2>6 DEF ManagerReaps, OnHelperExited, HelperDropped, HelperReaped, HelperRevived,
       HelperRespawned, ExitOf, TypeOK, HelperTypeOK, Unreaped
  <2>7. QED
    BY <2>1, <2>2, <2>3, <2>4, <2>5, <2>6 DEF Next
<1>2. QED
  BY <1>1 DEF TypeOK, ManagerTypeOK

(* An application that was given up stays given up, without a helper, a      *)
(* window or a route, whatever the host still sends.                         *)
THEOREM GivingUpIsFinal == Spec => StaysGivenUp
<1> DEFINE Final == coord = "up" => \A a \in Apps : given_up[a] =>
                      /\ given_up'[a]
                      /\ running'[a] = None
                      /\ \A w \in Windows :
                           Owner[w] = a => windows'[a][w] = None /\ routes'[w] = None
<1>1. TypeOK /\ ClientInv /\ ClientInv' /\ [Next]_vars => Final
  <2>1. SUFFICES ASSUME TypeOK, ClientInv, ClientInv', [Next]_vars, coord = "up",
                        NEW a \in Apps, given_up[a]
                 PROVE  /\ given_up'[a]
                        /\ running'[a] = None
                        /\ \A w \in Windows :
                             Owner[w] = a => windows'[a][w] = None /\ routes'[w] = None
    OBVIOUS
  <2>2. given_up'[a]
    BY <2>1, GivenUpStays
  <2>3. running'[a] = None /\ \A w \in Windows : windows'[a][w] = None
    <3>1. CASE SessionEnds
      BY <2>1, <3>1 DEF SessionEnds, Disconnected, CoordinatorExits, ClientInv, Stations,
         NothingHeld
    <3>2. CASE coord' = "up"
      BY <2>1, <2>2, <3>2 DEF ClientInv, Stations, NothingHeld
    <3>3. QED
      BY <2>1, <3>1, <3>2, SessionEndsOnly
  <2>4. QED
    BY <2>1, <2>2, <2>3, DataAssumption DEF ClientInv, WindowTables
<1>2. TypeOK /\ ClientInv /\ ClientInv' /\ [Next]_vars => [Final]_vars
  BY <1>1
<1>3. QED
  BY <1>2, TypeOKInit, TypeOKStep, ClientInvInit, ClientInvStep, PTL DEF Spec, StaysGivenUp
=============================================================================
