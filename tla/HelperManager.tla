--------------------------- MODULE HelperManager ---------------------------
(* The coordinator's HelperManager (client/src/coordinator.rs) with the      *)
(* VideoRouter it steers (client/src/router.rs): one mirror-helper process   *)
(* per shared application, fed, replaced and given up.                       *)
(*                                                                           *)
(* All handlers run on the coordinator's main thread, one event at a time.   *)
(* Events come from independent producers (the data channel, one reader and  *)
(* one reaper thread per helper), so the order in which the queue holds them *)
(* is any interleaving: a handler may run as soon as its producer has        *)
(* something to report.  The manager's tables are the main thread's own, so  *)
(* a handler is one action, or two where it both feeds a helper and sets or  *)
(* clears routes: between the two the tasks that read the tracks see the     *)
(* routes as they are, and helpers go on.                                    *)
EXTENDS HelperProcess

VARIABLES
  coord,            \* "up"; "draining": Disconnected handled, the queue is
                    \* still drained; "exited": the coordinator process is gone
  known,            \* keys of apps
  running,          \* AppState.running: the helper whose channel is held
  windows,          \* AppState.windows
  respawned_once,   \* AppState.respawned_once
  given_up,         \* AppState.given_up
  app_of_window, app_of_track, pending_mappings,
  routes,           \* VideoRouter: the helper channel a track is routed to
  progress,         \* VideoRouter: the helper that last reported progress on a
                    \* track (the code keeps the instant), None: never
  to_host,          \* client messages on their way to the host
  handler,          \* the handler whose second half is still to come, "idle":
                    \* none
  about             \* the windows it is about

managerVars == <<coord, known, running, windows, respawned_once, given_up,
                 app_of_window, app_of_track, pending_mappings, handler, about>>
routerVars == <<routes, progress>>
clientVars == <<helperVars, managerVars, routerVars, to_host>>

UnsubscribeApp(a) == [type |-> "UnsubscribeApp", app |-> a]

ManagerInit ==
  /\ coord = "up"
  /\ known = {}
  /\ running = [a \in Apps |-> None]
  /\ windows = [a \in Apps |-> [w \in Windows |-> None]]
  /\ respawned_once = [a \in Apps |-> FALSE]
  /\ given_up = [a \in Apps |-> FALSE]
  /\ app_of_window = [w \in Windows |-> None]
  /\ app_of_track = [w \in Windows |-> None]
  /\ pending_mappings = [w \in Windows |-> None]
  /\ routes = [w \in Windows |-> None]
  /\ progress = [w \in Windows |-> None]
  /\ to_host = <<>>
  /\ handler = "idle" /\ about = {}

(* user_event drains the queue also after Disconnected has been handled.     *)
CoordinatorRuns == coord \in {"up", "draining"}

(* The main thread takes the next event.                                     *)
Handling == CoordinatorRuns /\ handler = "idle"

(* It returns from the second half of a handler.                             *)
Return == handler' = "idle" /\ about' = {}

(* Some Sender of p's channel survives, so its writer thread keeps the       *)
(* socket's write half open.                                                 *)
ChannelHeld(p) ==
  /\ CoordinatorRuns
  /\ \/ \E a \in Apps : running[a] = p
     \/ \E w \in Windows : routes[w] = p

----------------------------------------------------------------------------
(* Helpers of the handlers.                                                  *)

(* exit_action: what a helper's exit status asks for.                        *)
ExitAction(reason, respawned) ==
  CASE reason \in {"UserQuit", "Eof"} -> "Unsubscribe"
    [] reason = "Idle"                -> "Reap"
    [] ~respawned                     -> "Respawn"
    [] OTHER                          -> "GiveUp"

(* forward: the frame goes to the running helper, if there is one.           *)
Forward(a, frames) == SendDown(running[a], frames)

(* The kernel may hand out p; the model also waits until no route names it,  *)
(* because a route stands for the dead helper's own channel.                 *)
Unused(p) == Free(p) /\ \A w \in Windows : routes[w] # p

(* spawn_and_replay with windows ws recorded: a fresh helper is fed the      *)
(* replay, and then every track is to be routed to it; when the spawn fails  *)
(* nothing but running has changed.                                          *)
SpawnAndReplay(a, ws) ==
  /\ \/ \E p \in Pids :
          /\ Unused(p)
          /\ Fork(p, a, ReplayFrames(a, ws))
          /\ running' = [running EXCEPT ![a] = p]
          /\ handler' = "replaying" /\ about' = Present(ws)
     \/ /\ "spawn" \in Faults
        /\ running' = [running EXCEPT ![a] = None]
        /\ UNCHANGED <<app_id, phase, exit_reason, reader, down, up, world, quit, handler, about>>
  /\ UNCHANGED routerVars

(* route_track, where a helper runs.                                         *)
RouteTracks(ws) ==
  routes' = [w \in Windows |-> IF w \in ws /\ running[Owner[w]] # None
                              THEN running[Owner[w]] ELSE routes[w]]

(* The end of spawn_and_replay: the tracks are routed and lose their         *)
(* progress.                                                                 *)
FinishReplay ==
  /\ handler = "replaying"
  /\ RouteTracks(about)
  /\ progress' = [w \in Windows |-> IF w \in about THEN None ELSE progress[w]]
  /\ Return
  /\ UNCHANGED <<helperVars, coord, known, running, windows, respawned_once, given_up,
                 app_of_window, app_of_track, pending_mappings, to_host>>

(* Mutants: the routes survive; the record is replaced, not emptied.         *)
KeepRoutes(a) ==
  LET Clear(f) == [w \in Windows |-> IF windows[a][w] # None THEN None ELSE f[w]]
  IN  /\ windows' = [windows EXCEPT ![a] = [w \in Windows |-> None]]
      /\ app_of_window' = Clear(app_of_window)
      /\ app_of_track' = Clear(app_of_track)
      /\ UNCHANGED <<routes, progress>>

DropRecord(a) ==
  /\ windows' = [windows EXCEPT ![a] = None]
  /\ UNCHANGED <<app_of_window, app_of_track, routes, progress>>

(* drop_app_windows: the windows of an application leave every index.        *)
DropAppWindows(a) ==
  LET Clear(f) == [w \in Windows |-> IF windows[a][w] # None THEN None ELSE f[w]]
  IN  /\ windows' = [windows EXCEPT ![a] = [w \in Windows |-> None]]
      /\ app_of_window' = Clear(app_of_window)
      /\ app_of_track' = Clear(app_of_track)
      /\ routes' = Clear(routes)
      /\ progress' = Clear(progress)

(* Mutants: the host is not told; the application is not marked.             *)
GiveUpSilently(a) ==
  /\ running' = [running EXCEPT ![a] = None]
  /\ given_up' = [given_up EXCEPT ![a] = TRUE]
  /\ DropAppWindows(a)
  /\ UNCHANGED to_host

GiveUpUnmarked(a) ==
  /\ running' = [running EXCEPT ![a] = None]
  /\ DropAppWindows(a)
  /\ to_host' = Append(to_host, UnsubscribeApp(a))
  /\ UNCHANGED given_up

(* The application is over: given_up, drop_app_windows, UnsubscribeApp.      *)
GiveUpApp(a) ==
  /\ running' = [running EXCEPT ![a] = None]
  /\ given_up' = [given_up EXCEPT ![a] = TRUE]
  /\ DropAppWindows(a)
  /\ to_host' = Append(to_host, UnsubscribeApp(a))

----------------------------------------------------------------------------
(* on_host_message.                                                          *)

(* AppAnnounced: a first helper, which gets the icon and no windows.         *)
AppAnnounced(a) ==
  /\ Handling /\ a \notin known
  /\ known' = known \cup {a}
  /\ \/ \E p \in Pids :
          /\ Unused(p)
          /\ Fork(p, a, IconFrames(a))
          /\ running' = [running EXCEPT ![a] = p]
     \/ /\ "spawn" \in Faults
        /\ UNCHANGED <<app_id, phase, exit_reason, reader, down, up, world, quit, running>>
  /\ UNCHANGED <<exits, coord, windows, respawned_once, given_up, app_of_window,
                 app_of_track, pending_mappings, handler, about, routerVars, to_host>>

(* WindowOpened of an application that is unknown (its announcement found no *)
(* bundle) or given up is dropped.  Otherwise the window is recorded with    *)
(* the mapping that came ahead of it, and                                    *)
(*   - without a running helper one is spawned and replays it;               *)
(*   - with one, the announcement and the mapping are forwarded and the      *)
(*     mapping is used up; then the track is routed.                         *)
AcceptsAnyway(a) == Handling /\ a \in known      \* mutant: given up or not
AcceptsWindows(a) == Handling /\ a \in known /\ ~given_up[a]

AlwaysDormant(a) == TRUE                         \* mutant: spawns regardless
Dormant(a) == running[a] = None

NewRecord(w, t, s) == OpenedReplay(t, s, pending_mappings[w])

(* Mutant: the track index is forgotten.                                     *)
RecordUntracked(w, t, s) ==
  /\ windows' = [windows EXCEPT ![Owner[w]][w] = NewRecord(w, t, s)]
  /\ app_of_window' = [app_of_window EXCEPT ![w] = Owner[w]]
  /\ UNCHANGED app_of_track

RecordWindow(w, t, s) ==
  /\ windows' = [windows EXCEPT ![Owner[w]][w] = NewRecord(w, t, s)]
  /\ app_of_window' = [app_of_window EXCEPT ![w] = Owner[w]]
  /\ app_of_track' = [app_of_track EXCEPT ![w] = Owner[w]]

WindowOpenedDormant(w, t, s) ==
  LET a == Owner[w]
  IN  /\ AcceptsWindows(a) /\ Dormant(a)
      /\ RecordWindow(w, t, s)
      /\ SpawnAndReplay(a, [windows[a] EXCEPT ![w] = NewRecord(w, t, s)])
      /\ UNCHANGED <<exits, coord, known, respawned_once, given_up,
                     pending_mappings, to_host>>

RouteFirst == <<"route", "announce">>            \* mutant
OpenOrder == <<"announce", "route">>

OpenCall(w, rec, call) ==
  \/ /\ call = "announce"
     /\ Forward(Owner[w], <<WindowOpened(w, rec.title, rec.size)>>
           \o (IF rec.mapping # None THEN <<InputMapping(w, rec.mapping)>> ELSE <<>>))
     /\ UNCHANGED <<exits, routes>>
  \/ /\ call = "route" /\ RouteTracks({w})
     /\ UNCHANGED helperVars

WindowOpenedRunning(w, t, s) ==
  LET a == Owner[w]
  IN  /\ AcceptsWindows(a) /\ ~Dormant(a)
      /\ RecordWindow(w, t, s)
      /\ pending_mappings' = [pending_mappings EXCEPT ![w] = None]
      /\ OpenCall(w, NewRecord(w, t, s), OpenOrder[1])
      /\ handler' = "opening" /\ about' = {w}
      /\ UNCHANGED <<coord, known, running, respawned_once, given_up, progress, to_host>>

FinishOpen(w) ==
  /\ handler = "opening" /\ w \in about
  /\ OpenCall(w, windows[Owner[w]][w], OpenOrder[2])
  /\ Return
  /\ UNCHANGED <<coord, known, running, windows, respawned_once, given_up, app_of_window,
                 app_of_track, pending_mappings, progress, to_host>>

WindowOpenedDropped(w) ==
  /\ Handling /\ (Owner[w] \notin known \/ given_up[Owner[w]])
  /\ UNCHANGED clientVars

(* WindowResized, WindowTitleChanged, WindowMinimized, WindowRestored: the   *)
(* replay record follows and the message is forwarded.                       *)
UpdateWindow(w, rec, frame) ==
  LET a == app_of_window[w]
  IN  /\ Handling /\ a # None
      /\ windows' = IF windows[a][w] # None
                    THEN [windows EXCEPT ![a][w] = rec] ELSE windows
      /\ Forward(a, <<frame>>)
      /\ UNCHANGED <<exits, coord, known, running, respawned_once, given_up, app_of_window,
                     app_of_track, pending_mappings, handler, about, routerVars, to_host>>

Recorded(w) == windows[app_of_window[w]][w]

OnWindowResized(w, s) ==
  UpdateWindow(w, [Recorded(w) EXCEPT !.size = s], WindowResized(w, s))
OnWindowTitleChanged(w, t) ==
  UpdateWindow(w, [Recorded(w) EXCEPT !.title = t], WindowTitleChanged(w, t))
OnWindowMinimized(w) ==
  UpdateWindow(w, [Recorded(w) EXCEPT !.minimized = TRUE], WindowMinimized(w))
OnWindowRestored(w) ==
  UpdateWindow(w, [Recorded(w) EXCEPT !.minimized = FALSE], WindowRestored(w))

(* The same messages about a window the manager does not know are ignored.   *)
UpdateIgnored(w) ==
  /\ Handling /\ app_of_window[w] = None
  /\ UNCHANGED clientVars

(* WindowClosed: the buffered mapping goes in any case; the route of a known *)
(* window is cleared, then the message is forwarded and the window forgotten.*)
ForwardFirst == <<"forward", "unroute">>         \* mutant
CloseOrder == <<"unroute", "forward">>

CloseCall(w, call) ==
  LET a == app_of_window[w]
  IN  \/ /\ call = "unroute"
         /\ routes' = [routes EXCEPT ![w] = None]
         /\ progress' = [progress EXCEPT ![w] = None]
         /\ UNCHANGED <<helperVars, windows, app_of_window, app_of_track>>
      \/ /\ call = "forward"
         /\ Forward(a, <<WindowClosed(w)>>)
         /\ windows' = [windows EXCEPT ![a][w] = None]
         /\ app_of_window' = [app_of_window EXCEPT ![w] = None]
         /\ app_of_track' = IF windows[a][w] # None THEN [app_of_track EXCEPT ![w] = None]
                            ELSE app_of_track
         /\ UNCHANGED <<exits, routerVars>>

OnWindowClosed(w) ==
  /\ Handling
  /\ pending_mappings' = [pending_mappings EXCEPT ![w] = None]
  /\ IF app_of_window[w] = None
     THEN UNCHANGED <<helperVars, windows, app_of_window, app_of_track, handler, about, routerVars>>
     ELSE CloseCall(w, CloseOrder[1]) /\ handler' = "closing" /\ about' = {w}
  /\ UNCHANGED <<coord, known, running, respawned_once, given_up, to_host>>

FinishClose(w) ==
  /\ handler = "closing" /\ w \in about
  /\ CloseCall(w, CloseOrder[2])
  /\ Return
  /\ UNCHANGED <<coord, known, running, respawned_once, given_up, pending_mappings, to_host>>

(* InputMapping: remembered for replay and forwarded, or buffered when it    *)
(* comes before its WindowOpened.                                            *)
InputMappingKnown(w, m) ==
  UpdateWindow(w, [Recorded(w) EXCEPT !.mapping = m], InputMapping(w, m))

InputMappingEarly(w, m) ==
  /\ Handling /\ app_of_window[w] = None
  /\ pending_mappings' = [pending_mappings EXCEPT ![w] = m]
  /\ UNCHANGED <<helperVars, coord, known, running, windows, respawned_once, given_up,
                 app_of_window, app_of_track, handler, about, routerVars, to_host>>

OnInputMapping(w, m) == InputMappingKnown(w, m) \/ InputMappingEarly(w, m)

----------------------------------------------------------------------------
(* on_helper_up: the next message of p's reader thread.  Progress counts     *)
(* only for a track that p's application owns.                               *)
OnHelperUp(p) ==
  /\ Handling /\ up[p] # <<>>
  /\ LET msg == Head(up[p])
     IN  IF msg.type = "Relay"
         THEN /\ to_host' = Append(to_host, msg)
              /\ UNCHANGED progress
         ELSE /\ progress' = IF app_of_track[msg.window] = app_id[p]
                             THEN [progress EXCEPT ![msg.window] = p] ELSE progress
              /\ UNCHANGED to_host
  /\ up' = [up EXCEPT ![p] = Tail(@)]
  /\ UNCHANGED <<app_id, phase, exit_reason, exits, reader, down, world, quit,
                 managerVars, routes>>

----------------------------------------------------------------------------
(* on_helper_exited: the reaper's report on p, one action per ExitAction.    *)
ExitOf(p, action) ==
  /\ Handling /\ p \in exits
  /\ ExitAction(exit_reason[p], respawned_once[app_id[p]]) = action
  /\ exits' = exits \ {p}

HelperDropped(p) ==
  /\ ExitOf(p, "Unsubscribe") \/ ExitOf(p, "GiveUp")
  /\ GiveUpApp(app_id[p])
  /\ UNCHANGED <<app_id, phase, exit_reason, reader, down, up, world, quit,
                 coord, known, respawned_once, pending_mappings, handler, about>>

(* Windows are recorded of an application whose helper idled out.            *)
NeverWanted(a) == FALSE                          \* mutant: reaps regardless
StillWanted(a) == Present(windows[a]) # {}

(* Idle with no windows left: dormant until the next WindowOpened.           *)
HelperReaped(p) ==
  LET a == app_id[p]
  IN  /\ ExitOf(p, "Reap")
      /\ ~StillWanted(a)
      /\ running' = [running EXCEPT ![a] = None]
      /\ UNCHANGED <<app_id, phase, exit_reason, reader, down, up, world, quit, coord,
                     known, windows, respawned_once, given_up, app_of_window, app_of_track,
                     pending_mappings, handler, about, routerVars, to_host>>

(* Idle, but a window was opened on the leaving helper: revive at once.      *)
HelperRevived(p) ==
  LET a == app_id[p]
  IN  /\ ExitOf(p, "Reap")
      /\ StillWanted(a)
      /\ SpawnAndReplay(a, windows[a])
      /\ UNCHANGED <<coord, known, windows, respawned_once, given_up, app_of_window,
                     app_of_track, pending_mappings, to_host>>

HelperRespawned(p) ==
  LET a == app_id[p]
  IN  /\ ExitOf(p, "Respawn")
      /\ respawned_once' = [respawned_once EXCEPT ![a] = TRUE]
      /\ SpawnAndReplay(a, windows[a])
      /\ UNCHANGED <<coord, known, windows, given_up, app_of_window,
                     app_of_track, pending_mappings, to_host>>

OnHelperExited(p) ==
  HelperDropped(p) \/ HelperReaped(p) \/ HelperRevived(p) \/ HelperRespawned(p)

----------------------------------------------------------------------------
(* UiEvent::Disconnected: shutdown_all lets go of every AppState's sender;   *)
(* the routes keep theirs.                                                   *)
Disconnected ==
  /\ coord = "up"
  /\ coord' = "draining"
  /\ Handling
  /\ running' = [a \in Apps |-> None]
  /\ UNCHANGED <<helperVars, known, windows, respawned_once, given_up, app_of_window,
                 app_of_track, pending_mappings, handler, about, routerVars, to_host>>

(* The loop has exited, or the user quit the coordinator: its sockets close. *)
CoordinatorExits ==
  /\ Handling
  /\ coord' = "exited"
  /\ UNCHANGED <<helperVars, known, running, windows, respawned_once, given_up, app_of_window,
                 app_of_track, pending_mappings, handler, about, routerVars, to_host>>

(* VideoRouter::forward, from a track's read task: an access unit goes to    *)
(* the routed helper.  Without a route it is dropped, which changes nothing. *)
(* The task runs beside the main thread, also in the middle of a handler.    *)
ForwardVideo(w) ==
  /\ CoordinatorRuns /\ routes[w] # None
  /\ SendDown(routes[w], <<Video(w)>>)
  /\ UNCHANGED <<exits, managerVars, routerVars, to_host>>

----------------------------------------------------------------------------
ManagerTypeOK ==
  /\ coord \in {"up", "draining", "exited"}
  /\ known \subseteq Apps
  /\ running \in [Apps -> Option(Pids)]
  /\ windows \in [Apps -> [Windows -> Option(WindowReplay)]]
  /\ respawned_once \in [Apps -> BOOLEAN]
  /\ given_up \in [Apps -> BOOLEAN]
  /\ app_of_window \in [Windows -> Option(Apps)]
  /\ app_of_track \in [Windows -> Option(Apps)]
  /\ pending_mappings \in [Windows -> Option(Mappings)]
  /\ routes \in [Windows -> Option(Pids)]
  /\ progress \in [Windows -> Option(Pids)]
  /\ to_host \in Seq(UpMessage \cup {UnsubscribeApp(a) : a \in Apps})
  /\ handler \in {"idle", "opening", "closing", "replaying"}
  /\ about \subseteq Windows
=============================================================================
