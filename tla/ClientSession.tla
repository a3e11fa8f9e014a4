--------------------------- MODULE ClientSession ---------------------------
(* The client of one session: the coordinator's helper manager, its mirror   *)
(* helpers, the user in front of them, and the host as the client sees it.   *)
(*                                                                           *)
(* The control data channel is reliable and ordered.  Between a message's    *)
(* arrival and its handling it waits in the coordinator's queue; taking both *)
(* at once loses no behaviour, since nothing else looks at that queue, and a *)
(* message that the host sent before it learnt of an UnsubscribeApp is one   *)
(* sent while that request was still in to_host.                             *)
EXTENDS HelperManager, HostStream, FiniteSets

CONSTANTS
  MaxDown,    \* bound: the host and the video source pause while a helper
              \* has this many frames waiting
  MaxToHost,  \* bound on the client messages under way
  Traffic     \* the stimuli the environment of this instance produces

ASSUME SessionAssumption ==
  Traffic \subseteq {"update", "mapping", "video", "input", "quit", "end"}

vars == <<clientVars, streamVars>>

Init == HelperInit /\ ManagerInit /\ StreamInit

----------------------------------------------------------------------------
(* The host's messages, in the orders the host can send them (HostStream),   *)
(* each handled by the manager.                                              *)

(* The queue of the helper that would get a frame about w has room.          *)
Room(w) ==
  running[Owner[w]] # None => Len(down[running[Owner[w]]]) < MaxDown

HostAnnounces(a) ==
  /\ Announces(a)
  /\ AppAnnounced(a) \/ ("bundle" \in Faults /\ Handling /\ UNCHANGED clientVars)

HostOpens(w) ==
  /\ Opens(w) /\ Room(w)
  /\ \/ \E t \in Titles, s \in Sizes :
          WindowOpenedDormant(w, t, s) \/ WindowOpenedRunning(w, t, s)
     \/ WindowOpenedDropped(w)

(* The host could not capture the window: the client hears nothing of it     *)
(* until it is renamed, resized, minimized or closed.                        *)
HostOpenFails(w) ==
  /\ "open" \in Faults
  /\ OpenFails(w)
  /\ UNCHANGED clientVars

HostResizes(w) ==
  /\ "update" \in Traffic
  /\ Resizes(w) /\ Room(w)
  /\ (\E s \in Sizes : OnWindowResized(w, s)) \/ UpdateIgnored(w)

HostRetitles(w) ==
  /\ "update" \in Traffic
  /\ Retitles(w) /\ Room(w)
  /\ (\E t \in Titles : OnWindowTitleChanged(w, t)) \/ UpdateIgnored(w)

HostMinimizes(w) ==
  /\ "update" \in Traffic
  /\ Minimizes(w) /\ Room(w)
  /\ OnWindowMinimized(w) \/ UpdateIgnored(w)

HostRestores(w) ==
  /\ "update" \in Traffic
  /\ Restores(w) /\ Room(w)
  /\ OnWindowRestored(w) \/ UpdateIgnored(w)

HostCloses(w) ==
  /\ Closes(w) /\ Room(w)
  /\ OnWindowClosed(w)

HostMaps(w) ==
  /\ "mapping" \in Traffic
  /\ Maps(w) /\ Room(w)
  /\ \E m \in Mappings : OnInputMapping(w, m)

(* The host takes the next client message.  UnsubscribeApp ends the sharing  *)
(* of the application without closing its windows one by one; input is       *)
(* replayed into the application, which may then do anything the actions     *)
(* above allow.                                                              *)
HostReceives ==
  /\ to_host # <<>>
  /\ LET msg == Head(to_host)
     IN  IF msg.type = "UnsubscribeApp" THEN Drops(msg.app) ELSE UNCHANGED streamVars
  /\ to_host' = Tail(to_host)
  /\ UNCHANGED <<helperVars, managerVars, routerVars>>

HostStep ==
  \/ \E a \in Apps : HostAnnounces(a)
  \/ \E w \in Windows : \/ HostOpens(w) \/ HostOpenFails(w) \/ HostCloses(w)
                        \/ HostResizes(w) \/ HostRetitles(w)
                        \/ HostMinimizes(w) \/ HostRestores(w) \/ HostMaps(w)

----------------------------------------------------------------------------
(* Steps of one helper, and the coordinator's reactions.                     *)
HelperReads(p) ==
  /\ \/ DrainControl(p) \/ CreateWindowFails(p)
     \/ DecodeVideo(p) \/ DecoderPanics(p)
     \/ ReadEof(p, ~ChannelHeld(p))
  /\ UNCHANGED <<managerVars, routerVars, to_host, streamVars>>

HelperLeaves(p) ==
  /\ LeaveLoop(p)
  /\ UNCHANGED <<managerVars, routerVars, to_host, streamVars>>

UserActs(p) ==
  /\ \/ "quit" \in Traffic /\ UserQuits(p)
     \/ "input" \in Traffic /\ \E w \in Windows : UserInput(p, w)
  /\ UNCHANGED <<managerVars, routerVars, to_host, streamVars>>

HelperCrashes(p) ==
  /\ Crash(p)
  /\ UNCHANGED <<managerVars, routerVars, to_host, streamVars>>

ManagerHears(p) ==
  /\ OnHelperUp(p) /\ Len(to_host) < MaxToHost
  /\ UNCHANGED streamVars

ManagerReaps(p) == OnHelperExited(p) /\ UNCHANGED streamVars

(* The second half of the handler under way.                                 *)
ManagerFinishes ==
  /\ FinishReplay \/ \E w \in Windows : FinishOpen(w) \/ FinishClose(w)
  /\ UNCHANGED streamVars

VideoArrives(w) ==
  /\ "video" \in Traffic
  /\ routes[w] # None => Len(down[routes[w]]) < MaxDown
  /\ ForwardVideo(w)
  /\ UNCHANGED streamVars

SessionEnds ==
  /\ "end" \in Traffic
  /\ Disconnected \/ CoordinatorExits
  /\ UNCHANGED streamVars

Next ==
  \/ HostStep \/ HostReceives \/ SessionEnds \/ ManagerFinishes
  \/ \E p \in Pids : \/ HelperReads(p) \/ HelperLeaves(p)
                     \/ UserActs(p) \/ HelperCrashes(p)
                     \/ ManagerHears(p) \/ ManagerReaps(p)
  \/ \E w \in Windows : VideoArrives(w)

Spec == Init /\ [][Next]_vars

(* Threads are scheduled: a helper drains its socket and leaves its loop, the*)
(* coordinator ends the handler it is in, and handles what its reader and    *)
(* reaper threads post: they wait while another handler is under way, but its*)
(* queue is first in, first out, so that none waits for ever.  Nothing is    *)
(* assumed of the host, the user, the video source or the failures.          *)
Fairness ==
  /\ WF_vars(ManagerFinishes)
  /\ \A p \in Pids : /\ WF_vars(HelperReads(p))
                     /\ WF_vars(HelperLeaves(p))
                     /\ SF_vars(ManagerHears(p))
                     /\ SF_vars(ManagerReaps(p))

FairSpec == Spec /\ Fairness /\ WF_vars(HostReceives)

----------------------------------------------------------------------------
TypeOK ==
  /\ HelperTypeOK
  /\ ManagerTypeOK
  /\ host_windows \in [Windows -> WindowStates]
  /\ announced \subseteq Apps
  /\ subscribed \subseteq Apps

(* While the session is up an application has at most one helper process,    *)
(* and it is the one whose channel the manager holds: an exit report can     *)
(* never be taken for the exit of a successor (coordinator.rs on_helper_exited*)
(* resets `running` by application, not by process).                         *)
HelperOwnership ==
  coord = "up" => \A p \in Pids : Unreaped(p) => running[app_id[p]] = p

(* What a running helper will show once it has drained its queue is exactly  *)
(* what the manager remembers: no order of opening, closing, minimizing,     *)
(* renaming, resizing, mapping, idling out and respawning loses an update or *)
(* applies one twice (replay_frames, forward, pending_mappings).             *)
ReplayFidelity ==
  \A a \in Apps :
    LET p == running[a]
    IN  p # None /\ Alive(p) /\ reader[p] =>
          Drained(world[p], down[p]).mirrors = MirrorsOf(windows[a])

(* A track is routed only while its window is recorded, and to the helper    *)
(* that runs its application (set_route, clear_route, drop_app_windows),     *)
(* except inside a handler that is about to route it or has just stopped.    *)
RouteOwnership ==
  coord = "up" =>
    \A w \in Windows :
      LET a == Owner[w]
      IN  /\ routes[w] # None => windows[a][w] # None
          /\ windows[a][w] # None /\ running[a] # None /\ w \notin about
                => routes[w] = running[a]

(* Video never reaches a helper outside the life of its mirror, where it     *)
(* would be buffered as an early frame with nothing left to evict it: the    *)
(* tasks that read the tracks run beside the handlers, and a route is set    *)
(* only after the announcement or the replay and cleared before the close.   *)
NoOrphanFrames ==
  \A p \in Pids : Alive(p) => Drained(world[p], down[p]).early = {}

(* A helper is sent its application's icon exactly once per (re)spawn        *)
(* (initial_icon_frame's comment).                                           *)
IconOnce ==
  \A p \in Pids :
    Alive(p) => Drained(world[p], down[p]).icons = Len(IconFrames(app_id[p]))

(* The host stops sharing an application exactly when the client gave it up, *)
(* told once: the request is under way or has been taken, never both.        *)
RequestsFor(a) == {i \in DOMAIN to_host : to_host[i] = UnsubscribeApp(a)}

UnsubscribeOnce ==
  coord = "up" =>
    \A a \in Apps :
      given_up[a] <=> \/ /\ Cardinality(RequestsFor(a)) = 1
                        /\ a \in subscribed
                     \/ /\ RequestsFor(a) = {}
                        /\ a \notin subscribed

(* An application that was given up stays given up: no helper, no window, no *)
(* route, whatever the host still sends.                                     *)
StaysGivenUp ==
  [][coord = "up" => \A a \in Apps : given_up[a] =>
       /\ given_up'[a]
       /\ running'[a] = None
       /\ \A w \in Windows :
            Owner[w] = a => windows'[a][w] = None /\ routes'[w] = None]_vars

(* A recorded window is not left stranded: as long as it stays recorded and  *)
(* the session is up, some helper ends up showing it, also when it was opened*)
(* on a helper that was idling out or about to crash.                        *)
Shown(w) ==
  LET p == running[Owner[w]]
  IN  p # None /\ phase[p] = "live" /\ world[p].mirrors[w] # None

EveryWindowShown ==
  \A w \in Windows :
    (windows[Owner[w]][w] # None) ~>
      (Shown(w) \/ windows[Owner[w]][w] = None \/ coord # "up")

(* A helper whose last window closed frees its Dock tile: it exits, unless   *)
(* another window is opened on it first (README: "If a helper's last window  *)
(* closes it exits").                                                        *)
Emptied(p) ==
  LET v == Drained(world[p], down[p])
  IN  Alive(p) /\ v.saw /\ Present(v.mirrors) = {}

EmptiedHelpersLeave ==
  \A p \in Pids : Emptied(p) ~> (~Alive(p) \/ ~Emptied(p))

(* No helper outlives the coordinator: its sockets close, every helper reads *)
(* the end of its stream and leaves (HelperEvent::Eof).                      *)
HelpersFollow ==
  (coord = "exited") ~> (\A p \in Pids : ~Alive(p))

----------------------------------------------------------------------------
(* What comments and documentation say, and the code does not keep.          *)

(* "Cmd-Q on a mirror quits just that app's mirrors and tells the host to    *)
(* stop streaming it" (README): the exit of a helper that the user quit is   *)
(* handled by giving the application up.                                     *)
QuitUnsubscribes ==
  [][\A p \in Pids :
       quit[p] /\ p \in exits \ exits' => given_up'[app_id[p]]]_vars
=============================================================================
