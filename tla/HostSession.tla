---------------------------- MODULE HostSession ----------------------------
(* One session at the host (host/src/session.rs): the reconciler loop of     *)
(* run_session_body, between the window server it polls and the client it    *)
(* keeps informed, with the mapping forwarder and the input worker beside it.*)
(*                                                                           *)
(* Before the loop the session is set up (offer, answer, control channel,    *)
(* accessibility watcher), after it everything is taken down again.  All of  *)
(* it is one task: a step runs from one await to the next.  Between two      *)
(* steps the other threads and tasks run: captured frames, the forwarder,    *)
(* the worker, client messages, the loss of the peer.  main.rs then serves   *)
(* the next client from the same initial state; a request that is no offer   *)
(* ends run_session before anything exists.                                  *)
EXTENDS MappingForwarder, InputWorker

CONSTANTS
  Faults,     \* "open", "restart": a capture cannot be started;
              \* "reappear": a window id that left the polls comes back;
              \* "setup": a step of the set-up fails
  Traffic     \* "input", "frames", "unsubscribe", "end": what else goes on

ASSUME HostAssumption ==
  /\ Faults \subseteq {"open", "restart", "reappear", "setup"}
  /\ Traffic \subseteq {"input", "frames", "unsubscribe", "end"}

VARIABLES
  pc,               \* where the session waits
  peer,             \* the peer connection is open
  watcher,          \* AxWatcher's thread: "none", "starting", "running" its loop
  pids, live,       \* AppTracker
  runtimes,         \* per window: "none", "capturing", "paused" (no capture)
  tracks,           \* the peer's tracks
  pli_pipelines,    \* tracks whose keyframe requests find an encoder
  announced,        \* applications announced to the client
  events,           \* events of the current pass that are still to be handled
  subject,          \* the window whose events are being handled, or None
  closing,          \* windows an unsubscription has still to take down
  tracks_changed,
  unsub,            \* the unsubscription channel
  disconnected,     \* set by the peer's disconnect hook
  view,             \* what a client makes of the messages (MirrorFrames)
  seen,             \* history: window ids that were tracked once
  host_windows      \* history: what the events handled so far say (HostStream)

loopVars == <<pc, pids, live, runtimes, tracks, pli_pipelines, announced, events,
              subject, closing, tracks_changed>>
setupVars == <<peer, watcher>>
besideVars == <<mappingVars, inputVars, unsub, disconnected>>
toldVars == <<view, host_windows>>
vars == <<loopVars, setupVars, besideVars, toldVars, seen>>

(* The stream of messages a client can count on.                             *)
Stream == INSTANCE HostStream WITH subscribed <- pids

Init ==
  /\ MappingInit /\ InputInit
  /\ pc = "offer" /\ peer = FALSE /\ watcher = "none"
  /\ pids = Apps
  /\ live = [w \in Windows |-> None]
  /\ runtimes = [w \in Windows |-> "none"]
  /\ tracks = {} /\ pli_pipelines = {}
  /\ announced = {}
  /\ events = {} /\ subject = None /\ closing = {} /\ tracks_changed = FALSE
  /\ unsub = <<>>
  /\ disconnected = FALSE
  /\ view = EmptyWorld
  /\ seen = {}
  /\ host_windows = [w \in Windows |-> "absent"]

(* peer.send: nothing reaches a client that is gone.                         *)
Tell(msg) == view' = IF disconnected THEN view ELSE Deliver(view, msg)

(* A running capture is stopped, or started with a fresh frame sink.         *)
Captures(w, status) ==
  /\ runtimes' = [runtimes EXCEPT ![w] = status]
  /\ FreshSinks({w})
  /\ UNCHANGED <<meta, last_sent, sending>>

(* The loop over the events: all those of a window whose turn has begun, in  *)
(* the order of their places; then those of a window of the first loop of    *)
(* the diff that has any left.                                               *)
Foremost(e) ==
  \A f \in events :
    IF f.window = e.window THEN PushPlace(e) <= PushPlace(f)
    ELSE \/ e.window = subject
         \/ f.window # subject /\ PushLoop(e) <= PushLoop(f)

NextIs(e, type) == pc = "pass" /\ e \in events /\ Foremost(e) /\ e.type = type

(* What the events handled so far say of a window.                           *)
StatusAfter(e, before) ==
  CASE e.type \in {"WindowOpened", "WindowRestored"} -> "normal"
    [] e.type = "WindowMinimized" -> "minimized"
    [] e.type = "WindowClosed" -> "absent"
    [] OTHER -> before

(* An event has been handled.                                                *)
Handled(e) ==
  /\ events' = events \ {e}
  /\ subject' = IF \E f \in events' : f.window = e.window THEN e.window ELSE None
  /\ host_windows' = [host_windows EXCEPT ![e.window] = StatusAfter(e, @)]

----------------------------------------------------------------------------
(* The set-up.  What fails with `?` returns from run_session on the spot:    *)
(* "abandoned" is a session that left its peer, and later on its worker,     *)
(* behind.                                                                   *)
SetUp ==
  UNCHANGED <<pids, live, runtimes, tracks, pli_pipelines, announced, events, subject, closing,
              tracks_changed, mappingVars, unsub, disconnected, toldVars, seen>>

(* An offer: the peer, and the disconnect hook before anything is answered.  *)
Serve ==
  /\ pc = "offer" /\ pc' = "answer"
  /\ peer' = TRUE
  /\ UNCHANGED <<watcher, inputVars>> /\ SetUp

(* answer and respond; then the worker, the forwarder and the handlers.      *)
Answer ==
  /\ pc = "answer"
  /\ \/ pc' = "channel" /\ StartWorker
     \/ "setup" \in Faults /\ pc' = "abandoned" /\ UNCHANGED inputVars
  /\ UNCHANGED setupVars /\ SetUp

(* The control channel opens; or the peer is lost or 20 seconds pass: then   *)
(* the peer is closed, and the worker's channel ends with its last sender    *)
(* (an end the worker takes like a Shutdown; the WebRTC library is taken to  *)
(* let go of a closed connection's handlers, which hold one).                *)
OpenChannel ==
  /\ pc = "channel"
  /\ \/ ~disconnected /\ pc' = "watch" /\ UNCHANGED <<peer, inputVars>>
     \/ /\ disconnected \/ "setup" \in Faults
        /\ pc' = "pause"
        /\ peer' = FALSE
        /\ StopWorker
  /\ UNCHANGED watcher /\ SetUp

(* AxWatcher::spawn, which returns before the thread enters its run loop.    *)
Watch ==
  /\ pc = "watch"
  /\ \/ pc' = "settle" /\ watcher' = "starting"
     \/ "setup" \in Faults /\ pc' = "abandoned" /\ UNCHANGED watcher
  /\ UNCHANGED <<peer, inputVars>> /\ SetUp

WatcherRuns ==
  /\ watcher = "starting" /\ watcher' = "running"
  /\ UNCHANGED <<pc, peer, inputVars>> /\ SetUp

(* Mutant: the loop starts at once.                                          *)
SettleAtOnce ==
  /\ pc = "settle" /\ pc' = "check"
  /\ UNCHANGED <<setupVars, inputVars>> /\ SetUp

(* A sleep of 20 ms stands in for a signal from the thread; the model takes  *)
(* it to be long enough.                                                     *)
Settle ==
  /\ pc = "settle" /\ watcher = "running" /\ pc' = "check"
  /\ UNCHANGED <<setupVars, inputVars>> /\ SetUp

----------------------------------------------------------------------------
(* The loop: the while condition, then select!.                              *)
Check ==
  /\ pc = "check"
  /\ pc' = IF disconnected THEN "teardown" ELSE "select"
  /\ UNCHANGED <<pids, live, runtimes, tracks, pli_pipelines, announced, events, subject, closing,
                 tracks_changed, besideVars, toldVars, setupVars, seen>>

(* A tick or an accessibility poke: poll and diff.  In the model the polls   *)
(* pause while the worker is behind by more than MaxInput.                   *)
Reconcile(snapshot) ==
  LET ours == Ours(pids, snapshot)
      evs  == DiffEvents(live, ours)
  IN  /\ pc = "select" /\ Len(work) <= MaxInput
      /\ "reappear" \in Faults
           \/ \A w \in Windows : live[w] = None /\ ours[w] # None => w \notin seen
      /\ live' = DiffLive(live, ours)
      /\ seen' = seen \cup Present(live')
      /\ events' = evs
      /\ pc' = IF evs = {} THEN "check" ELSE "pass"
      /\ tracks_changed' = FALSE
      /\ UNCHANGED <<pids, runtimes, tracks, pli_pipelines, announced, subject, closing,
                     besideVars, toldVars, setupVars>>

(* An unsubscription: the tracker forgets the application at once, then its  *)
(* windows are taken down one by one.                                        *)
Unsubscribe ==
  /\ pc = "select" /\ unsub # <<>>
  /\ LET a == Head(unsub)
         gone == WindowsOf(live, a)
     IN  /\ pids' = pids \ {a}
         /\ live' = Without(live, gone)
         /\ closing' = {w \in gone : runtimes[w] # "none"}
         /\ tracks_changed' = (closing' # {})
         /\ host_windows' = [w \in Windows |-> IF w \in gone THEN "absent" ELSE host_windows[w]]
  /\ unsub' = Tail(unsub)
  /\ pc' = "closing"
  /\ UNCHANGED <<runtimes, tracks, pli_pipelines, announced, events, subject, mappingVars,
                 inputVars, disconnected, view, setupVars, seen>>

CloseKeepingTrack(w) ==      \* mutant
  /\ pc = "closing" /\ w \in closing
  /\ w \notin pli_pipelines
  /\ closing' = closing \ {w}
  /\ Captures(w, "none")
  /\ UNCHANGED <<pc, pids, live, tracks, pli_pipelines, announced, events, subject,
                 tracks_changed, inputVars, unsub, disconnected, toldVars, setupVars, seen>>

(* One of them: its keyframe routing goes and its track is being removed;    *)
(* then its capture is stopped.                                              *)
Unroute(w) ==
  /\ pc = "closing" /\ w \in closing /\ closing \subseteq pli_pipelines
  /\ pli_pipelines' = pli_pipelines \ {w}
  /\ UNCHANGED <<pc, pids, live, runtimes, tracks, announced, events, subject, closing,
                 tracks_changed, besideVars, toldVars, setupVars, seen>>

CloseUnsubscribed(w) ==
  /\ pc = "closing" /\ w \in closing
  /\ w \notin pli_pipelines
  /\ closing' = closing \ {w}
  /\ Captures(w, "none")
  /\ tracks' = tracks \ {w}
  /\ UNCHANGED <<pc, pids, live, pli_pipelines, announced, events, subject, tracks_changed,
                 inputVars, unsub, disconnected, toldVars, setupVars, seen>>

----------------------------------------------------------------------------
(* One event of a pass.                                                      *)

(* WindowOpened: add_track, encoder and capture; on success the application  *)
(* is announced if it was not, and then the window is.                       *)
OpenTrack(e) ==
  /\ NextIs(e, "WindowOpened")
  /\ subject' = e.window
  /\ tracks' = tracks \cup {e.window}
  /\ pli_pipelines' = pli_pipelines \cup {e.window}
  /\ Captures(e.window, "capturing")
  /\ tracks_changed' = TRUE
  /\ pc' = IF Owner[e.window] \in announced THEN "open" ELSE "announce"
  /\ UNCHANGED <<pids, live, announced, events, closing, inputVars, unsub,
                 disconnected, toldVars, setupVars, seen>>

(* Any of them failed: what was set up is taken back, the window is never    *)
(* announced and not tried again.                                            *)
OpenFails(e) ==
  /\ NextIs(e, "WindowOpened") /\ "open" \in Faults
  /\ Handled(e)
  /\ UNCHANGED <<pc, pids, live, runtimes, tracks, pli_pipelines, announced, closing,
                 tracks_changed, besideVars, view, setupVars, seen>>

(* AppAnnounced, which no module needs the content of.                       *)
AnnounceApp(e) ==
  /\ pc = "announce" /\ e \in events /\ e.window = subject /\ e.type = "WindowOpened"
  /\ announced' = announced \cup {Owner[e.window]}
  /\ pc' = "open"
  /\ UNCHANGED <<pids, live, runtimes, tracks, pli_pipelines, events, subject, closing,
                 tracks_changed, besideVars, toldVars, setupVars, seen>>

AnnounceWindow(e) ==
  /\ pc = "open" /\ e \in events /\ e.window = subject /\ e.type = "WindowOpened"
  /\ Tell(e) /\ Handled(e)
  /\ pc' = "pass"
  /\ UNCHANGED <<pids, live, runtimes, tracks, pli_pipelines, announced, closing,
                 tracks_changed, besideVars, setupVars, seen>>

(* WindowClosed: the keyframe routing goes and the track is being removed;   *)
(* then the capture is stopped and the client is told.                       *)
CloseRuntime(e) ==
  /\ NextIs(e, "WindowClosed")
  /\ subject' = e.window
  /\ pli_pipelines' = pli_pipelines \ {e.window}
  /\ pc' = "untrack"
  /\ UNCHANGED <<pids, live, runtimes, tracks, announced, events, closing, tracks_changed,
                 besideVars, toldVars, setupVars, seen>>

RemoveTrack(e) ==
  /\ pc = "untrack" /\ e \in events /\ e.window = subject /\ e.type = "WindowClosed"
  /\ tracks' = tracks \ {e.window}
  /\ tracks_changed' = (tracks_changed \/ runtimes[e.window] # "none")
  /\ Captures(e.window, "none")
  /\ Tell(e) /\ Handled(e)
  /\ pc' = "pass"
  /\ UNCHANGED <<pids, live, pli_pipelines, announced, closing, inputVars, unsub,
                 disconnected, setupVars, seen>>

(* The other events end in one send; no track comes or goes.                 *)
Passed(e) ==
  /\ Tell(e) /\ Handled(e)
  /\ UNCHANGED <<pc, pids, live, tracks, pli_pipelines, announced, closing,
                 tracks_changed, inputVars, unsub, disconnected, setupVars, seen>>

(* Mutant: the capture goes on.                                              *)
PauseNothing(e) ==
  NextIs(e, "WindowMinimized") /\ UNCHANGED <<runtimes, mappingVars>> /\ Passed(e)

(* WindowMinimized: the capture goes, encoder and track stay.                *)
Pause(e) ==
  /\ NextIs(e, "WindowMinimized")
  /\ IF runtimes[e.window] = "capturing"
     THEN Captures(e.window, "paused") ELSE UNCHANGED <<runtimes, mappingVars>>
  /\ Passed(e)

(* WindowRestored: restart_capture, unless there is no runtime to restart.   *)
Restart(e) ==
  /\ NextIs(e, "WindowRestored")
  /\ IF runtimes[e.window] = "paused"
     THEN \/ Captures(e.window, "capturing")
          \/ "restart" \in Faults /\ UNCHANGED <<runtimes, mappingVars>>
     ELSE UNCHANGED <<runtimes, mappingVars>>
  /\ Passed(e)

(* WindowResized (a running capture is reconfigured), WindowTitleChanged.    *)
Relabel(e) ==
  /\ NextIs(e, "WindowResized") \/ NextIs(e, "WindowTitleChanged")
  /\ Passed(e)
  /\ UNCHANGED <<runtimes, mappingVars>>

EventStep(e) ==
  \/ OpenTrack(e) \/ OpenFails(e) \/ AnnounceApp(e) \/ AnnounceWindow(e)
  \/ CloseRuntime(e) \/ RemoveTrack(e) \/ Pause(e) \/ Restart(e) \/ Relabel(e)

----------------------------------------------------------------------------
(* The end of a pass or of an unsubscription: renegotiate if tracks came or  *)
(* went, and only when that has ended refresh the sink's map.                *)
Finished == \/ pc = "pass" /\ events = {}
            \/ pc = "closing" /\ closing = {}

NoRefresh == pc' = "check" /\ UNCHANGED inputVars    \* mutant

Refresh ==
  /\ work' = Append(work, UpdatePids(Present(live)))
  /\ pc' = "check"
  /\ UNCHANGED <<sinkVars, userVars, worker>>

Finish ==
  /\ Finished
  /\ IF tracks_changed THEN pc' = "renegotiate" /\ UNCHANGED inputVars ELSE Refresh
  /\ UNCHANGED <<pids, live, runtimes, tracks, pli_pipelines, announced, events, subject, closing,
                 tracks_changed, mappingVars, unsub, disconnected, toldVars, setupVars, seen>>

(* renegotiate() returns, with an answer or with an error that is logged.    *)
Renegotiated ==
  /\ pc = "renegotiate"
  /\ Refresh
  /\ UNCHANGED <<pids, live, runtimes, tracks, pli_pipelines, announced, events, subject, closing,
                 tracks_changed, mappingVars, unsub, disconnected, toldVars, setupVars, seen>>

(* The unconditional teardown: captures and encoders, the worker (joined),   *)
(* then the watcher and the peer.                                            *)
Teardown ==
  /\ pc = "teardown"
  /\ runtimes' = [w \in Windows |-> "none"]
  /\ FreshSinks(Windows)
  /\ StopWorker
  /\ pc' = "join"
  /\ UNCHANGED <<pids, live, tracks, pli_pipelines, announced, events, subject, closing,
                 tracks_changed, meta, last_sent, sending, unsub, disconnected, toldVars,
                 setupVars, seen>>

(* AxWatcher::stop: a run loop that does not run yet misses the stop, and    *)
(* the join never returns.                                                   *)
StopWatcher ==
  /\ pc = "join" /\ ~worker
  /\ IF watcher = "running" THEN pc' = "close" /\ watcher' = "none"
                            ELSE pc' = "hung" /\ UNCHANGED watcher
  /\ UNCHANGED <<pids, live, runtimes, tracks, pli_pipelines, announced, events, subject, closing,
                 tracks_changed, besideVars, toldVars, peer, seen>>

Close ==
  /\ pc = "close" /\ pc' = "pause"
  /\ peer' = FALSE /\ tracks' = {}
  /\ UNCHANGED <<pids, live, runtimes, pli_pipelines, announced, events, subject, closing,
                 tracks_changed, besideVars, toldVars, watcher, seen>>

LoopStep ==
  \/ Answer \/ OpenChannel \/ Watch \/ Settle
  \/ Check \/ Finish \/ Renegotiated \/ Teardown \/ StopWatcher \/ Close
  \/ \E e \in events : EventStep(e)
  \/ \E w \in Windows : Unroute(w) \/ CloseUnsubscribed(w)

Poll == \E snapshot \in [Windows -> Option(SnapshotWindow)] : Reconcile(snapshot)

----------------------------------------------------------------------------
(* What goes on beside the loop.                                             *)
Aside == UNCHANGED <<loopVars, setupVars, host_windows, disconnected, seen>>

Frames ==
  /\ "frames" \in Traffic
  /\ \E w \in Windows, m \in Mappings : runtimes[w] = "capturing" /\ FrameArrives(w, m)
  /\ UNCHANGED <<inputVars, unsub, view>> /\ Aside

Forwarder ==
  /\ \/ ForwardMeta(live) /\ UNCHANGED view
     \/ MappingSent /\ Tell(sending)
  /\ UNCHANGED <<inputVars, unsub>> /\ Aside

Worker == Work(live) /\ UNCHANGED <<mappingVars, unsub, view>> /\ Aside

(* The client acts on a window it shows.                                     *)
UserActs ==
  /\ "input" \in Traffic /\ ~disconnected
  /\ \/ \E w \in Present(view.mirrors) : \/ UserFocuses(w) \/ UserTypes(w)
                                        \/ UserPresses(w) \/ UserReleases(w)
     \/ pressed # None /\ view.mirrors[pressed] = None /\ MirrorLost
  /\ UNCHANGED <<mappingVars, unsub, view>> /\ Aside

ClientUnsubscribes ==
  /\ "unsubscribe" \in Traffic /\ ~disconnected
  /\ \E a \in announced \cap pids :
       (\A i \in DOMAIN unsub : unsub[i] # a) /\ unsub' = Append(unsub, a)
  /\ UNCHANGED <<mappingVars, inputVars, view>> /\ Aside

PeerDisconnects ==
  /\ "end" \in Traffic /\ peer /\ ~disconnected
  /\ disconnected' = TRUE
  /\ UNCHANGED <<loopVars, setupVars, mappingVars, inputVars, unsub, toldVars, seen>>

Next ==
  \/ Serve \/ WatcherRuns \/ LoopStep \/ Poll \/ Unsubscribe
  \/ Frames \/ Forwarder \/ Worker \/ UserActs \/ ClientUnsubscribes \/ PeerDisconnects

Spec == Init /\ [][Next]_vars

(* The runtime schedules its tasks and every await ends: sends, track        *)
(* changes and renegotiation are bounded by timeouts, and the loop's ticks   *)
(* never stop.  select! picks among its ready branches at random, so an      *)
(* unsubscription that keeps waiting is taken sooner or later.               *)
FairSpec ==
  /\ Spec
  /\ WF_vars(LoopStep \/ Poll) /\ SF_vars(Unsubscribe)
  /\ WF_vars(WatcherRuns) /\ WF_vars(Worker)

----------------------------------------------------------------------------
Stops == {"offer", "answer", "channel", "watch", "settle", "abandoned",
          "check", "select", "pass", "announce", "open", "untrack", "closing",
          "renegotiate", "teardown", "join", "hung", "close", "pause"}

TypeOK ==
  /\ MappingTypeOK /\ InputTypeOK
  /\ pc \in Stops
  /\ peer \in BOOLEAN /\ watcher \in {"none", "starting", "running"}
  /\ pids \subseteq Apps
  /\ live \in [Windows -> Option(Tracked)]
  /\ runtimes \in [Windows -> {"none", "capturing", "paused"}]
  /\ tracks \subseteq Windows /\ pli_pipelines \subseteq Windows
  /\ announced \subseteq Apps
  /\ events \subseteq DownFrame /\ subject \in Option(Windows)
  /\ closing \subseteq Windows
  /\ tracks_changed \in BOOLEAN
  /\ unsub \in Seq(Apps)
  /\ disconnected \in BOOLEAN
  /\ view \in World
  /\ host_windows \in [Windows -> Stream!WindowStates]

(* Between two passes.                                                       *)
AtRest == pc \in {"check", "select"}

(* Between passes a client that applied every message shows exactly the      *)
(* windows that are mirrored, each with the title, the state and the size it *)
(* had when it was last visible: the diffs of any sequence of polls lose     *)
(* nothing, also not across minimizing, failed captures and unsubscribing.   *)
ShownAs(t) == [title |-> t.title, size |-> t.last, minimized |-> t.minimized]

ClientInformed ==
  AtRest /\ ~disconnected =>
    \A w \in Windows : Owner[w] \in pids =>
      LET m == view.mirrors[w]
      IN  IF runtimes[w] = "none" THEN m = None
          ELSE /\ live[w] # None /\ m # None
               /\ ShownAs(live[w]) = [title |-> m.title, size |-> m.size,
                                      minimized |-> m.minimized]

(* Between passes tracks, keyframe routing and runtimes are about the same   *)
(* windows, all of them tracked; a minimized window is not captured.         *)
RuntimesAgree ==
  AtRest =>
    LET mirrored == {w \in Windows : runtimes[w] # "none"}
    IN  /\ tracks = mirrored /\ pli_pipelines = mirrored
        /\ mirrored \subseteq Present(live)
        /\ \A w \in mirrored :
             runtimes[w] = "capturing" => ~live[w].minimized

(* Once the loop has dropped an application it never comes back: no track,   *)
(* no capture, no announcement of one of its windows.                        *)
DroppedForGood ==
  [][\A w \in Windows : Owner[w] \notin pids =>
       /\ live'[w] = None
       /\ runtimes[w] = "none" => runtimes'[w] = "none"
       /\ w \notin tracks => w \notin tracks'
       /\ view.mirrors[w] = None => view'.mirrors[w] = None]_vars

(* Between passes the map the sink has, or the last one on its way to it,    *)
(* names exactly the tracked windows.                                        *)
Maps == {i \in DOMAIN work : work[i].type = "UpdatePids"}

SinkFollows ==
  AtRest =>
    /\ Maps = {} => sink_pids = Present(live)
    /\ \A i \in Maps : (\A j \in Maps : j <= i) => work[i].windows = Present(live)

(* "every real change is sent exactly once" (mapping.rs), and identity is    *)
(* implicit at open: when the forwarder has caught up, the client's mapping  *)
(* of a captured window is the one its last frame had.                       *)
MappingFollows ==
  AtRest /\ ~disconnected /\ meta = <<>> /\ sending = None =>
    \A w \in Windows :
      runtimes[w] = "capturing" /\ last_meta[w] # None =>
        view.mirrors[w].mapping = last_meta[w]

(* "Typing lands in the right app even with several apps shared" (README): a *)
(* key typed into the mirror of a tracked window never reaches another of    *)
(* the shared applications.                                                  *)
TypingLandsRight ==
  worker /\ work # <<>> =>
    \A w \in Windows :
      Head(work) = KeyEvent(w) /\ live[w] # None => frontmost \in {None, Owner[w]}

(* "FocusChange->KeyEvent (and mouse Down->Up) ordering is preserved end to   *)
(* end" (session.rs): once the user has released the button and the worker   *)
(* has caught up, the host's button is up again.  The exception is a window  *)
(* that closed in between: the worker cannot place the release any more and  *)
(* drops it, so the button stays down until the next click.  (Window ids     *)
(* that come back are left out: the loss would be the same.)                 *)
ButtonReleased ==
  pressed = None /\ held # None
    /\ (\A i \in DOMAIN work : work[i].type \notin {"MouseDown", "MouseUp"}) =>
      live[held] = None

(* An unsubscription is carried out: the application's windows are gone.     *)
UnsubscribeCarriedOut ==
  \A a \in Apps :
    (\E i \in DOMAIN unsub : unsub[i] = a) ~>
      \/ a \notin pids /\ \A w \in Windows : Owner[w] = a => w \notin tracks
      \/ disconnected

(* A session whose peer is gone ends and leaves nothing behind (no capture,  *)
(* worker, watcher, track or peer), whenever in the set-up, the loop or the  *)
(* teardown the loss comes: the host can serve the next client.  Sessions    *)
(* that gave up with `?` are left out, since they do leave things behind.    *)
Released ==
  /\ ~peer /\ ~worker /\ watcher = "none" /\ tracks = {}
  /\ \A w \in Windows : runtimes[w] = "none"

SessionEnds == disconnected ~> (pc = "pause" /\ Released) \/ pc = "abandoned"

(* The session sends a message only when a client can expect it: the pass    *)
(* over the events of any sequence of polls, with captures that fail and     *)
(* unsubscriptions in between, keeps to HostStream, which is all that        *)
(* ClientSession assumes of its host.  (An opening that leaves the pass      *)
(* unannounced is one that failed.)                                          *)
KeepsToStream ==
  [][/\ announced' # announced => \E a \in Apps : Stream!Announces(a)
     /\ pids' # pids => \E a \in Apps : Stream!Drops(a)
     /\ \A e \in events \ events' :
          IF pc = "pass" /\ e.type = "WindowOpened"
          THEN Stream!OpenFails(e.window) ELSE Stream!Sends(e)]_vars
=============================================================================
