-------------------------- MODULE ClientInvariant --------------------------
(* The invariant that carries the client's safety properties from step to    *)
(* step.  HelperOwnership alone is not inductive: that the one process of an *)
(* application is the one the manager holds survives an exit only because a  *)
(* reported process is gone and because the manager never holds a process    *)
(* that was already reported; that a dropped application stays dropped needs *)
(* to know that it has no window and no helper left to bring it back.        *)
EXTENDS ClientRefinement

(* A process whose exit was reported is gone, and only a process that was    *)
(* once spawned for an application has messages under way.                   *)
ProcessTable ==
  \A p \in Pids : /\ p \in exits => phase[p] = "gone"
                  /\ up[p] # <<>> => app_id[p] \in Apps

(* The window indexes and the router name exactly the recorded windows.      *)
WindowTables ==
  /\ \A a \in Apps, w \in Windows : windows[a][w] # None => Owner[w] = a
  /\ \A w \in Windows :
       /\ app_of_window[w] = IF windows[Owner[w]][w] = None THEN None ELSE Owner[w]
       /\ app_of_track[w] = app_of_window[w]
       /\ progress[w] # None => app_of_track[w] # None
       /\ routes[w] # None => windows[Owner[w]][w] # None

(* Processes and AppState.running name each other.                           *)
ProcessesHeld ==
  /\ \A p \in Pids : Unreaped(p) => running[app_id[p]] = p
  /\ \A a \in Apps :
       running[a] # None => Unreaped(running[a]) /\ app_id[running[a]] = a

(* An application that was never accepted, or was given up, holds nothing.   *)
NothingHeld(a) == running[a] = None /\ \A w \in Windows : windows[a][w] = None

Stations ==
  \A a \in Apps : /\ a \notin known => NothingHeld(a) /\ ~given_up[a]
                  /\ given_up[a] => NothingHeld(a)

(* A recorded window of a running application is routed to its helper, but   *)
(* for those whose route the handler under way is about to set or has taken. *)
WindowsRouted ==
  \A w \in Windows :
    windows[Owner[w]][w] # None /\ running[Owner[w]] # None /\ w \notin about
      => routes[w] = running[Owner[w]]

(* A handler under way is about recorded windows, and about one of them but  *)
(* for a replay; one that closes a window has taken its route.               *)
HandlerUnderWay ==
  /\ handler = "idle" => about = {}
  /\ handler # "replaying" => \A v, w \in about : v = w
  /\ \A w \in about : /\ windows[Owner[w]][w] # None
                      /\ handler = "closing" => routes[w] = None /\ progress[w] = None

(* The inductive invariant: tables that hold throughout, and what holds of   *)
(* helpers until the end of the session.                                     *)
ClientInv ==
  /\ ProcessTable
  /\ WindowTables
  /\ HandlerUnderWay
  /\ coord = "up" => ProcessesHeld /\ Stations /\ WindowsRouted

----------------------------------------------------------------------------
(* What the worlds of the helpers owe to the records.  The promises about    *)
(* mirrors and early frames are kept only while the toolkit refuses no window*)
(* (no "create" fault): a refused announcement is lost for good.             *)

(* The world of a helper once it has drained its queue.                      *)
Settled(p) == Drained(world[p], down[p])

FramesTyped == down \in [Pids -> Seq(DownFrame)] /\ world \in [Pids -> World]

(* Also after the end of the session, `running` names a process of its       *)
(* application, and only announced applications have windows.                *)
RunningNamed ==
  \A a \in Apps :
    /\ running[a] # None => Unreaped(running[a]) /\ app_id[running[a]] = a
    /\ a \notin known => \A w \in Windows : windows[a][w] = None

(* A window that the host may open is not recorded, or about to be forgotten:*)
(* its announcement finds neither a record to overwrite nor a mirror that    *)
(* would ignore it.                                                          *)
Forgotten(w) ==
  windows[Owner[w]][w] = None \/ (handler = "closing" /\ w \in about)

OpensAnew ==
  \A w \in Windows :
    host_windows[w] = "absent" /\ Owner[w] \in subscribed => Forgotten(w)

(* A running helper settles on the recorded mirrors, and on the recorded     *)
(* mappings for the mirrors it will make.                                    *)
WorldsFollow ==
  \A a \in Apps :
    LET p == running[a]
    IN  p # None /\ Alive(p) =>
          /\ Settled(p).mirrors = MirrorsOf(windows[a])
          /\ Settled(p).buffered =
               [w \in Windows |-> IF windows[a][w] = None THEN None ELSE windows[a][w].mapping]

(* The helper a track is routed to settles on a mirror for it.               *)
RoutedShown ==
  \A w \in Windows :
    routes[w] # None /\ Alive(routes[w]) => Settled(routes[w]).mirrors[w] # None

FidelityInv ==
  /\ FramesTyped /\ RunningNamed /\ OpensAnew
  /\ IconOnce
  /\ "create" \notin Faults => WorldsFollow /\ RoutedShown /\ NoOrphanFrames
=============================================================================
