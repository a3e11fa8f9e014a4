--------------------------- MODULE HostInvariant ---------------------------
(* The invariant that carries the host's safety properties through a pass.   *)
(* What HostSession states between two passes says nothing of the states in  *)
(* which some events of a diff are handled and others wait.  There, what the *)
(* client has been told and what the tracker knows differ by exactly the     *)
(* events that are due, and tracks, keyframe routing, captures and mirrors   *)
(* differ only for the one window that is being opened or closed.            *)
EXTENDS HostSession

InPass == {"pass", "announce", "open", "untrack"}
Ended == {"join", "hung", "close", "pause", "abandoned"}

Due(w, type) == \E e \in events : e.window = w /\ e.type = type
Mirrored(w) == runtimes[w] # "none"

Opening(w) == pc \in {"announce", "open"} /\ w = subject
Closing(w) == pc = "untrack" /\ w = subject

(* Events are due only in a pass, windows are taken down only in a closing.  *)
Phases ==
  /\ pc \notin InPass => events = {}
  /\ subject # None => \E e \in events : e.window = subject
  /\ pc # "closing" => closing = {}
  /\ pc = "announce" => Owner[subject] \notin announced
  /\ pc = "open" => Owner[subject] \in announced

(* Every event that is due says what the tracker knows by now, and can be    *)
(* said after what the client was told so far.                               *)
EventFits(e) ==
  LET w == e.window
      t == live[w]
      told == host_windows[w]
  IN  /\ w \in Windows /\ Owner[w] \in pids
      /\ e.type = "WindowClosed" <=> t = None
      /\ CASE e.type = "WindowClosed"       -> told # "absent"
           [] e.type = "WindowOpened"       -> /\ told = "absent"
                                               /\ e.title = t.title /\ e.size = t.size
                                               /\ t.last = t.size
           [] e.type = "WindowMinimized"    -> /\ t.minimized
                                               /\ told = "normal" \/ Due(w, "WindowOpened")
           [] e.type = "WindowRestored"     -> ~t.minimized /\ told = "minimized"
           [] e.type = "WindowResized"      -> ~t.minimized /\ told # "absent" /\ e.size = t.size
           [] e.type = "WindowTitleChanged" -> told # "absent" /\ e.title = t.title
           [] OTHER                         -> FALSE

(* Whatever the tracker knows and the client was not told is due.            *)
ToldOrDue(w) ==
  LET t == live[w]
      told == host_windows[w]
  IN  /\ Owner[w] \notin pids => t = None /\ told = "absent"
      /\ t = None /\ told # "absent" => Due(w, "WindowClosed")
      /\ t # None =>
           /\ told = "absent" => Due(w, "WindowOpened")
           /\ t.minimized /\ told # "minimized" => Due(w, "WindowMinimized")
           /\ ~t.minimized /\ told = "minimized" => Due(w, "WindowRestored")
           /\ ~t.minimized => t.last = t.size

(* Tracks, keyframe routing and captures of one window.                      *)
RuntimeFits(w) ==
  /\ w \in tracks <=> Mirrored(w)
  /\ w \in pli_pipelines => Mirrored(w) /\ ~Closing(w)
  /\ Mirrored(w) => w \in pli_pipelines \/ Closing(w) \/ w \in closing
  /\ Mirrored(w) => live[w] # None \/ Due(w, "WindowClosed") \/ w \in closing
  /\ runtimes[w] = "capturing" /\ live[w] # None => host_windows[w] = "normal" \/ Opening(w)
  /\ w \in closing => Owner[w] \notin pids
  /\ Due(w, "WindowOpened") /\ Mirrored(w) => Opening(w)
  /\ Opening(w) => Due(w, "WindowOpened") /\ Mirrored(w)
  /\ Closing(w) => Due(w, "WindowClosed")

(* The client's mirror of one window.                                        *)
MirrorFits(w) ==
  LET m == view.mirrors[w]
  IN  /\ Opening(w) => m = None
      /\ ~Opening(w) => (m # None <=> Mirrored(w))
      /\ m # None /\ live[w] # None =>
           /\ m.minimized <=> host_windows[w] = "minimized"
           /\ ~Due(w, "WindowTitleChanged") => m.title = live[w].title
           /\ ~Due(w, "WindowResized") => m.size = live[w].last

EventsInv == (\A e \in events : EventFits(e)) /\ (\A w \in Windows : ToldOrDue(w))
RuntimesInv == pc \notin Ended => \A w \in Windows : RuntimeFits(w)
MirrorsInv ==
  pc \notin Ended /\ ~disconnected => \A w \in Windows : Owner[w] \in pids => MirrorFits(w)

HostInv == Phases /\ EventsInv /\ RuntimesInv /\ MirrorsInv

(* The map the sink has, or the last one on its way to it, is up to date     *)
(* whenever no refresh is to come.                                           *)
SinkInv ==
  pc \notin InPass \cup {"closing", "renegotiate"} =>
    /\ Maps = {} => sink_pids = Present(live)
    /\ \A i \in Maps : (\A j \in Maps : j <= i) => work[i].windows = Present(live)

----------------------------------------------------------------------------
(* As long as no window id comes back, more can be said.                     *)

(* Nothing is left of, or on its way for, a window that was never tracked.   *)
Untouched(w) ==
  /\ live[w] = None /\ runtimes[w] = "none" /\ host_windows[w] = "absent"
  /\ view.mirrors[w] = None /\ view.buffered[w] = None
  /\ last_meta[w] = None /\ last_sent[w] = None
  /\ \A i \in DOMAIN meta : meta[i].window # w
  /\ sending # None => sending.window # w
  /\ held # w /\ pressed # w
  /\ \A i \in DOMAIN work : work[i] # MouseDown(w)

SeenInv == \A w \in Windows \ seen : Untouched(w)

(* The mapping the forwarder takes the client to have, and the one it has:   *)
(* of the mirror, or of the mirror it would create.                          *)
OrIdentity(m) == IF m = None THEN Identity ELSE m
Assumed(w) == OrIdentity(last_sent[w])
ShownIn(v, w) ==
  IF v.mirrors[w] # None THEN v.mirrors[w].mapping ELSE OrIdentity(v.buffered[w])

(* The last change a capture passed on, if the forwarder has it, is what the *)
(* client is taken to have.                                                  *)
MetaOf(w) == {i \in DOMAIN meta : meta[i].window = w}

MetaFits(w) ==
  last_meta[w] # None =>
    /\ MetaOf(w) = {} => Assumed(w) = last_meta[w]
    /\ \A i \in MetaOf(w) :
         (\A j \in MetaOf(w) : j <= i) => meta[i].mapping = last_meta[w]

(* What the client is taken to have, it has, or is being sent.               *)
ShownFits(w) ==
  ~disconnected =>
    IF sending # None /\ sending.window = w
    THEN sending.mapping = Assumed(w) ELSE ShownIn(view, w) = Assumed(w)

MappingInv == \A w \in Windows : live[w] # None => MetaFits(w) /\ ShownFits(w)

(* A press that the sink has carried out, or will, is still held by the user *)
(* or followed by its release.                                               *)
ReleaseDue(s, w) == \E j \in DOMAIN s : s[j] = MouseUp(w)

PressesEnd(s, w) ==
  \A i \in DOMAIN s : s[i] = MouseDown(w) => \E j \in DOMAIN s : j > i /\ s[j] = MouseUp(w)

ButtonFits(w) ==
  /\ pressed = w => view.mirrors[w] # None
  /\ held = w => pressed = w \/ ReleaseDue(work, w)
  /\ pressed = w \/ PressesEnd(work, w)

ButtonInv == \A w \in Windows : live[w] # None => ButtonFits(w)
=============================================================================
