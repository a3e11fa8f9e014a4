--------------------------- MODULE MirrorFrames ---------------------------
(* What crosses the coordinator-to-helper socketpair, what a mirror helper   *)
(* makes of it, and what the coordinator replays into a fresh helper.        *)
(*                                                                           *)
(* client/src/ipc.rs defines the frames, client/src/mirror_app.rs consumes   *)
(* them in HelperApp::drain, client/src/coordinator.rs produces them.  This  *)
(* module holds the pure part: a frame is a record, a helper's world is a    *)
(* record of functions over the remote windows, and Deliver is one turn of   *)
(* the drain loop.  Frames are delivered in order and exactly once, because  *)
(* each hop (mpsc channel, stream socket, mpsc channel) is a FIFO.           *)
EXTENDS Integers, Sequences

CONSTANTS
  Apps,        \* pids of the shared host applications
  Iconic,      \* the applications announced with an icon
  Windows,     \* remote window ids, in whose order a replay goes
  IdBound,     \* what every window id is below: an id is a u32
  Owner,       \* [Windows -> Apps]: the application a window belongs to
  Titles,      \* window titles
  Sizes,       \* window sizes
  Mappings,    \* pointer transforms, Identity among them
  Identity,    \* InputMapping::IDENTITY
  None         \* Option::None

ASSUME DataAssumption ==
  /\ IdBound \in Nat /\ Windows \subseteq 0..IdBound - 1
  /\ Owner \in [Windows -> Apps]
  /\ Iconic \subseteq Apps
  /\ Identity \in Mappings
  /\ None \notin Apps /\ None \notin Mappings /\ None \notin Windows

(* A window's track id is the string "win-<window id>" (host session), so    *)
(* tracks are identified with windows throughout.                            *)

(* Option<T>: a total function with None stands for a map with absent keys.  *)
Option(S) == S \cup {None}

(* What the coordinator remembers of a window, for replay.                   *)
WindowReplay ==
  [title: Titles, size: Sizes, minimized: BOOLEAN, mapping: Option(Mappings)]

ASSUME ReplayAssumption == None \notin WindowReplay

OpenedReplay(t, s, m) ==
  [title |-> t, size |-> s, minimized |-> FALSE, mapping |-> m]

(* The windows recorded by a function that is None for the others.           *)
Present(f) == {w \in DOMAIN f : f[w] # None}

----------------------------------------------------------------------------
(* Host messages, as the data channel delivers them and as the coordinator   *)
(* forwards them in a DownFrame::Control.                                    *)
WindowOpened(w, t, s)     == [type |-> "WindowOpened", window |-> w, title |-> t, size |-> s]
WindowResized(w, s)       == [type |-> "WindowResized", window |-> w, size |-> s]
WindowTitleChanged(w, t)  == [type |-> "WindowTitleChanged", window |-> w, title |-> t]
WindowMinimized(w)        == [type |-> "WindowMinimized", window |-> w]
WindowRestored(w)         == [type |-> "WindowRestored", window |-> w]
WindowClosed(w)           == [type |-> "WindowClosed", window |-> w]
InputMapping(w, m)        == [type |-> "InputMapping", window |-> w, mapping |-> m]

(* DownFrame::Icon and DownFrame::Video (one access unit of a track).        *)
Icon     == [type |-> "Icon"]
Video(w) == [type |-> "Video", window |-> w]

DownFrame ==
       {WindowOpened(w, t, s) : w \in Windows, t \in Titles, s \in Sizes}
  \cup {WindowResized(w, s) : w \in Windows, s \in Sizes}
  \cup {WindowTitleChanged(w, t) : w \in Windows, t \in Titles}
  \cup {WindowMinimized(w) : w \in Windows}
  \cup {WindowRestored(w) : w \in Windows}
  \cup {WindowClosed(w) : w \in Windows}
  \cup {InputMapping(w, m) : w \in Windows, m \in Mappings}
  \cup {Video(w) : w \in Windows}
  \cup {Icon}

----------------------------------------------------------------------------
(* The icon frame of an application that has an icon.                        *)
IconFrames(a) == IF a \in Iconic THEN <<Icon>> ELSE <<>>

(* The frames that rebuild a helper's world: the icon, then each window in   *)
(* id order as WindowOpened [WindowMinimized] [InputMapping].                *)
ReplayShown(w, r) ==                   \* mutant: minimized is not replayed
     <<WindowOpened(w, r.title, r.size)>>
  \o (IF r.mapping # None THEN <<InputMapping(w, r.mapping)>> ELSE <<>>)

ReplayWindow(w, r) ==
     <<WindowOpened(w, r.title, r.size)>>
  \o (IF r.minimized THEN <<WindowMinimized(w)>> ELSE <<>>)
  \o (IF r.mapping # None THEN <<InputMapping(w, r.mapping)>> ELSE <<>>)

(* The frames fs, then the replay of the windows recorded in ws.             *)
ReplayFrom(fs, ws) ==
  LET upto[n \in 0..IdBound] ==      \* up to the windows with an id below n
        IF n = 0 THEN fs
        ELSE IF n - 1 \in Present(ws) THEN upto[n - 1] \o ReplayWindow(n - 1, ws[n - 1])
        ELSE upto[n - 1]
  IN  upto[IdBound]

ReplayWithoutIcon(a, ws) == ReplayFrom(<<>>, ws)         \* mutant
ReplayFrames(a, ws) == ReplayFrom(IconFrames(a), ws)

----------------------------------------------------------------------------
(* A helper's world.  mirrors stands for mirrors/by_remote/by_track, which   *)
(* the code updates together; early for the keys of early_frames; saw for    *)
(* saw_a_window; icons counts the icons applied.                             *)
Mirror == [title: Titles, size: Sizes, minimized: BOOLEAN, mapping: Mappings]

ASSUME MirrorAssumption == None \notin Mirror

World ==
  [mirrors: [Windows -> Option(Mirror)], buffered: [Windows -> Option(Mappings)],
   early: SUBSET Windows, saw: BOOLEAN, icons: Nat]

EmptyWorld ==
  [mirrors  |-> [w \in Windows |-> None],
   buffered |-> [w \in Windows |-> None],
   early    |-> {},
   saw      |-> FALSE,
   icons    |-> 0]

(* create_mirror: a duplicate announcement is ignored; a mirror seeds from   *)
(* the buffered mapping and from the early frame of its track.               *)
CreateMirror(v, f) ==
  LET w == f.window
      m == IF v.buffered[w] = None THEN Identity ELSE v.buffered[w]
  IN  IF v.mirrors[w] # None
      THEN v
      ELSE [v EXCEPT !.mirrors[w] = [title |-> f.title, size |-> f.size,
                                     minimized |-> FALSE, mapping |-> m],
                     !.early = @ \ {w}]

(* destroy_mirror_by_remote: the early frame goes only with its mirror.      *)
DestroyMirror(v, w) ==
  [v EXCEPT !.mirrors[w] = None,
            !.buffered[w] = None,
            !.early = IF v.mirrors[w] # None THEN @ \ {w} ELSE @]

(* An event about a window without a mirror is ignored.                      *)
UpdateMirror(v, w, m) ==
  IF v.mirrors[w] = None THEN v ELSE [v EXCEPT !.mirrors[w] = m]

(* One turn of the drain loop on a control, icon or video frame.             *)
Deliver(v, f) ==
  CASE f.type = "WindowOpened"       -> CreateMirror([v EXCEPT !.saw = TRUE], f)
    [] f.type = "WindowClosed"       -> DestroyMirror(v, f.window)
    [] f.type = "WindowResized"      ->
         UpdateMirror(v, f.window, [v.mirrors[f.window] EXCEPT !.size = f.size])
    [] f.type = "WindowTitleChanged" ->
         UpdateMirror(v, f.window, [v.mirrors[f.window] EXCEPT !.title = f.title])
    [] f.type = "WindowMinimized"    ->
         UpdateMirror(v, f.window, [v.mirrors[f.window] EXCEPT !.minimized = TRUE])
    [] f.type = "WindowRestored"     ->
         UpdateMirror(v, f.window, [v.mirrors[f.window] EXCEPT !.minimized = FALSE])
    [] f.type = "InputMapping"       ->
         UpdateMirror([v EXCEPT !.buffered[f.window] = f.mapping], f.window,
                      [v.mirrors[f.window] EXCEPT !.mapping = f.mapping])
    [] f.type = "Video"              ->
         IF v.mirrors[f.window] = None
         THEN [v EXCEPT !.early = @ \cup {f.window}] ELSE v
    [] f.type = "Icon"               -> [v EXCEPT !.icons = @ + 1]

(* The worlds through which the frames fs take the world v, and the one after*)
(* everything in flight has been drained.                                    *)
Draining(v, fs) ==
  LET after[n \in 0..Len(fs)] == IF n = 0 THEN v ELSE Deliver(after[n - 1], fs[n])
  IN  after

Drained(v, fs) == Draining(v, fs)[Len(fs)]

(* Zero mirrors left by a WindowClosed: the helper idles out.                *)
IdlesOutUnused(v, f) ==                \* mutant: only before the first window
  f.type = "WindowClosed" /\ ~v.saw /\ Present(v.mirrors) = {}

IdlesOut(v, f) ==
  f.type = "WindowClosed" /\ v.saw /\ Present(v.mirrors) = {}

(* The mirrors that show exactly what the coordinator remembers.             *)
MirrorsOf(ws) ==
  [w \in Windows |->
     IF ws[w] = None THEN None
     ELSE [title |-> ws[w].title, size |-> ws[w].size,
           minimized |-> ws[w].minimized,
           mapping |-> IF ws[w].mapping = None THEN Identity ELSE ws[w].mapping]]
=============================================================================
