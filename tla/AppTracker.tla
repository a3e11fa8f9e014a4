----------------------------- MODULE AppTracker -----------------------------
(* The host's view of the shared applications' windows (core/src/tracker.rs):*)
(* a poll of the window server is compared with the windows already known    *)
(* and turned into events.                                                   *)
(*                                                                           *)
(* TrackerEvent has one variant per host message about a window and the      *)
(* session translates one into the other field by field, so an event is      *)
(* written as the message it becomes.  A map over window ids is a function   *)
(* that is None for the absent ones.                                         *)
EXTENDS MirrorFrames

(* classify: a menu or a sheet is a Child of the window it is drawn into;    *)
(* only Normal windows are mirrored on their own.                            *)
WindowKinds == {"Normal", "Child"}

(* One window of a poll, and what is kept of a known one: last is the size   *)
(* it had when it was last seen unminimized, or opened.                      *)
SnapshotWindow == [title: Titles, size: Sizes, minimized: BOOLEAN, kind: WindowKinds]
Tracked == [title: Titles, size: Sizes, minimized: BOOLEAN, last: Sizes]

ASSUME TrackerAssumption ==
  None \notin SnapshotWindow /\ None \notin Tracked /\ None \notin Mirror

(* Mutant: the windows of an application that is no longer shared count.     *)
OursAnyApp(pids, snapshot) ==
  [w \in Windows |->
     IF snapshot[w] # None /\ snapshot[w].kind = "Normal" THEN snapshot[w] ELSE None]

(* The windows of a poll that belong to the shared applications.             *)
Ours(pids, snapshot) ==
  [w \in Windows |->
     IF snapshot[w] # None /\ Owner[w] \in pids /\ snapshot[w].kind = "Normal"
     THEN snapshot[w] ELSE None]

----------------------------------------------------------------------------
(* The events of one window.                                                 *)
OpenEvents(w, s) ==
  {WindowOpened(w, s.title, s.size)}
  \cup (IF s.minimized THEN {WindowMinimized(w)} ELSE {})

OpenedAsPolled(s) == s      \* mutant

Opened(s) ==
  [title |-> s.title, size |-> s.size, minimized |-> s.minimized, last |-> s.size]

(* Mutant: a size that changed while minimized is not caught up with.        *)
SizeChangedInSight(t, s) == ~t.minimized /\ ~s.minimized /\ s.size # t.size

SizeChangedHidden(t, s) == s.size # t.size           \* mutant: minimized or not

(* A restored window is resized if it changed since it was last seen         *)
(* unminimized; otherwise only a visible window's resize is an event.        *)
SizeChanged(t, s) ==
  /\ ~s.minimized
  /\ s.size # (IF t.minimized THEN t.last ELSE t.size)

UpdateEvents(w, t, s) ==
       (IF s.minimized /\ ~t.minimized THEN {WindowMinimized(w)} ELSE {})
  \cup (IF t.minimized /\ ~s.minimized THEN {WindowRestored(w)} ELSE {})
  \cup (IF SizeChanged(t, s) THEN {WindowResized(w, s.size)} ELSE {})
  \cup (IF s.title # t.title THEN {WindowTitleChanged(w, s.title)} ELSE {})

Updated(t, s) ==
  [title |-> s.title, size |-> s.size, minimized |-> s.minimized,
   last |-> IF s.minimized THEN t.last ELSE s.size]

----------------------------------------------------------------------------
(* diff.  A window has at most one event of each type, so the events are a   *)
(* set, and what the code pushes them in is an order on it: one loop over    *)
(* the windows that closed, in hash-map order, one over those that opened    *)
(* and one over the others, both in the order of the poll (PushLoop); and    *)
(* the order within one turn of a loop (PushPlace).  The order of windows    *)
(* within a loop is arbitrary.                                               *)
Closed(live, ours)  == {w \in Windows : live[w] # None /\ ours[w] = None}
OpenedNow(live, ours) == {w \in Windows : live[w] = None /\ ours[w] # None}
Kept(live, ours)    == {w \in Windows : live[w] # None /\ ours[w] # None}

CloseEvents(live, ours)   == {WindowClosed(w) : w \in Closed(live, ours)}
OpenedEvents(live, ours)  == UNION {OpenEvents(w, ours[w]) : w \in OpenedNow(live, ours)}
UpdatedEvents(live, ours) ==
  UNION {UpdateEvents(w, live[w], ours[w]) : w \in Kept(live, ours)}

DiffEvents(live, ours) ==
  CloseEvents(live, ours) \cup OpenedEvents(live, ours) \cup UpdatedEvents(live, ours)

PushLoop(e) ==
  CASE e.type = "WindowClosed" -> 1
    [] e.type = "WindowOpened" -> 2
    [] OTHER -> 3

PushPlace(e) ==
  CASE e.type \in {"WindowClosed", "WindowOpened"} -> 1
    [] e.type \in {"WindowMinimized", "WindowRestored"} -> 2
    [] e.type = "WindowResized" -> 3
    [] OTHER -> 4

DiffLive(live, ours) ==
  [w \in Windows |->
     IF ours[w] = None THEN None
     ELSE IF live[w] = None THEN Opened(ours[w])
     ELSE Updated(live[w], ours[w])]

(* remove_pid: the windows of an application are forgotten without events.   *)
WindowsOf(live, a) == {w \in Present(live) : Owner[w] = a}
Without(live, ws) == [w \in Windows |-> IF w \in ws THEN None ELSE live[w]]
=============================================================================
