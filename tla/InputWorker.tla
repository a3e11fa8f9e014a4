----------------------------- MODULE InputWorker -----------------------------
(* The host's input worker (host/src/session.rs, the input-worker thread)    *)
(* with its default sink (input/src/macos.rs, AxInput), and the user's input *)
(* that the client relays to it.                                             *)
(*                                                                           *)
(* One thread takes the work in arrival order.  The sink finds a window's    *)
(* process in the map it was last given: to focus a window or to press a     *)
(* mouse button in it, it makes that process frontmost; a key goes to        *)
(* whichever process is frontmost, a release to whatever was pressed.        *)
(* Nobody else at the host changes focus or uses the mouse.                  *)
EXTENDS AppTracker, SequencesExt

CONSTANTS
  MaxInput,   \* bound on the work that waits for the worker
  AxFails     \* whether the accessibility API may fail for a known window

ASSUME InputAssumption == AxFails \in BOOLEAN

VARIABLES
  work,        \* the worker's channel
  sink_pids,   \* windows in the sink's pid map; the pid is the owner's
  frontmost,   \* the frontmost application at the host
  held,        \* the window in which the host's mouse button was pressed
  focused,     \* the mirror that has the focus at the client
  pressed,     \* the mirror in which the user holds the button
  worker       \* the worker thread runs

sinkVars == <<sink_pids, frontmost, held>>
userVars == <<focused, pressed>>
inputVars == <<work, sinkVars, userVars, worker>>

FocusChange(w) == [type |-> "FocusChange", window |-> w]
KeyEvent(w)    == [type |-> "KeyEvent", window |-> w]
MouseDown(w)   == [type |-> "MouseDown", window |-> w]
MouseUp(w)     == [type |-> "MouseUp", window |-> w]
UpdatePids(ws) == [type |-> "UpdatePids", windows |-> ws]
Shutdown       == [type |-> "Shutdown"]

InputEvents ==
  UNION {{FocusChange(w), KeyEvent(w), MouseDown(w), MouseUp(w)} : w \in Windows}

InputWork == InputEvents \cup {UpdatePids(ws) : ws \in SUBSET Windows} \cup {Shutdown}

InputInit ==
  /\ work = <<>>
  /\ sink_pids = {} /\ frontmost = None /\ held = None
  /\ focused = None /\ pressed = None
  /\ worker = FALSE

StartWorker == worker' = TRUE /\ UNCHANGED <<work, sinkVars, userVars>>
StopWorker  == work' = Append(work, Shutdown) /\ UNCHANGED <<sinkVars, userVars, worker>>

----------------------------------------------------------------------------
(* What the user does with a mirror, as the helper relays it.                *)
Relays(item) ==
  /\ Len(work) < MaxInput
  /\ work' = Append(work, item)
  /\ UNCHANGED <<sinkVars, worker>>

UserFocuses(w) == focused # w /\ focused' = w /\ UNCHANGED pressed /\ Relays(FocusChange(w))
UserTypes(w)   == focused = w /\ UNCHANGED userVars /\ Relays(KeyEvent(w))

UserPresses(w) ==
  /\ pressed = None /\ pressed' = w
  /\ UNCHANGED focused /\ Relays(MouseDown(w))

UserReleases(w) ==
  /\ pressed = w /\ pressed' = None
  /\ UNCHANGED focused /\ Relays(MouseUp(w))

(* The mirror went away under the pointer: there is no release to relay.     *)
MirrorLost ==
  /\ pressed' = None
  /\ UNCHANGED <<work, sinkVars, focused, worker>>

----------------------------------------------------------------------------
(* The sink.  raise() makes the window's process frontmost, where a failure  *)
(* is only logged, then raises the window; it fails for one that the map     *)
(* does not know, or whose process does not have it.                         *)
RaiseOutcomes(w) ==
  CASE w \notin sink_pids -> {[fronted |-> FALSE, raised |-> FALSE]}
    [] AxFails             -> [fronted : BOOLEAN, raised : BOOLEAN]
    [] OTHER               -> {[fronted |-> TRUE, raised |-> TRUE]}

(* A mouse event is placed with the window's geometry, so the worker drops   *)
(* it when the tracker has none.                                             *)
Placed(item, live) == item.type \in {"MouseDown", "MouseUp"} /\ live[item.window] # None

(* A focus change, or a press that can be placed, raises the window; if that *)
(* fails nothing is posted.                                                  *)
Focuses(item, live) ==
  item.type = "FocusChange" \/ (item.type = "MouseDown" /\ Placed(item, live))

Raise(item) ==
  \E outcome \in RaiseOutcomes(item.window) :
    /\ frontmost' = IF outcome.fronted THEN Owner[item.window] ELSE frontmost
    /\ held' = IF outcome.raised /\ item.type = "MouseDown" THEN item.window ELSE held

Takes(item, live) ==
  /\ sink_pids' = IF item.type = "UpdatePids" THEN item.windows ELSE sink_pids
  /\ IF Focuses(item, live) THEN Raise(item)
     ELSE /\ held' = IF item.type = "MouseUp" /\ Placed(item, live) THEN None ELSE held
          /\ UNCHANGED frontmost
  /\ worker' = (item.type # "Shutdown")
  /\ UNCHANGED userVars

(* Mutant: a task per item.                                                  *)
WorkInAnyOrder(live) ==
  \E i \in DOMAIN work : worker /\ work' = RemoveAt(work, i) /\ Takes(work[i], live)

(* The worker takes its next item; an error is logged and the next is taken. *)
Work(live) ==
  /\ worker /\ work # <<>>
  /\ work' = Tail(work)
  /\ Takes(Head(work), live)

InputTypeOK ==
  /\ work \in Seq(InputWork)
  /\ sink_pids \subseteq Windows
  /\ frontmost \in Option(Apps)
  /\ held \in Option(Windows) /\ focused \in Option(Windows) /\ pressed \in Option(Windows)
  /\ worker \in BOOLEAN
=============================================================================
