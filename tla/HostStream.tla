----------------------------- MODULE HostStream -----------------------------
(* What a client can count on in the stream of host messages: which message  *)
(* may come when.  The module is the seam between the two sessions.          *)
(* ClientSession takes it as its environment (each HostX action conjoins the *)
(* action below), and HostSession is shown to keep to it (KeepsToStream), so *)
(* what holds of the client for every stream the module allows holds against *)
(* the host that is really there.                                            *)
(*                                                                           *)
(* A window the host tracks but could not capture counts as open here: it is *)
(* never announced, and what happens to it is sent all the same.             *)
EXTENDS MirrorFrames

VARIABLES
  host_windows,  \* what the messages so far say: "absent", "normal", "minimized"
  announced,     \* applications the host has announced
  subscribed     \* applications the host still shares

streamVars == <<host_windows, announced, subscribed>>

WindowStates == {"absent", "normal", "minimized"}

StreamInit ==
  /\ host_windows = [w \in Windows |-> "absent"]
  /\ announced = {}
  /\ subscribed = Apps

Shared(w) == Owner[w] \in subscribed

Becomes(w, status) ==
  /\ host_windows' = [host_windows EXCEPT ![w] = status]
  /\ UNCHANGED <<announced, subscribed>>

(* AppAnnounced, once per session and before the application's first window. *)
Announces(a) ==
  /\ a \in subscribed \ announced
  /\ announced' = announced \cup {a}
  /\ UNCHANGED <<host_windows, subscribed>>

(* WindowOpened, or nothing when the window's track or capture fails.        *)
OpenFails(w) == Shared(w) /\ host_windows[w] = "absent" /\ Becomes(w, "normal")
Opens(w)     == Owner[w] \in announced /\ OpenFails(w)

(* WindowResized is sent of visible windows only.                            *)
Resizes(w)   == Shared(w) /\ host_windows[w] = "normal" /\ UNCHANGED streamVars
Retitles(w)  == Shared(w) /\ host_windows[w] # "absent" /\ UNCHANGED streamVars
Minimizes(w) == Shared(w) /\ host_windows[w] = "normal" /\ Becomes(w, "minimized")
Restores(w)  == Shared(w) /\ host_windows[w] = "minimized" /\ Becomes(w, "normal")
Closes(w)    == Shared(w) /\ host_windows[w] # "absent" /\ Becomes(w, "absent")

(* InputMapping comes from the forwarder, a task of its own: before the      *)
(* window's announcement, after its close, or after the end of the sharing.  *)
Maps(w) == w \in Windows /\ UNCHANGED streamVars

(* The host takes an UnsubscribeApp: no close is sent for the windows.       *)
Drops(a) ==
  /\ subscribed' = subscribed \ {a}
  /\ host_windows' = [w \in Windows |-> IF Owner[w] = a THEN "absent" ELSE host_windows[w]]
  /\ UNCHANGED announced

(* The message msg about a window is sent.                                   *)
Sends(msg) ==
  CASE msg.type = "WindowOpened"       -> Opens(msg.window)
    [] msg.type = "WindowResized"      -> Resizes(msg.window)
    [] msg.type = "WindowTitleChanged" -> Retitles(msg.window)
    [] msg.type = "WindowMinimized"    -> Minimizes(msg.window)
    [] msg.type = "WindowRestored"     -> Restores(msg.window)
    [] msg.type = "WindowClosed"       -> Closes(msg.window)
    [] msg.type = "InputMapping"       -> Maps(msg.window)
=============================================================================
