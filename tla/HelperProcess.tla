--------------------------- MODULE HelperProcess ---------------------------
(* The mirror-helper processes: one table entry per process identifier.      *)
(* client/src/bin/srw-mirror-helper.rs (threads, exit code) and              *)
(* client/src/mirror_app.rs (the winit shell that owns the mirrors).         *)
(*                                                                           *)
(* A helper has a reader thread on its socket, a UI thread that drains what  *)
(* the reader hands it, and an upstream writer.  The chain coordinator       *)
(* channel - writer thread - socket - reader thread - UI queue is one FIFO,  *)
(* down[p]; the chain back to the coordinator's reader thread is up[p].      *)
EXTENDS MirrorFrames

CONSTANTS
  Pids,     \* process identifiers, recycled when a process is fully gone
  Faults,   \* the failures that may happen
  MaxUp     \* bound on the messages under way upstream of one helper

FaultKinds == {"bundle", "spawn", "create", "decoder", "crash", "open"}

ASSUME ProcessAssumption ==
  /\ None \notin Pids
  /\ Faults \subseteq FaultKinds
  /\ MaxUp \in Nat

VARIABLES
  app_id,       \* the application a process was spawned for
  phase,        \* "gone": no process; "live": event loop running;
                \* "exiting": event_loop.exit() was called, loop not left yet
  exit_reason,  \* HelperApp.exit_reason, or "Crash"; kept after the exit
  exits,        \* processes whose exit the coordinator has not handled yet
  reader,       \* the ipc-reader thread is running
  down,         \* DownFrames on their way to the UI thread
  up,           \* UpMessages on their way to the coordinator
  world,        \* the UI state built from the drained frames
  quit          \* history: the user pressed Cmd-Q in this helper

helperVars == <<app_id, phase, exit_reason, exits, reader, down, up, world, quit>>

ExitReasons == {"UserQuit", "Idle", "Eof", "Crash"}

(* UpMessage: relayed input of a window, or a decoded frame of a track.      *)
Relay(w)          == [type |-> "Relay", window |-> w]
DecodeProgress(w) == [type |-> "DecodeProgress", window |-> w]

UpMessage == {Relay(w) : w \in Windows} \cup {DecodeProgress(w) : w \in Windows}

HelperInit ==
  /\ app_id = [p \in Pids |-> None]
  /\ phase = [p \in Pids |-> "gone"]
  /\ exit_reason = [p \in Pids |-> None]
  /\ exits = {}
  /\ reader = [p \in Pids |-> FALSE]
  /\ down = [p \in Pids |-> <<>>]
  /\ up = [p \in Pids |-> <<>>]
  /\ world = [p \in Pids |-> EmptyWorld]
  /\ quit = [p \in Pids |-> FALSE]

(* The process exists.                                                       *)
Alive(p) == phase[p] # "gone"

(* A process the coordinator has not finished with: it exists, or its exit   *)
(* has not been handled.                                                     *)
Unreaped(p) == Alive(p) \/ p \in exits

(* The kernel may hand out p again: no process, nothing left to report.      *)
Free(p) == phase[p] = "gone" /\ p \notin exits /\ up[p] = <<>>

----------------------------------------------------------------------------
(* What the coordinator does to the table.                                   *)

(* fork, exec and wire a helper for application a, then queue its frames.    *)
Fork(p, a, frames) ==
  /\ Free(p)
  /\ app_id' = [app_id EXCEPT ![p] = a]
  /\ phase' = [phase EXCEPT ![p] = "live"]
  /\ exit_reason' = [exit_reason EXCEPT ![p] = None]
  /\ reader' = [reader EXCEPT ![p] = TRUE]
  /\ down' = [down EXCEPT ![p] = frames]
  /\ world' = [world EXCEPT ![p] = EmptyWorld]
  /\ quit' = [quit EXCEPT ![p] = FALSE]
  /\ UNCHANGED up

(* Queue frames for a helper (None: no channel); a dead one never reads them.*)
SendDown(p, frames) ==
  /\ down' = [q \in Pids |-> IF q = p /\ Alive(q) THEN down[q] \o frames ELSE down[q]]
  /\ UNCHANGED <<app_id, phase, exit_reason, reader, up, world, quit>>

----------------------------------------------------------------------------
(* The helper's own steps.                                                   *)

(* Mutant: the reason is noted and the loop goes on.                         *)
NoteReason(p, reason) ==
  /\ exit_reason' = [exit_reason EXCEPT ![p] = reason]
  /\ UNCHANGED phase

(* event_loop.exit(): the reason is overwritten by whoever asks last.        *)
RequestExit(p, reason) ==
  /\ phase' = [phase EXCEPT ![p] = "exiting"]
  /\ exit_reason' = [exit_reason EXCEPT ![p] = reason]

(* HelperApp::drain takes the next control or icon frame.  The loop keeps    *)
(* draining after event_loop.exit(), so an exiting helper still takes them.  *)
DrainControl(p) ==
  /\ Alive(p) /\ reader[p] /\ down[p] # <<>>
  /\ LET f == Head(down[p])
         v == Deliver(world[p], f)
     IN  /\ f.type # "Video"
         /\ world' = [world EXCEPT ![p] = v]
         /\ IF IdlesOut(v, f)
            THEN RequestExit(p, "Idle")
            ELSE UNCHANGED <<phase, exit_reason>>
  /\ down' = [down EXCEPT ![p] = Tail(@)]
  /\ UNCHANGED <<app_id, exits, reader, up, quit>>

(* The toolkit refuses the window: the announcement is dropped for good.     *)
CreateWindowFails(p) ==
  /\ "create" \in Faults
  /\ Alive(p) /\ reader[p] /\ down[p] # <<>>
  /\ Head(down[p]).type = "WindowOpened"
  /\ world[p].mirrors[Head(down[p]).window] = None
  /\ world' = [world EXCEPT ![p].saw = TRUE]
  /\ down' = [down EXCEPT ![p] = Tail(@)]
  /\ UNCHANGED <<app_id, phase, exit_reason, exits, reader, up, quit>>

(* The reader thread decodes an access unit and hands the picture over; at   *)
(* most one progress report per throttle interval goes upstream.             *)
DecodeVideo(p) ==
  /\ Alive(p) /\ reader[p] /\ down[p] # <<>>
  /\ \E w \in Windows :
       /\ Head(down[p]) = Video(w)
       /\ \/ /\ world' = [world EXCEPT ![p] = Deliver(@, Video(w))]
             /\ \/ /\ Len(up[p]) < MaxUp
                   /\ up' = [up EXCEPT ![p] = Append(@, DecodeProgress(w))]
                \/ UNCHANGED up
          \/ UNCHANGED <<world, up>>      \* no picture yet, or a decode error
  /\ down' = [down EXCEPT ![p] = Tail(@)]
  /\ UNCHANGED <<app_id, phase, exit_reason, exits, reader, quit>>

(* H264Decoder::new fails: expect() panics the reader thread.  The workspace *)
(* keeps the default panic strategy, so only that thread unwinds.            *)
DecoderPanics(p) ==
  /\ "decoder" \in Faults
  /\ Alive(p) /\ reader[p] /\ down[p] # <<>>
  /\ Head(down[p]).type = "Video"
  /\ reader' = [reader EXCEPT ![p] = FALSE]
  /\ UNCHANGED <<app_id, phase, exit_reason, exits, down, up, world, quit>>

(* read_down reports the end of the stream (closed is the coordinator's      *)
(* side): the reader queues Eof, the UI thread asks for the exit.            *)
ReadEof(p, closed) ==
  /\ Alive(p) /\ reader[p] /\ down[p] = <<>> /\ closed
  /\ reader' = [reader EXCEPT ![p] = FALSE]
  /\ RequestExit(p, "Eof")
  /\ UNCHANGED <<app_id, exits, down, up, world, quit>>

(* A key, mouse, focus, resize or close event of a live mirror.              *)
UserInput(p, w) ==
  /\ phase[p] = "live" /\ world[p].mirrors[w] # None
  /\ Len(up[p]) < MaxUp
  /\ up' = [up EXCEPT ![p] = Append(@, Relay(w))]
  /\ UNCHANGED <<app_id, phase, exit_reason, exits, reader, down, world, quit>>

(* Cmd-Q in a mirror.                                                        *)
UserQuits(p) ==
  /\ phase[p] = "live" /\ Present(world[p].mirrors) # {}
  /\ RequestExit(p, "UserQuit")
  /\ quit' = [quit EXCEPT ![p] = TRUE]
  /\ UNCHANGED <<app_id, exits, reader, down, up, world>>

(* The process is no more: undrained frames are lost, and so is what the     *)
(* upstream writer had not written yet.                                      *)
Die(p) ==
  /\ phase' = [phase EXCEPT ![p] = "gone"]
  /\ exits' = exits \cup {p}
  /\ reader' = [reader EXCEPT ![p] = FALSE]
  /\ down' = [down EXCEPT ![p] = <<>>]
  /\ \E n \in 0..Len(up[p]) : up' = [up EXCEPT ![p] = SubSeq(@, 1, n)]
  /\ world' = [world EXCEPT ![p] = EmptyWorld]
  /\ UNCHANGED <<app_id, quit>>

(* run_app returns and main exits with the code of exit_reason.              *)
LeaveLoop(p) ==
  /\ phase[p] = "exiting"
  /\ Die(p)
  /\ UNCHANGED exit_reason

(* A UI-thread panic, a signal, a failed start: any other exit status.       *)
Crash(p) ==
  /\ "crash" \in Faults
  /\ Alive(p)
  /\ Die(p)
  /\ exit_reason' = [exit_reason EXCEPT ![p] = "Crash"]

----------------------------------------------------------------------------
HelperTypeOK ==
  /\ app_id \in [Pids -> Option(Apps)]
  /\ phase \in [Pids -> {"gone", "live", "exiting"}]
  /\ exit_reason \in [Pids -> Option(ExitReasons)]
  /\ exits \subseteq Pids
  /\ reader \in [Pids -> BOOLEAN]
  /\ up \in [Pids -> Seq(UpMessage)]
  /\ quit \in [Pids -> BOOLEAN]
  /\ \A p \in Pids : Unreaped(p) => app_id[p] \in Apps
=============================================================================
