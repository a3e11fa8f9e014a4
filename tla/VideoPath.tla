------------------------------ MODULE VideoPath ------------------------------
(* The video of one window, from its capture at the host to the decoder in   *)
(* its mirror helper, with the keyframe requests that go the other way:      *)
(* host/src/pipeline.rs (frame slot, encoder thread), transport/src/codec.rs *)
(* (when a frame is an IDR), client/src/net.rs (read_track, its requester),  *)
(* client/src/router.rs (route, stall state) and the decoding half of the    *)
(* helper's reader thread.                                                   *)
(*                                                                           *)
(* Frames are told apart by one thing only: whether they show what was       *)
(* captured last ("new") or something before it ("old").                     *)
EXTENDS Integers, Sequences

CONSTANTS
  MaxWire,       \* bound on the access units under way
  MaxMishaps,    \* bound on the mishaps of a behaviour
  Mishaps,       \* "loss": an access unit or a keyframe request is lost;
                 \* "encode": a frame yields no access unit;
                 \* "respawn": the helper is replaced
  None

ASSUME VideoAssumption ==
  /\ MaxWire \in Nat \ {0} /\ MaxMishaps \in Nat
  /\ Mishaps \subseteq {"loss", "encode", "respawn"}
  /\ None \notin {"new", "old"}

VARIABLES
  slot,          \* FrameSlot: the frame that waits for the encoder, or None
  thread,        \* the encoder thread: "loop", "take", "force", "encode", "ended"
  hand,          \* the frame it holds
  idr,           \* Shared.idr: a keyframe was requested
  shutdown,      \* Shared.shutdown
  intra,         \* the encoder was told to make its next frame an IDR
  due,           \* H264Encoder.frame_count is at a multiple of
                 \* IDR_INTERVAL_FRAMES
  wire,          \* access units under way: TRUE for an IDR
  routed,        \* the window was announced: its track has a route
  synced,        \* the decoder has its reference pictures
  progress,      \* VideoRouter.progress: "never", "recent", or "old": longer
                 \* ago than STALL_AFTER
  report,        \* a DecodeProgress is on its way
  asked,         \* history: requested since the last IDR was made
  offered,       \* history: the frame last given to the encoder
  mishaps        \* how many happened

encoderVars == <<slot, thread, hand, idr, shutdown, intra, due, asked, offered>>
clientVars == <<routed, synced, progress, report>>
vars == <<encoderVars, wire, clientVars, mishaps>>

Init ==
  /\ slot = None /\ thread = "loop" /\ hand = None
  /\ idr = FALSE /\ shutdown = FALSE /\ intra = FALSE /\ due = TRUE
  /\ wire = <<>>
  /\ routed = FALSE /\ synced = FALSE /\ progress = "never" /\ report = FALSE
  /\ asked = FALSE /\ offered = None
  /\ mishaps = 0

Mishap(kind) ==
  /\ kind \in Mishaps /\ mishaps < MaxMishaps
  /\ mishaps' = mishaps + 1

----------------------------------------------------------------------------
(* FrameSlot and the capture callback.                                       *)

PushedBehind(waiting, frame) == IF waiting = None THEN frame ELSE waiting  \* mutant

(* FrameSlot::push: whatever waits is replaced.                              *)
PushedOver(waiting, frame) == frame

(* The window changed and its capture delivers the frame.  A static window's *)
(* capture delivers nothing (capture/src/macos/stream.rs).                   *)
Capture ==
  LET Older(frame) == IF frame = None THEN None ELSE "old"
  IN  /\ ~shutdown
      /\ slot' = PushedOver(Older(slot), "new")
      /\ hand' = Older(hand)
      /\ offered' = Older(offered)
      /\ UNCHANGED <<thread, idr, shutdown, intra, due, asked, wire,
                     clientVars, mishaps>>

(* The encoder thread's loop: stop, or wait for a frame for a while.         *)
Loop ==
  /\ thread = "loop"
  /\ thread' = IF shutdown THEN "ended" ELSE "take"
  /\ UNCHANGED <<slot, hand, idr, shutdown, intra, due, asked, offered, wire,
                 clientVars, mishaps>>

WaitOn == UNCHANGED <<thread, slot, hand>>     \* mutant: no timeout

\* mutant: the timeout is taken for a frame
EncodeAnyway == thread' = "force" /\ UNCHANGED <<slot, hand>>

TimesOut == thread' = "loop" /\ UNCHANGED <<slot, hand>>

Take ==
  /\ thread = "take"
  /\ IF slot = None
     THEN TimesOut
     ELSE thread' = "force" /\ hand' = slot /\ slot' = None
  /\ UNCHANGED <<idr, shutdown, intra, due, asked, offered, wire, clientVars,
                 mishaps>>

(* idr.swap(false): a request becomes the encoder's.                         *)
TakeRequest ==
  /\ thread = "force"
  /\ thread' = "encode"
  /\ intra' = (intra \/ idr)
  /\ idr' = FALSE
  /\ UNCHANGED <<slot, hand, shutdown, due, asked, offered, wire, clientVars,
                 mishaps>>

Encoded ==
  /\ thread = "encode"
  /\ thread' = "loop" /\ hand' = None
  /\ offered' = hand
  /\ UNCHANGED <<slot, shutdown, clientVars>>

(* frame_count += 1.  Frames are counted while requests, losses and helpers  *)
(* go by the clock, so the next interval may be reached at any frame, or not *)
(* at all in the time looked at.                                             *)
Counted == due' \in BOOLEAN

PeriodicOnly == due                            \* mutant: requests do nothing

(* An IDR: asked for, or due.                                                *)
IsIdr == intra \/ due

(* Mutant: the request is taken back after encoding.                         *)
EncodeThenClear ==
  /\ Encoded /\ Len(wire) < MaxWire
  /\ wire' = Append(wire, IsIdr)
  /\ Counted
  /\ intra' = FALSE /\ idr' = FALSE
  /\ asked' = (asked /\ ~IsIdr)
  /\ UNCHANGED mishaps

Encode ==
  /\ Encoded /\ Len(wire) < MaxWire
  /\ wire' = Append(wire, IsIdr)
  /\ Counted
  /\ intra' = FALSE
  /\ asked' = (asked /\ ~IsIdr)
  /\ UNCHANGED <<idr, mishaps>>

(* An encode error, or a frame the encoder skips: what it was told to do     *)
(* stays with it.                                                            *)
EncodeFails ==
  /\ Encoded /\ Mishap("encode")
  /\ \/ UNCHANGED <<due, intra>>
     \/ Counted /\ intra' = IsIdr
  /\ UNCHANGED <<idr, asked, wire>>

EncoderThread == Loop \/ Take \/ TakeRequest \/ Encode \/ EncodeFails

(* Pipeline::stop.                                                           *)
Stop ==
  /\ ~shutdown
  /\ shutdown' = TRUE
  /\ UNCHANGED <<slot, thread, hand, idr, intra, due, asked, offered, wire,
                 clientVars, mishaps>>

----------------------------------------------------------------------------
(* The client.                                                               *)

(* WindowOpened was handled: set_route.                                      *)
Announced ==
  /\ ~routed
  /\ routed' = TRUE
  /\ UNCHANGED <<encoderVars, wire, synced, progress, report, mishaps>>

(* read_track forwards the next access unit.  Without a route it is dropped; *)
(* otherwise it decodes if it is an IDR or follows what was decoded, and the *)
(* helper may report it.                                                     *)
Arrive ==
  /\ wire # <<>>
  /\ wire' = Tail(wire)
  /\ synced' = (routed /\ (Head(wire) \/ synced))
  /\ \/ UNCHANGED report
     \/ synced' /\ report' = TRUE
  /\ UNCHANGED <<encoderVars, routed, progress, mishaps>>

(* An access unit is lost: what follows it cannot be decoded.                *)
Lost ==
  /\ wire # <<>> /\ Mishap("loss")
  /\ wire' = Tail(wire)
  /\ synced' = FALSE
  /\ UNCHANGED <<encoderVars, routed, progress, report>>

(* on_helper_up: mark_progress.                                              *)
Reported ==
  /\ report
  /\ report' = FALSE
  /\ progress' = "recent"
  /\ UNCHANGED <<encoderVars, wire, routed, synced, mishaps>>

Ages ==
  /\ progress = "recent"
  /\ progress' = "old"
  /\ UNCHANGED <<encoderVars, wire, routed, synced, report, mishaps>>

(* The helper is replaced: a fresh decoder, set_route and clear_progress.  A *)
(* report of the old helper may still be on its way.                         *)
Respawn ==
  /\ routed /\ Mishap("respawn")
  /\ synced' = FALSE
  /\ progress' = "never"
  /\ UNCHANGED <<encoderVars, wire, routed, report>>

StalledOnceSeen == progress = "old"            \* mutant: "never" is no stall
Stalled == progress # "recent"

(* The requester's tick: while the track is stalled the host is asked for a  *)
(* keyframe, and the pipeline notes it unless it was stopped.                *)
Tick ==
  /\ Stalled
  /\ \/ /\ idr' = (idr \/ ~shutdown)
        /\ asked' = (asked \/ ~shutdown)
        /\ UNCHANGED mishaps
     \/ Mishap("loss") /\ UNCHANGED <<idr, asked>>
  /\ UNCHANGED <<slot, thread, hand, shutdown, intra, due, offered, wire,
                 clientVars>>

Next ==
  \/ Capture \/ EncoderThread \/ Stop
  \/ Announced \/ Arrive \/ Lost \/ Reported \/ Ages \/ Respawn \/ Tick

Spec == Init /\ [][Next]_vars

(* Threads run, packets that are not lost arrive, time passes and the        *)
(* requester ticks every second.  Whether the window ever changes again is   *)
(* up to its user.                                                           *)
FairSpec ==
  /\ Spec
  /\ WF_vars(EncoderThread) /\ WF_vars(Arrive) /\ WF_vars(Announced)
  /\ WF_vars(Reported) /\ WF_vars(Ages) /\ WF_vars(Tick /\ mishaps' = mishaps)

----------------------------------------------------------------------------
Frame == {"new", "old", None}

TypeOK ==
  /\ slot \in Frame /\ hand \in Frame /\ offered \in Frame
  /\ thread \in {"loop", "take", "force", "encode", "ended"}
  /\ progress \in {"never", "recent", "old"}
  /\ (hand # None) <=> (thread \in {"force", "encode"})
  /\ wire \in Seq(BOOLEAN)
  /\ idr \in BOOLEAN /\ due \in BOOLEAN /\ shutdown \in BOOLEAN /\ intra \in BOOLEAN
  /\ routed \in BOOLEAN /\ synced \in BOOLEAN /\ report \in BOOLEAN
  /\ asked \in BOOLEAN
  /\ mishaps \in 0..MaxMishaps

(* Latest wins (pipeline.rs): whenever no frame waits for the encoder, the   *)
(* one it got last is the newest that was captured, however captures and     *)
(* encoding interleave.                                                      *)
LatestWins == slot = None /\ hand = None => offered # "old"

(* No keyframe request is lost between the peer and the encoder: until an    *)
(* IDR is made it is kept in Shared.idr or in the encoder, also when it      *)
(* comes while a frame is being encoded or when the encoding fails.          *)
KeyframeKept == asked => idr \/ intra

(* A stopped pipeline's thread ends although no frame may ever come again    *)
(* (the timeout of FrameSlot::take).                                         *)
PipelineStops == shutdown ~> thread = "ended"

(* A decoder that cannot decode what comes next.                             *)
Starved == routed /\ ~synced /\ ~shutdown

(* A starved decoder gets a keyframe requested, also a fresh one whose       *)
(* predecessor was doing well: the request is pending, or one is under way.  *)
KeyframesRequested ==
  Starved ~> \/ idr \/ intra \/ ~Starved
             \/ \E i \in DOMAIN wire : wire[i]

(* As long as the window keeps changing, a starved decoder recovers, and it  *)
(* does so through the requests: no periodic IDR need come to its help, be   *)
(* it lost, late, or 300 frames away.                                        *)
RecoversWhileChanging == WF_vars(Capture) => (Starved ~> ~Starved)

(* "Dropped AUs are safe - the PLI stall loop forces a fresh IDR once a      *)
(* route exists" (router.rs), "video recovers in about a second" (README):   *)
(* a starved decoder recovers.                                               *)
Recovers == Starved ~> ~Starved
=============================================================================
