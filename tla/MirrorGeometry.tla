--------------------------- MODULE MirrorGeometry ---------------------------
(* The sizes of one window: at the host, in the tracker, in the capture, in  *)
(* the mirror at the client, and the pointer mapping that depends on all of  *)
(* them.  HostSession and ClientSession treat a size and a mapping as opaque *)
(* values; here they are numbers, and the two directions of the size sync    *)
(* (WindowResized down, ResizeRequest up) meet.                              *)
(*                                                                           *)
(* One axis is enough: a sheet is centred horizontally and hangs from the    *)
(* top edge, so the horizontal axis has the offset and the scale, and the    *)
(* vertical one only the same scale.  Lengths are points; rounding to even   *)
(* pixels is below what should_send and the echo guard tell apart.           *)
EXTENDS Integers, Sequences, FiniteSetsExt

CONSTANTS
  Sizes,      \* widths of the window
  Sheets,     \* widths of a sheet
  None,       \* Option::None
  Faults,     \* "refuse": the application does not take a requested size;
              \* "reconfigure": a capture keeps its old size
  MaxMeta,    \* bound on the metadata waiting for the forwarder
  MaxDown,    \* bound: the host pauses while this many messages are under way
  MaxUp,      \* bound on the resize requests under way
  MaxEvents   \* bound on the mirror's window events that wait

ASSUME GeometryAssumption ==
  /\ Sizes \cup Sheets \subseteq Nat \ {0}
  /\ None \notin Sizes \cup Sheets
  /\ None \notin [frame : Nat, union : Nat, content : Nat]
  /\ None \notin [scale : Int, offset : Int]
  /\ Faults \subseteq {"refuse", "reconfigure"}
  /\ {MaxMeta, MaxDown, MaxUp, MaxEvents} \subseteq Nat \ {0}

VARIABLES
  size,       \* the window at the host
  sheet,      \* the sheet attached to it, None without one
  known,      \* the tracker's size
  loop,       \* the reconciler: "idle", or in the "pass" after a poll
  expected,   \* the size of the capture's frames
  last_meta,  \* frame_sink: the metadata it passed on last
  meta,       \* metadata on its way to the forwarder
  last_sent,  \* the mapping the forwarder sent last
  down,       \* host messages on their way to the helper
  mirror,     \* the mirror's size
  guard,      \* its last_host_size
  events,     \* its Resized events that wait for the event loop
  up,         \* resize requests on their way to the host
  asked,      \* history: the last request since a poll reported a size
  used        \* history: the size the forwarder combined with the metadata
              \* it took last

hostVars   == <<size, sheet, known, loop, expected>>
sinkVars   == <<last_meta, meta, last_sent, used>>
mirrorVars == <<mirror, guard, events>>
vars == <<hostVars, sinkVars, down, mirrorVars, up, asked>>

----------------------------------------------------------------------------
(* Frames and mappings.                                                      *)

(* What a frame shows, and its metadata: the window with its sheet, shrunk   *)
(* to the frame if that is smaller.  contentScale is content / union.        *)
Meta(frame, window, child) ==
  LET union == IF child = None THEN window ELSE Max({window, child})
  IN  [frame |-> frame, union |-> union, content |-> Min({frame, union})]

Identity == [scale |-> 1, offset |-> 0]

Apply(m, x) == m.offset + m.scale * x

(* mapping_for_frame: identity unless the frame is letterboxed.              *)
LeftAligned(fm, window) ==                        \* mutant: no centring
  IF fm.content = fm.union THEN Identity
  ELSE [scale  |-> (fm.frame * fm.union) \div (window * fm.content), offset |-> 0]

MappingForFrame(fm, window) ==
  IF fm.content = fm.union THEN Identity
  ELSE [scale  |-> (fm.frame * fm.union) \div (window * fm.content),
        offset |-> -(Max({fm.union - window, 0}) \div 2)]

ShouldSend(last, next) == IF last = None THEN next # Identity ELSE next # last

(* A Resized event of the mirror; by says what changed the size, behind      *)
(* whether an earlier event was still waiting then.                          *)
Resized(s, by) == [size |-> s, by |-> by, behind |-> events # <<>>]

----------------------------------------------------------------------------
(* A mirror is created with the announced size, and the window system        *)
(* reports that size as the first event.                                     *)
Init ==
  /\ size \in Sizes
  /\ sheet = None
  /\ known = size /\ loop = "idle" /\ expected = size
  /\ last_meta = None /\ meta = <<>> /\ last_sent = None
  /\ down = <<>>
  /\ mirror = size /\ guard = size
  /\ events = <<[size |-> size, by |-> "host", behind |-> FALSE]>>
  /\ up = <<>>
  /\ asked = None /\ used = None

(* The application resizes its window, or shows or hides a sheet.            *)
HostResizes(s) ==
  /\ s # size
  /\ size' = s
  /\ UNCHANGED <<sheet, known, loop, expected, sinkVars, down, mirrorVars, up, asked>>

SheetChanges(child) ==
  /\ child # sheet
  /\ sheet' = child
  /\ UNCHANGED <<size, known, loop, expected, sinkVars, down, mirrorVars, up, asked>>

(* A poll notices a new size, and the pass that follows reconfigures the     *)
(* capture and tells the client.                                             *)
PollForgetting ==                                 \* mutant
  /\ loop = "idle" /\ size # known
  /\ asked' = None
  /\ loop' = "pass"
  /\ UNCHANGED <<size, sheet, known, expected, sinkVars, down, mirrorVars, up>>

Poll ==
  /\ loop = "idle" /\ size # known
  /\ known' = size
  /\ asked' = None
  /\ loop' = "pass"
  /\ UNCHANGED <<size, sheet, expected, sinkVars, down, mirrorVars, up>>

PassOrNothing ==                                  \* mutant: a failure ends it
  /\ loop = "pass" /\ Len(down) < MaxDown
  /\ \/ expected' = known /\ down' = Append(down, known)
     \/ "reconfigure" \in Faults /\ UNCHANGED <<expected, down>>
  /\ loop' = "idle"
  /\ UNCHANGED <<size, sheet, known, sinkVars, mirrorVars, up, asked>>

(* The capture takes the new size, or fails to and is left as it was.        *)
Reconfigure == expected' = known \/ ("reconfigure" \in Faults /\ UNCHANGED expected)

Pass ==
  /\ loop = "pass" /\ Len(down) < MaxDown
  /\ Reconfigure
  /\ down' = Append(down, known)
  /\ loop' = "idle"
  /\ UNCHANGED <<size, sheet, known, sinkVars, mirrorVars, up, asked>>

(* A captured frame whose metadata differs from the last one's.              *)
Frame ==
  LET now == Meta(expected, size, sheet)
  IN  /\ now # last_meta /\ Len(meta) < MaxMeta
      /\ last_meta' = now
      /\ meta' = Append(meta, now)
      /\ UNCHANGED <<hostVars, last_sent, used, down, mirrorVars, up, asked>>

(* The forwarder combines the metadata with the size the tracker has now.    *)
ForwardMeta ==
  /\ meta # <<>>
  /\ meta' = Tail(meta)
  /\ used' = known
  /\ LET next == MappingForFrame(Head(meta), known)
     IN  last_sent' = IF ShouldSend(last_sent, next) THEN next ELSE last_sent
  /\ UNCHANGED <<hostVars, last_meta, down, mirrorVars, up, asked>>

----------------------------------------------------------------------------
(* The helper takes a WindowResized.  The window system applies the size at  *)
(* once and reports it as an event after the turn of the event loop; nothing *)
(* is reported when the size was the same.  A turn drains all that has       *)
(* arrived: that is as many of these steps with no event handled between.    *)
Drain ==
  /\ down # <<>> /\ Len(events) < MaxEvents
  /\ mirror' = Head(down) /\ guard' = Head(down)
  /\ events' = IF Head(down) = mirror THEN events
               ELSE Append(events, Resized(Head(down), "host"))
  /\ down' = Tail(down)
  /\ UNCHANGED <<hostVars, sinkVars, up, asked>>

UserDrags(s) ==
  /\ s # mirror /\ Len(events) < MaxEvents
  /\ mirror' = s
  /\ events' = Append(events, Resized(s, "user"))
  /\ UNCHANGED <<hostVars, sinkVars, down, guard, up, asked>>

(* WindowEvent::Resized.  The echo guard: a size that the host did not ask   *)
(* for becomes a request, and is from then on taken for the host's.          *)
OnResizedUnguarded ==                             \* mutant
  /\ events # <<>> /\ Len(up) < MaxUp
  /\ guard' = Head(events).size
  /\ up' = Append(up, guard')
  /\ events' = Tail(events)
  /\ UNCHANGED <<hostVars, sinkVars, down, mirror, asked>>

OnResized ==
  /\ events # <<>>
  /\ LET s == Head(events).size
     IN  IF s # guard
         THEN Len(up) < MaxUp /\ guard' = s /\ up' = Append(up, s)
         ELSE UNCHANGED <<guard, up>>
  /\ events' = Tail(events)
  /\ UNCHANGED <<hostVars, sinkVars, down, mirror, asked>>

(* The input worker sets the size; the application may refuse or adjust it.  *)
ApplyRequest(s) ==
  /\ up # <<>>
  /\ s = Head(up) \/ "refuse" \in Faults
  /\ size' = s
  /\ asked' = Head(up)
  /\ up' = Tail(up)
  /\ UNCHANGED <<sheet, known, loop, expected, sinkVars, down, mirrorVars>>

Next ==
  \/ \E s \in Sizes : HostResizes(s) \/ UserDrags(s) \/ ApplyRequest(s)
  \/ \E child \in Sheets \cup {None} : SheetChanges(child)
  \/ Poll \/ Pass \/ Frame \/ ForwardMeta
  \/ Drain \/ OnResized

Spec == Init /\ [][Next]_vars

(* Both loops, the forwarder and the input worker are scheduled.  Nothing is *)
(* assumed of the user, the application or the frames.                       *)
FairSpec ==
  /\ Spec
  /\ WF_vars(Poll) /\ WF_vars(Pass)
  /\ WF_vars(ForwardMeta) /\ WF_vars(Drain) /\ WF_vars(OnResized)
  /\ WF_vars(\E s \in Sizes : ApplyRequest(s))

----------------------------------------------------------------------------
(* Nothing is under way in either direction.                                 *)
Quiet ==
  /\ loop = "idle" /\ known = size
  /\ down = <<>> /\ events = <<>> /\ up = <<>>

(* Size sync is two-way ("bidirectional size sync", mirror_app.rs): once     *)
(* nothing is under way the mirror has the window's size, however the user's *)
(* drags, the application's own resizes and the echoes crossed.  One case is *)
(* left out because the code does lose it: a request that the application    *)
(* refused, or undid before a poll, leaves nothing for the tracker to report.*)
Agreed == Quiet /\ asked \in {None, size} => mirror = size

(* "only a genuine client-side drag-resize should round-trip back to the     *)
(* host" (mirror_app.rs): the guard keeps the mirror from asking for a size  *)
(* that the host gave it, unless two size changes of the mirror waited for   *)
(* the event loop together; then the guard already holds the later one and   *)
(* both bounce.                                                              *)
Echo == \E s \in Sizes : up' = Append(up, s)

OnlyOverlapsEcho ==
  [][Echo => \/ Head(events).by = "user"
             \/ Head(events).behind \/ Len(events) > 1]_vars

(* The point of the window, or of its sheet, that the mirror shows at x: the *)
(* frame is stretched over the mirror, the content is the union shrunk to    *)
(* fit, and the union overhangs the window by as much on either side.        *)
PointShown(x) ==
  LET fm == Meta(expected, size, sheet)
  IN  (x * fm.frame * fm.union) \div (mirror * fm.content)
        - ((fm.union - size) \div 2)

(* Two cases in which mapping_for_frame gives a wrong mapping.  A capture    *)
(* that could not be reconfigured to a smaller window has frames that hold   *)
(* all of it without being its size: "no letterboxing => frame is 1:1 with   *)
(* the window" (mapping.rs) does not hold of them, and the identity sends    *)
(* clicks astray.  And a letterboxed frame's metadata may meet the size the  *)
(* tracker had before or after it; frame_sink takes the metadata for already *)
(* passed on, and the mapping stays.                                         *)
LargerThanShown(fm) == fm.content = fm.union /\ fm.frame # size
Torn(fm)            == fm.content # fm.union /\ used # size

(* A click lands on what the user sees under the pointer, with a sheet wider *)
(* than its window and with a capture that was left smaller than it too:     *)
(* once nothing is under way and the last frame shows what there is to show, *)
(* the mapping the client was sent last inverts the rendering, but for       *)
(* frames that are larger than what they show, for torn ones, and after a    *)
(* request the application refused (Agreed).                                 *)
(* (Lengths are whole numbers: an instance has sizes that divide evenly.)    *)
ClicksLand ==
  LET fm      == Meta(expected, size, sheet)
      current == IF last_sent = None THEN Identity ELSE last_sent
  IN  /\ Quiet /\ asked \in {None, size}
      /\ meta = <<>> /\ last_meta = fm
      /\ ~LargerThanShown(fm) /\ ~Torn(fm)
      => \A x \in 0..mirror : Apply(current, x) = PointShown(x)

(* The two directions do not chase each other for ever: once user and        *)
(* application leave the window alone and no two size changes of the mirror  *)
(* wait together any more, everything comes to rest.                         *)
Stimulus == \E s \in Sizes : HostResizes(s) \/ UserDrags(s)
Overlap  == Drain /\ events # <<>>

Settles == <>[][~Stimulus /\ ~Overlap]_vars => <>[]Quiet
=============================================================================
