---------------------------- MODULE GeometryProofs ----------------------------
(* The two directions of the size sync of MirrorGeometry, for any sizes,     *)
(* any bounds on what is under way and any faults: they agree once nothing   *)
(* is under way, and the echo guard lets nothing through but what a user     *)
(* asked for and what overlapped.                                            *)
EXTENDS MirrorGeometry, SequenceTheorems, TLAPS

Event == [size : Sizes, by : {"host", "user"}, behind : BOOLEAN]

Types ==
  /\ size \in Sizes /\ known \in Sizes
  /\ mirror \in Sizes /\ guard \in Sizes
  /\ loop \in {"idle", "pass"}
  /\ down \in Seq(Sizes) /\ up \in Seq(Sizes)
  /\ events \in Seq(Event)
  /\ asked \in Sizes \cup {None}

(* The mirror has the size of its last event that waits, and the guard's     *)
(* when none does.                                                           *)
EventsCurrent ==
  IF events = <<>> THEN mirror = guard ELSE events[Len(events)].size = mirror

(* The tracker's size is told last.                                          *)
KnownTold == loop = "idle" /\ down # <<>> => down[Len(down)] = known

(* A guard that is not the tracker's size is a request: the last one under   *)
(* way, or the last one applied.                                             *)
Requested ==
  IF up # <<>> THEN up[Len(up)] = guard ELSE asked = guard

GuardExplained == loop = "idle" /\ down = <<>> => guard = known \/ Requested

SyncInv == Types /\ EventsCurrent /\ KnownTold /\ GuardExplained

(* An event behind another says so.                                          *)
FollowersMarked == \A i \in 2..Len(events) : events[i].behind

(* The guard holds the size of a lone event that the host caused.            *)
LoneGuarded ==
  Len(events) = 1 /\ events[1].by = "host" /\ ~events[1].behind =>
    events[1].size = guard

----------------------------------------------------------------------------
LEMMA SyncBegins ==
  Init => SyncInv /\ FollowersMarked /\ LoneGuarded
<1> SUFFICES ASSUME Init PROVE SyncInv /\ FollowersMarked /\ LoneGuarded
  OBVIOUS
<1>1. /\ size \in Sizes /\ known = size /\ mirror = size /\ guard = size
      /\ loop = "idle" /\ down = <<>> /\ up = <<>> /\ asked = None
      /\ events = <<[size |-> size, by |-> "host", behind |-> FALSE]>>
  BY DEF Init
<1>2. Len(events) = 1 /\ events[1] = [size |-> size, by |-> "host", behind |-> FALSE]
  BY <1>1
<1>3. [size |-> size, by |-> "host", behind |-> FALSE] \in Event
  BY <1>1 DEF Event
<1>4. events \in Seq(Event) /\ events # <<>>
  BY <1>1, <1>3
<1>5. Types
  BY <1>1, <1>4 DEF Types
<1>6. EventsCurrent /\ KnownTold /\ GuardExplained
  BY <1>1, <1>2, <1>4 DEF EventsCurrent, KnownTold, GuardExplained
<1>7. FollowersMarked /\ LoneGuarded
  BY <1>1, <1>2 DEF FollowersMarked, LoneGuarded
<1> QED BY <1>5, <1>6, <1>7 DEF SyncInv

(* What the invariant speaks of; a step that changes none of it keeps it.    *)
syncVars == <<size, known, loop, down, mirror, guard, events, up, asked>>

LEMMA Elsewhere ==
  ASSUME SyncInv, FollowersMarked, LoneGuarded, UNCHANGED syncVars
  PROVE  SyncInv' /\ FollowersMarked' /\ LoneGuarded'
BY DEF SyncInv, Types, EventsCurrent, KnownTold, GuardExplained, Requested,
       FollowersMarked, LoneGuarded, syncVars

LEMMA ElsewhereSteps ==
  ASSUME \/ \E child \in Sheets \cup {None} : SheetChanges(child)
         \/ Frame \/ ForwardMeta \/ UNCHANGED vars
  PROVE  UNCHANGED syncVars
<1>1. ASSUME NEW child, SheetChanges(child) PROVE UNCHANGED syncVars
  BY <1>1 DEF SheetChanges, syncVars, mirrorVars
<1>2. CASE Frame
  BY <1>2 DEF Frame, syncVars, hostVars, mirrorVars
<1>3. CASE ForwardMeta
  BY <1>3 DEF ForwardMeta, syncVars, hostVars, mirrorVars
<1>4. CASE UNCHANGED vars
  BY <1>4 DEF vars, syncVars, hostVars, mirrorVars
<1> QED BY <1>1, <1>2, <1>3, <1>4

----------------------------------------------------------------------------
(* Taking the first element leaves the last one where it was.                *)
LEMMA FirstTaken ==
  ASSUME NEW S, NEW q \in Seq(S), q # <<>>
  PROVE  /\ Head(q) \in S /\ Head(q) = q[1] /\ Tail(q) \in Seq(S)
         /\ Len(q) \in Nat \ {0} /\ Len(Tail(q)) = Len(q) - 1
         /\ \A i \in 1..Len(Tail(q)) : Tail(q)[i] = q[i + 1]
         /\ Len(Tail(q)) = 0 <=> Tail(q) = <<>>
         /\ Tail(q) # <<>> => Tail(q)[Len(Tail(q))] = q[Len(q)]
         /\ Tail(q) = <<>> => Head(q) = q[Len(q)]
<1>1. Len(q) \in Nat \ {0} /\ Head(q) = q[1]
  OBVIOUS
<1>2. /\ Head(q) \in S /\ Tail(q) \in Seq(S) /\ Len(Tail(q)) = Len(q) - 1
      /\ \A i \in 1..Len(Tail(q)) : Tail(q)[i] = q[i + 1]
  BY HeadTailProperties
<1>3. Len(Tail(q)) = 0 <=> Tail(q) = <<>>
  BY <1>2, EmptySeq
<1>4. Tail(q) # <<>> => Len(Tail(q)) \in 1..Len(Tail(q))
  BY <1>1, <1>2, <1>3
<1> QED BY <1>1, <1>2, <1>3, <1>4

(* The window system's events.                                               *)

LEMMA EventsAppended ==
  ASSUME Types, FollowersMarked, NEW e \in Event, events' = Append(events, e),
         e.behind = (events # <<>>)
  PROVE  /\ events' \in Seq(Event) /\ events' # <<>>
         /\ events'[Len(events')] = e
         /\ FollowersMarked'
         /\ Len(events') = 1 => events = <<>> /\ events'[1] = e
<1>1. /\ Len(events') = Len(events) + 1 /\ events' \in Seq(Event)
      /\ \A i \in 1..Len(events) : events'[i] = events[i]
      /\ events'[Len(events) + 1] = e
      /\ Len(events) \in Nat
      /\ Len(events) = 0 <=> events = <<>>
  BY DEF Types
<1>2. FollowersMarked'
  <2> SUFFICES ASSUME NEW i \in 2..Len(events) + 1 PROVE events'[i].behind
    BY <1>1 DEF FollowersMarked
  <2>1. CASE i \in 2..Len(events)
    BY <1>1, <2>1 DEF FollowersMarked
  <2>2. CASE i = Len(events) + 1
    <3>1. events # <<>>
      BY <1>1, <2>2
    <3> QED BY <1>1, <2>2, <3>1
  <2> QED BY <1>1, <2>1, <2>2
<1> QED BY <1>1, <1>2

LEMMA EventsTaken ==
  ASSUME Types, FollowersMarked, events # <<>>, events' = Tail(events)
  PROVE  /\ events' \in Seq(Event)
         /\ events' # <<>> => events'[Len(events')] = events[Len(events)]
         /\ events' = <<>> => Head(events) = events[Len(events)]
         /\ FollowersMarked'
         /\ Len(events') = 1 => events'[1].behind
<1>1. /\ Len(events) \in Nat \ {0}
      /\ Len(events') = Len(events) - 1 /\ events' \in Seq(Event)
      /\ \A i \in 1..Len(events') : events'[i] = events[i + 1]
      /\ events' # <<>> => events'[Len(events')] = events[Len(events)]
      /\ events' = <<>> => Head(events) = events[Len(events)]
  BY FirstTaken DEF Types
<1>2. \A i \in 1..Len(events') : events'[i].behind
  <2> TAKE i \in 1..Len(events')
  <2>1. i + 1 \in 2..Len(events)
    BY <1>1
  <2> QED BY <1>1, <2>1 DEF FollowersMarked
<1> QED BY <1>1, <1>2 DEF FollowersMarked

LEMMA ResizedTypes ==
  ASSUME NEW s \in Sizes, NEW by \in {"host", "user"}
  PROVE  /\ Resized(s, by) \in Event
         /\ Resized(s, by).size = s /\ Resized(s, by).by = by
         /\ Resized(s, by).behind = (events # <<>>)
BY DEF Resized, Event

----------------------------------------------------------------------------
(* One lemma for each step that matters.                                     *)

LEMMA HostResizesKeeps ==
  ASSUME SyncInv, FollowersMarked, LoneGuarded, NEW s \in Sizes, HostResizes(s)
  PROVE  SyncInv' /\ FollowersMarked' /\ LoneGuarded'
<1>1. /\ size' = s
      /\ UNCHANGED <<known, loop, down, mirror, guard, events, up, asked>>
  BY DEF HostResizes, mirrorVars
<1> QED BY <1>1 DEF SyncInv, Types, EventsCurrent, KnownTold, GuardExplained,
                    Requested, FollowersMarked, LoneGuarded

LEMMA PollKeeps ==
  ASSUME SyncInv, FollowersMarked, LoneGuarded, Poll
  PROVE  SyncInv' /\ FollowersMarked' /\ LoneGuarded'
<1>1. /\ known' = size /\ asked' = None /\ loop' = "pass"
      /\ UNCHANGED <<size, down, mirror, guard, events, up>>
  BY DEF Poll, mirrorVars
<1> QED BY <1>1 DEF SyncInv, Types, EventsCurrent, KnownTold, GuardExplained,
                    FollowersMarked, LoneGuarded

LEMMA PassKeeps ==
  ASSUME SyncInv, FollowersMarked, LoneGuarded, Pass
  PROVE  SyncInv' /\ FollowersMarked' /\ LoneGuarded'
<1>1. /\ down' = Append(down, known) /\ loop' = "idle"
      /\ UNCHANGED <<size, known, mirror, guard, events, up, asked>>
  BY DEF Pass, mirrorVars
<1>2. down' \in Seq(Sizes) /\ down' # <<>> /\ down'[Len(down')] = known
  BY <1>1 DEF SyncInv, Types
<1> QED BY <1>1, <1>2 DEF SyncInv, Types, EventsCurrent, KnownTold, GuardExplained,
                          FollowersMarked, LoneGuarded

LEMMA DrainKeeps ==
  ASSUME SyncInv, FollowersMarked, LoneGuarded, Drain
  PROVE  SyncInv' /\ FollowersMarked' /\ LoneGuarded'
<1> DEFINE h == Head(down)
<1>1. /\ down # <<>> /\ down' = Tail(down)
      /\ mirror' = h /\ guard' = h
      /\ events' = IF h = mirror THEN events ELSE Append(events, Resized(h, "host"))
      /\ UNCHANGED <<size, known, loop, up, asked>>
  BY DEF Drain, hostVars
<1>2. /\ h \in Sizes /\ down' \in Seq(Sizes)
      /\ down' = <<>> => h = down[Len(down)]
      /\ down' # <<>> => down'[Len(down')] = down[Len(down)]
  BY <1>1, FirstTaken DEF SyncInv, Types
<1>3. KnownTold' /\ GuardExplained'
  BY <1>1, <1>2 DEF SyncInv, KnownTold, GuardExplained
<1>4. CASE h = mirror
  BY <1>1, <1>2, <1>3, <1>4
  DEF SyncInv, Types, EventsCurrent, FollowersMarked, LoneGuarded
<1>5. CASE h # mirror
  <2> DEFINE e == Resized(h, "host")
  <2>1. e \in Event /\ e.size = h /\ e.behind = (events # <<>>)
    BY <1>2, ResizedTypes
  <2>2. events' = Append(events, e)
    BY <1>1, <1>5
  <2> HIDE DEF e, h
  <2>3. /\ events' \in Seq(Event) /\ events' # <<>>
        /\ events'[Len(events')] = e
        /\ FollowersMarked'
        /\ Len(events') = 1 => events'[1] = e
    BY <2>1, <2>2, EventsAppended DEF SyncInv
  <2>4. Types' /\ EventsCurrent' /\ LoneGuarded'
    BY <1>1, <1>2, <2>1, <2>3 DEF SyncInv, Types, EventsCurrent, LoneGuarded
  <2> QED BY <1>3, <2>3, <2>4 DEF SyncInv
<1> QED BY <1>4, <1>5

LEMMA UserDragsKeeps ==
  ASSUME SyncInv, FollowersMarked, LoneGuarded, NEW s \in Sizes, UserDrags(s)
  PROVE  SyncInv' /\ FollowersMarked' /\ LoneGuarded'
<1> DEFINE e == Resized(s, "user")
<1>1. /\ mirror' = s /\ events' = Append(events, e)
      /\ UNCHANGED <<size, known, loop, down, guard, up, asked>>
  BY DEF UserDrags, hostVars
<1>2. /\ e \in Event /\ e.size = s /\ e.by = "user"
      /\ e.behind = (events # <<>>)
  BY ResizedTypes
<1> HIDE DEF e
<1>3. /\ events' \in Seq(Event) /\ events' # <<>>
      /\ events'[Len(events')] = e
      /\ FollowersMarked'
      /\ Len(events') = 1 => events'[1] = e
  BY <1>1, <1>2, EventsAppended DEF SyncInv
<1>4. Types' /\ EventsCurrent' /\ LoneGuarded'
  BY <1>1, <1>2, <1>3 DEF SyncInv, Types, EventsCurrent, LoneGuarded
<1>5. KnownTold' /\ GuardExplained'
  BY <1>1 DEF SyncInv, KnownTold, GuardExplained, Requested
<1> QED BY <1>3, <1>4, <1>5 DEF SyncInv

LEMMA OnResizedKeeps ==
  ASSUME SyncInv, FollowersMarked, LoneGuarded, OnResized
  PROVE  SyncInv' /\ FollowersMarked' /\ LoneGuarded'
<1> DEFINE s == Head(events).size
<1>1. /\ events # <<>> /\ events' = Tail(events)
      /\ UNCHANGED <<size, known, loop, down, mirror, asked>>
  BY DEF OnResized, hostVars
<1>2. /\ guard' = s
      /\ \/ up' = up /\ guard' = guard
         \/ up' = Append(up, s)
  BY DEF OnResized
<1>3. Head(events) \in Event /\ s \in Sizes
  <2>1. Head(events) \in Event
    BY <1>1, FirstTaken DEF SyncInv, Types
  <2> QED BY <2>1 DEF Event
<1>4. /\ events' \in Seq(Event)
      /\ events' # <<>> => events'[Len(events')] = events[Len(events)]
      /\ events' = <<>> => s = events[Len(events)].size
      /\ FollowersMarked'
      /\ Len(events') = 1 => events'[1].behind
  BY <1>1, EventsTaken DEF SyncInv
<1> HIDE DEF s
<1>5. /\ up' \in Seq(Sizes)
      /\ \/ up' = up /\ guard' = guard
         \/ up' # <<>> /\ up'[Len(up')] = s
  <2>1. up \in Seq(Sizes)
    BY DEF SyncInv, Types
  <2>2. Append(up, s) \in Seq(Sizes) /\ Append(up, s) # <<>>
    BY <1>3, <2>1, AppendProperties
  <2>3. Append(up, s)[Len(Append(up, s))] = s
    BY <1>3, <2>1, AppendProperties
  <2> QED BY <1>2, <2>1, <2>2, <2>3
<1>6. Types' /\ EventsCurrent' /\ LoneGuarded'
  BY <1>1, <1>2, <1>3, <1>4, <1>5
  DEF SyncInv, Types, EventsCurrent, LoneGuarded
<1>7. KnownTold' /\ GuardExplained'
  BY <1>1, <1>2, <1>5 DEF SyncInv, KnownTold, GuardExplained, Requested
<1> QED BY <1>4, <1>6, <1>7 DEF SyncInv

LEMMA ApplyRequestKeeps ==
  ASSUME SyncInv, FollowersMarked, LoneGuarded, NEW s \in Sizes, ApplyRequest(s)
  PROVE  SyncInv' /\ FollowersMarked' /\ LoneGuarded'
<1>1. /\ up # <<>> /\ up' = Tail(up) /\ asked' = Head(up) /\ size' = s
      /\ UNCHANGED <<known, loop, down, mirror, guard, events>>
  BY DEF ApplyRequest, mirrorVars
<1>2. /\ up' \in Seq(Sizes) /\ asked' \in Sizes
      /\ up' = <<>> => asked' = up[Len(up)]
      /\ up' # <<>> => up'[Len(up')] = up[Len(up)]
  BY <1>1, FirstTaken DEF SyncInv, Types
<1>3. GuardExplained'
  BY <1>1, <1>2 DEF SyncInv, GuardExplained, Requested
<1> QED BY <1>1, <1>2, <1>3
        DEF SyncInv, Types, EventsCurrent, KnownTold, FollowersMarked, LoneGuarded

LEMMA SyncKept ==
  ASSUME SyncInv, FollowersMarked, LoneGuarded, [Next]_vars
  PROVE  SyncInv' /\ FollowersMarked' /\ LoneGuarded'
BY Elsewhere, ElsewhereSteps, HostResizesKeeps, PollKeeps, PassKeeps, DrainKeeps,
   UserDragsKeeps, OnResizedKeeps, ApplyRequestKeeps DEF Next

LEMMA SyncAlways ==
  Spec => [](SyncInv /\ FollowersMarked /\ LoneGuarded)
<1>1. (SyncInv /\ FollowersMarked /\ LoneGuarded) /\ [Next]_vars =>
        (SyncInv /\ FollowersMarked /\ LoneGuarded)'
  BY SyncKept
<1> QED BY <1>1, SyncBegins, PTL DEF Spec

----------------------------------------------------------------------------
LEMMA SyncAgreed == SyncInv => Agreed
<1> SUFFICES ASSUME SyncInv, Quiet, asked \in {None, size} PROVE mirror = size
  BY DEF Agreed
<1>1. mirror = guard
  BY DEF SyncInv, EventsCurrent, Quiet
<1>2. guard = known \/ asked = guard
  BY DEF SyncInv, GuardExplained, Requested, Quiet
<1>3. asked # guard \/ asked = size
  BY GeometryAssumption DEF SyncInv, Types
<1> QED BY <1>1, <1>2, <1>3 DEF Quiet

(* Once nothing is under way, the mirror and the window have the same size,  *)
(* unless the application refused or undid a request.                        *)
THEOREM SizesAgree ==
  Spec => []Agreed
BY SyncAgreed, SyncAlways, PTL

----------------------------------------------------------------------------
(* A request goes up in no step but OnResized.                               *)
LEMMA OnlyEventsAsk ==
  ASSUME SyncInv, [Next]_vars, Echo
  PROVE  OnResized /\ Head(events).size # guard
<1>1. PICK a \in Sizes : up' = Append(up, a)
  BY DEF Echo
<1>2. up' # up /\ Len(up') = Len(up) + 1 /\ Len(up) \in Nat
  BY <1>1 DEF SyncInv, Types
<1>3. ASSUME NEW s \in Sizes, ApplyRequest(s) PROVE FALSE
  <2>1. Len(up') = Len(up) - 1
    BY <1>3 DEF ApplyRequest, SyncInv, Types
  <2> QED BY <1>2, <2>1
<1>4. ASSUME NEW s \in Sizes, HostResizes(s) \/ UserDrags(s) PROVE up' = up
  BY <1>4 DEF HostResizes, UserDrags
<1>5. ASSUME Poll \/ Pass \/ Drain PROVE up' = up
  BY <1>5 DEF Poll, Pass, Drain
<1>6. ASSUME UNCHANGED syncVars PROVE up' = up
  BY <1>6 DEF syncVars
<1>7. OnResized
  BY <1>2, <1>3, <1>4, <1>5, <1>6, ElsewhereSteps DEF Next
<1> QED BY <1>2, <1>7 DEF OnResized

(* The mirror asks for no size that the host gave it, unless two size        *)
(* changes waited together.                                                  *)
THEOREM EchoesOverlap ==
  Spec => OnlyOverlapsEcho
<1> DEFINE Allowed == \/ Head(events).by = "user"
                      \/ Head(events).behind \/ Len(events) > 1
<1>1. SyncInv /\ LoneGuarded /\ [Next]_vars => [Echo => Allowed]_vars
  <2> SUFFICES ASSUME SyncInv, LoneGuarded, [Next]_vars, Echo PROVE Allowed
    OBVIOUS
  <2>1. OnResized /\ Head(events).size # guard
    BY OnlyEventsAsk
  <2>2. /\ events # <<>> /\ Head(events) = events[1] /\ events[1] \in Event
        /\ Len(events) \in Nat \ {0}
    BY <2>1, FirstTaken DEF OnResized, SyncInv, Types
  <2>3. ~(Len(events) = 1 /\ events[1].by = "host" /\ ~events[1].behind)
    BY <2>1, <2>2 DEF LoneGuarded
  <2>4. Len(events) = 1 \/ Len(events) > 1
    <3>1. Len(events) \in Nat \ {0}
      BY <2>2
    <3> QED BY <3>1
  <2>5. events[1].by = "host" \/ events[1].by = "user"
    BY <2>2 DEF Event
  <2> QED BY <2>2, <2>3, <2>4, <2>5
<1> QED BY <1>1, SyncAlways, PTL DEF Spec, OnlyOverlapsEcho

----------------------------------------------------------------------------
(* The mapping follows the frames.                                           *)

Metas == [frame : Nat \ {0}, union : Nat \ {0}, content : Nat \ {0}]
Current == IF last_sent = None THEN Identity ELSE last_sent

(* The metadata that waits last is the one frame_sink passed on last; once   *)
(* the forwarder has taken it, the client has the mapping that it gives with *)
(* the size the tracker had then.                                            *)
MappingInv ==
  /\ expected \in Sizes /\ sheet \in Sheets \cup {None}
  /\ meta \in Seq(Metas)
  /\ meta # <<>> => meta[Len(meta)] = last_meta
  /\ meta = <<>> /\ last_meta # None =>
       used \in Sizes /\ Current = MappingForFrame(last_meta, used)

LEMMA MaxOfTwo ==
  ASSUME NEW a \in Int, NEW b \in Int
  PROVE  Max({a, b}) = IF a >= b THEN a ELSE b
BY DEF Max

LEMMA MinOfTwo ==
  ASSUME NEW a \in Int, NEW b \in Int
  PROVE  Min({a, b}) = IF a <= b THEN a ELSE b
BY DEF Min

LEMMA DivisionExact ==
  ASSUME NEW a \in Nat, NEW b \in Nat \ {0}
  PROVE  (a * b) \div b = a
OBVIOUS

LEMMA MetaType ==
  ASSUME NEW s \in Sizes, NEW f \in Sizes, NEW c \in Sheets \cup {None}
  PROVE  /\ Meta(f, s, c) \in Metas /\ Meta(f, s, c) # None
         /\ Meta(f, s, c).frame = f
<1>1. s \in Nat \ {0} /\ f \in Nat \ {0} /\ (c # None => c \in Nat \ {0})
  BY GeometryAssumption
<1> DEFINE union == IF c = None THEN s ELSE Max({s, c})
<1>2. union \in Nat \ {0}
  BY <1>1, MaxOfTwo
<1>3. Min({f, union}) \in Nat \ {0}
  BY <1>1, <1>2, MinOfTwo
<1>4. Meta(f, s, c) = [frame |-> f, union |-> union, content |-> Min({f, union})]
  BY DEF Meta
<1> QED BY <1>1, <1>2, <1>3, <1>4, GeometryAssumption DEF Metas

LEMMA MappingType ==
  ASSUME NEW fm \in Metas, NEW w \in Sizes
  PROVE  MappingForFrame(fm, w) # None /\ Identity # None
<1>1. /\ w \in Nat \ {0} /\ fm.frame \in Nat \ {0}
      /\ fm.union \in Nat \ {0} /\ fm.content \in Nat \ {0}
  BY GeometryAssumption DEF Metas
<1>2. w * fm.content \in Nat \ {0} /\ fm.frame * fm.union \in Nat
  BY <1>1
<1>3. (fm.frame * fm.union) \div (w * fm.content) \in Int
  BY <1>2
<1>4. Max({fm.union - w, 0}) \in Nat
  BY <1>1, MaxOfTwo
<1>5. -(Max({fm.union - w, 0}) \div 2) \in Int
  BY <1>4
<1>6. Identity \in [scale : Int, offset : Int]
  BY DEF Identity
<1>7. MappingForFrame(fm, w) \in [scale : Int, offset : Int]
  BY <1>3, <1>5, <1>6 DEF MappingForFrame
<1> QED BY <1>6, <1>7, GeometryAssumption

LEMMA MappingStep ==
  ASSUME SyncInv, MappingInv, [Next]_vars
  PROVE  MappingInv'
<1>1. CASE UNCHANGED <<expected, sheet, sinkVars>>
  BY <1>1 DEF MappingInv, Current, sinkVars
<1>2. CASE \/ \E s \in Sizes : HostResizes(s) \/ UserDrags(s) \/ ApplyRequest(s)
           \/ Poll \/ Drain \/ OnResized \/ UNCHANGED vars
  BY <1>1, <1>2 DEF HostResizes, UserDrags, ApplyRequest, Poll, Drain, OnResized, vars, hostVars
<1>3. CASE \E child \in Sheets \cup {None} : SheetChanges(child)
  BY <1>3 DEF SheetChanges, MappingInv, Current, sinkVars
<1>4. CASE Pass
  <2>1. known \in Sizes /\ expected' \in {known, expected}
    BY <1>4 DEF Pass, Reconfigure, SyncInv, Types
  <2> QED BY <1>4, <2>1 DEF Pass, MappingInv, Current, sinkVars
<1>5. CASE Frame
  <2> DEFINE now == Meta(expected, size, sheet)
  <2>1. now \in Metas
    BY MetaType DEF SyncInv, Types, MappingInv
  <2>2. /\ last_meta' = now /\ meta' = Append(meta, now)
        /\ UNCHANGED <<expected, sheet>>
    BY <1>5 DEF Frame, hostVars
  <2> HIDE DEF now
  <2>3. meta' \in Seq(Metas) /\ meta' # <<>> /\ meta'[Len(meta')] = now
    BY <2>1, <2>2, AppendProperties DEF MappingInv
  <2> QED BY <2>2, <2>3 DEF MappingInv
<1>6. CASE ForwardMeta
  <2> DEFINE next == MappingForFrame(Head(meta), known)
  <2>1. /\ meta # <<>> /\ meta' = Tail(meta) /\ used' = known /\ known \in Sizes
        /\ last_sent' = IF ShouldSend(last_sent, next) THEN next ELSE last_sent
        /\ UNCHANGED <<expected, sheet, last_meta>>
    BY <1>6 DEF ForwardMeta, hostVars, SyncInv, Types
  <2>2. /\ Head(meta) \in Metas /\ Tail(meta) \in Seq(Metas)
        /\ Tail(meta) # <<>> => Tail(meta)[Len(Tail(meta))] = meta[Len(meta)]
        /\ Tail(meta) = <<>> => Head(meta) = meta[Len(meta)]
    BY <2>1, FirstTaken DEF MappingInv
  <2>3. next # None /\ Identity # None
    BY <2>2, MappingType DEF SyncInv, Types
  <2>4. Current' = next
    BY <2>1, <2>3 DEF Current, ShouldSend
  <2> QED BY <2>1, <2>2, <2>4 DEF MappingInv
<1> QED BY <1>2, <1>3, <1>4, <1>5, <1>6 DEF Next

LEMMA MappingAlways ==
  Spec => []MappingInv
<1>1. Init => MappingInv
  BY DEF Init, MappingInv
<1> QED BY <1>1, MappingStep, SyncAlways, PTL DEF Spec

(* The mapping that a frame's metadata gives inverts the rendering in a      *)
(* mirror of the window's size, whatever the size of the frame, unless it    *)
(* holds all there is to show without being the window's size.               *)
LEMMA MappingInverts ==
  ASSUME NEW f \in Sizes, NEW s \in Sizes, NEW c \in Sheets \cup {None},
         NEW x \in Nat, NEW w \in Sizes,
         c # None /\ c > s => \E k \in Nat : c = k * s,
         Meta(f, s, c).content = Meta(f, s, c).union => f = s,
         Meta(f, s, c).content # Meta(f, s, c).union => w = s
  PROVE  LET fm == Meta(f, s, c)
         IN  Apply(MappingForFrame(fm, w), x) =
               (x * fm.frame * fm.union) \div (s * fm.content) - ((fm.union - s) \div 2)
<1>1. s \in Nat \ {0} /\ f \in Nat \ {0} /\ (c # None => c \in Nat \ {0})
  BY GeometryAssumption
<1> DEFINE u == IF c = None THEN s ELSE Max({s, c})
<1>2. u \in Nat \ {0} /\ u >= s /\ (u = s \/ (c # None /\ c > s /\ u = c))
  BY <1>1, MaxOfTwo
<1>3. PICK k \in Nat : u = k * s
  BY <1>1, <1>2
<1> HIDE DEF u
<1>4. Meta(f, s, c) = [frame |-> f, union |-> u, content |-> Min({f, u})]
  BY DEF Meta, u
<1>5. CASE Min({f, u}) = u
  <2>1. f = s /\ f >= u
    BY <1>1, <1>2, <1>4, <1>5, MinOfTwo
  <2>2. u = s
    BY <1>1, <1>2, <2>1
  <2>3. Meta(f, s, c) = [frame |-> s, union |-> s, content |-> s]
    BY <1>4, <1>5, <2>1, <2>2
  <2>4. Apply(MappingForFrame(Meta(f, s, c), w), x) = x
    BY <2>3 DEF MappingForFrame, Identity, Apply
  <2>5. (x * s * s) \div (s * s) = x
    <3>1. x * s * s = x * (s * s) /\ s * s \in Nat \ {0}
      BY <1>1
    <3> QED BY <3>1, DivisionExact
  <2>6. (s - s) \div 2 = 0
    BY <1>1
  <2> QED BY <2>3, <2>4, <2>5, <2>6
<1>6. CASE Min({f, u}) # u
  <2>1. Min({f, u}) = f /\ w = s
    BY <1>1, <1>2, <1>4, <1>6, MinOfTwo
  <2>2. s * f \in Nat \ {0}
    BY <1>1
  <2>3. (f * u) \div (s * f) = k
    <3>1. f * u = k * (s * f)
      BY <1>1, <1>3
    <3> QED BY <2>2, <3>1, DivisionExact
  <2>4. (x * f * u) \div (s * f) = x * k
    <3>1. x * f * u = (x * k) * (s * f) /\ x * k \in Nat
      BY <1>1, <1>3
    <3> QED BY <2>2, <3>1, DivisionExact
  <2>5. Max({u - s, 0}) = u - s /\ (u - s) \div 2 \in Int
    BY <1>1, <1>2, MaxOfTwo
  <2>6. MappingForFrame(Meta(f, s, c), w) = [scale |-> k, offset |-> -((u - s) \div 2)]
    BY <1>4, <1>6, <2>1, <2>3, <2>5 DEF MappingForFrame
  <2>7. Apply(MappingForFrame(Meta(f, s, c), w), x) = -((u - s) \div 2) + k * x
    BY <2>6 DEF Apply
  <2>8. -((u - s) \div 2) + k * x = x * k - ((u - s) \div 2)
    BY <2>5
  <2> QED BY <1>4, <2>1, <2>4, <2>7, <2>8
<1> QED BY <1>5, <1>6

(* A click lands on what the user sees under the pointer, for all sizes that *)
(* divide evenly, as the model counts in whole numbers, and for captures     *)
(* left smaller than their window; ClicksLand names the frames it leaves out.*)
THEOREM ClicksAlwaysLand ==
  ASSUME \A s \in Sizes, c \in Sheets : c > s => \E k \in Nat : c = k * s
  PROVE  Spec => []ClicksLand
<1>1. ASSUME SyncInv, MappingInv PROVE ClicksLand
  <2> DEFINE fm == Meta(expected, size, sheet)
  <2> SUFFICES ASSUME Quiet, asked \in {None, size}, meta = <<>>, last_meta = fm,
                      ~LargerThanShown(fm), ~Torn(fm), NEW x \in 0..mirror
               PROVE  Apply(Current, x) = PointShown(x)
    BY DEF ClicksLand, Current
  <2>1. /\ size \in Sizes /\ sheet \in Sheets \cup {None} /\ mirror \in Sizes
        /\ expected \in Sizes
    BY <1>1 DEF SyncInv, Types, MappingInv
  <2>2. mirror = size
    BY <1>1, SyncAgreed DEF Agreed
  <2>3. used \in Sizes /\ Current = MappingForFrame(fm, used)
    BY <1>1, <2>1, MetaType DEF MappingInv
  <2>4. x \in Nat
    BY <2>1, GeometryAssumption
  <2>5. sheet # None /\ sheet > size => \E k \in Nat : sheet = k * size
    BY <2>1
  <2>6. /\ fm.content = fm.union => expected = size
        /\ fm.content # fm.union => used = size
    BY <2>1, MetaType DEF LargerThanShown, Torn
  <2> QED BY <2>1, <2>2, <2>3, <2>4, <2>5, <2>6, MappingInverts DEF PointShown
<1> QED BY <1>1, SyncAlways, MappingAlways, PTL
=============================================================================
