----------------------------- MODULE HostProofs -----------------------------
(* The host session, for every value of the constants: the events of any     *)
(* sequence of polls, handled one by one, keep the client informed and the   *)
(* tracks, captures and the input sink in agreement with the tracker.        *)
EXTENDS HostInvariant, SequenceTheorems, TLAPS

----------------------------------------------------------------------------
(* The diff of a poll.                                                       *)
LEMMA FramesOfEvents ==
  ASSUME NEW w \in Windows, NEW t \in Titles, NEW s \in Sizes
  PROVE  {WindowOpened(w, t, s), WindowResized(w, s), WindowTitleChanged(w, t),
          WindowMinimized(w), WindowRestored(w), WindowClosed(w)} \subseteq DownFrame
BY DEF DownFrame

(* What each event is about.                                                 *)
LEMMA FieldsOfEvents ==
  ASSUME NEW w, NEW t, NEW s
  PROVE  /\ WindowOpened(w, t, s).window = w /\ WindowOpened(w, t, s).type = "WindowOpened"
         /\ WindowOpened(w, t, s).title = t /\ WindowOpened(w, t, s).size = s
         /\ WindowResized(w, s).window = w /\ WindowResized(w, s).type = "WindowResized"
         /\ WindowResized(w, s).size = s
         /\ WindowTitleChanged(w, t).window = w
         /\ WindowTitleChanged(w, t).type = "WindowTitleChanged"
         /\ WindowTitleChanged(w, t).title = t
         /\ WindowMinimized(w).window = w /\ WindowMinimized(w).type = "WindowMinimized"
         /\ WindowRestored(w).window = w /\ WindowRestored(w).type = "WindowRestored"
         /\ WindowClosed(w).window = w /\ WindowClosed(w).type = "WindowClosed"
BY DEF WindowOpened, WindowResized, WindowTitleChanged, WindowMinimized, WindowRestored,
       WindowClosed

LEMMA OursType ==
  ASSUME NEW pids0, NEW snapshot \in [Windows -> Option(SnapshotWindow)]
  PROVE  /\ Ours(pids0, snapshot) \in [Windows -> Option(SnapshotWindow)]
         /\ \A w \in Windows : Ours(pids0, snapshot)[w] # None =>
              /\ Owner[w] \in pids0
              /\ Ours(pids0, snapshot)[w] \in SnapshotWindow
BY DEF Ours, Option

LEMMA DiffLiveType ==
  ASSUME NEW live0 \in [Windows -> Option(Tracked)],
         NEW ours \in [Windows -> Option(SnapshotWindow)]
  PROVE  DiffLive(live0, ours) \in [Windows -> Option(Tracked)]
<1>1. ASSUME NEW w \in Windows, ours[w] # None
      PROVE  /\ Opened(ours[w]) \in Tracked
             /\ live0[w] # None => Updated(live0[w], ours[w]) \in Tracked
  BY <1>1 DEF Opened, Updated, Option, SnapshotWindow, Tracked
<1>2. QED
  BY <1>1 DEF DiffLive, Option

(* An event of a diff: of which window, for what reason, with what content.  *)
LEMMA DiffEvent ==
  ASSUME NEW live0, NEW ours, NEW e \in DiffEvents(live0, ours)
  PROVE  \E w \in Windows :
           LET t == live0[w]
               s == ours[w]
           IN  \/ /\ e = WindowClosed(w) /\ t # None /\ s = None
               \/ /\ t = None /\ s # None
                  /\ e = WindowOpened(w, s.title, s.size) \/ (s.minimized /\ e = WindowMinimized(w))
               \/ /\ t # None /\ s # None
                  /\ \/ s.minimized /\ ~t.minimized /\ e = WindowMinimized(w)
                     \/ t.minimized /\ ~s.minimized /\ e = WindowRestored(w)
                     \/ SizeChanged(t, s) /\ e = WindowResized(w, s.size)
                     \/ s.title # t.title /\ e = WindowTitleChanged(w, s.title)
<1>1. CASE e \in CloseEvents(live0, ours)
  BY <1>1 DEF CloseEvents, Closed
<1>2. CASE e \in OpenedEvents(live0, ours)
  <2>1. PICK w \in OpenedNow(live0, ours) : e \in OpenEvents(w, ours[w])
    BY <1>2 DEF OpenedEvents
  <2>2. QED
    BY <2>1 DEF OpenedNow, OpenEvents
<1>3. CASE e \in UpdatedEvents(live0, ours)
  <2>1. PICK w \in Kept(live0, ours) : e \in UpdateEvents(w, live0[w], ours[w])
    BY <1>3 DEF UpdatedEvents
  <2>2. QED
    BY <2>1 DEF Kept, UpdateEvents
<1>4. QED
  BY <1>1, <1>2, <1>3 DEF DiffEvents

LEMMA DiffComplete ==
  ASSUME NEW live0, NEW ours, NEW w \in Windows
  PROVE  LET t == live0[w]
             s == ours[w]
             evs == DiffEvents(live0, ours)
         IN  /\ t # None /\ s = None => WindowClosed(w) \in evs
             /\ t = None /\ s # None =>
                  /\ WindowOpened(w, s.title, s.size) \in evs
                  /\ s.minimized => WindowMinimized(w) \in evs
             /\ t # None /\ s # None =>
                  /\ s.minimized /\ ~t.minimized => WindowMinimized(w) \in evs
                  /\ t.minimized /\ ~s.minimized => WindowRestored(w) \in evs
                  /\ SizeChanged(t, s) => WindowResized(w, s.size) \in evs
                  /\ s.title # t.title => WindowTitleChanged(w, s.title) \in evs
<1> DEFINE evs == DiffEvents(live0, ours)
<1>1. w \in Closed(live0, ours) => WindowClosed(w) \in evs
  BY DEF DiffEvents, CloseEvents
<1>2. w \in OpenedNow(live0, ours) => OpenEvents(w, ours[w]) \subseteq evs
  BY DEF DiffEvents, OpenedEvents
<1>3. w \in Kept(live0, ours) => UpdateEvents(w, live0[w], ours[w]) \subseteq evs
  BY DEF DiffEvents, UpdatedEvents
<1>4. QED
  BY <1>1, <1>2, <1>3 DEF Closed, OpenedNow, Kept, OpenEvents, UpdateEvents

LEMMA DiffType ==
  ASSUME NEW live0 \in [Windows -> Option(Tracked)],
         NEW ours \in [Windows -> Option(SnapshotWindow)]
  PROVE  DiffEvents(live0, ours) \subseteq DownFrame
<1>1. SUFFICES ASSUME NEW e \in DiffEvents(live0, ours)
               PROVE  e \in DownFrame
  OBVIOUS
<1>2. PICK w \in Windows :
        \/ e = WindowClosed(w) \/ e = WindowMinimized(w) \/ e = WindowRestored(w)
        \/ /\ ours[w] # None
           /\ \/ e = WindowOpened(w, ours[w].title, ours[w].size)
              \/ e = WindowResized(w, ours[w].size)
              \/ e = WindowTitleChanged(w, ours[w].title)
  BY <1>1, DiffEvent
<1>3. ours[w] # None => ours[w].title \in Titles /\ ours[w].size \in Sizes
  BY DEF Option, SnapshotWindow
<1>4. QED
  BY <1>2, <1>3 DEF DownFrame

----------------------------------------------------------------------------
(* Type correctness.  First the parts beside the loop.                       *)
LEMMA ItemTypes ==
  /\ \A w \in Windows : {FocusChange(w), KeyEvent(w), MouseDown(w), MouseUp(w)} \subseteq InputWork
  /\ \A ws \in SUBSET Windows : UpdatePids(ws) \in InputWork
  /\ Shutdown \in InputWork
<1>1. \A w \in Windows : {FocusChange(w), KeyEvent(w), MouseDown(w), MouseUp(w)}
        \in {{FocusChange(v), KeyEvent(v), MouseDown(v), MouseUp(v)} : v \in Windows}
  OBVIOUS
<1>2. \A w \in Windows :
        {FocusChange(w), KeyEvent(w), MouseDown(w), MouseUp(w)} \subseteq InputEvents
  BY <1>1 DEF InputEvents
<1>3. QED
  BY <1>2 DEF InputWork

(* An item of work that is about a window, and a map.                        *)
LEMMA ItemFields ==
  ASSUME NEW item \in InputWork
  PROVE  /\ item.type \in {"FocusChange", "KeyEvent", "MouseDown", "MouseUp", "UpdatePids",
                           "Shutdown"}
         /\ item.type \in {"FocusChange", "KeyEvent", "MouseDown", "MouseUp"} =>
              item.window \in Windows
         /\ item.type = "UpdatePids" => item.windows \in SUBSET Windows
<1>1. CASE item \in InputEvents
  <2>1. PICK w \in Windows : item \in {FocusChange(w), KeyEvent(w), MouseDown(w), MouseUp(w)}
    BY <1>1 DEF InputEvents
  <2>2. QED
    BY <2>1 DEF FocusChange, KeyEvent, MouseDown, MouseUp
<1>2. CASE item \in {UpdatePids(ws) : ws \in SUBSET Windows} \cup {Shutdown}
  BY <1>2 DEF UpdatePids, Shutdown
<1>3. QED
  BY <1>1, <1>2 DEF InputWork

LEMMA WorkAdded ==
  ASSUME InputTypeOK, NEW item \in InputWork, work' = Append(work, item),
         UNCHANGED <<sinkVars, worker>>, focused' \in Option(Windows), pressed' \in Option(Windows)
  PROVE  InputTypeOK'
BY AppendProperties DEF InputTypeOK, sinkVars

LEMMA StopWorkerType ==
  ASSUME InputTypeOK, StopWorker
  PROVE  InputTypeOK'
BY WorkAdded, ItemTypes DEF StopWorker, InputTypeOK, userVars

LEMMA RefreshType ==
  ASSUME TypeOK, Refresh
  PROVE  InputTypeOK'
<1>1. Present(live) \subseteq Windows
  BY DEF TypeOK, Present
<1>2. QED
  BY <1>1, WorkAdded, ItemTypes DEF Refresh, TypeOK, InputTypeOK, userVars

LEMMA WorkType ==
  ASSUME TypeOK, Work(live)
  PROVE  InputTypeOK'
<1>1. InputTypeOK /\ work # <<>>
  BY DEF TypeOK, Work
<1>2. Head(work) \in InputWork /\ Tail(work) \in Seq(InputWork)
  BY <1>1, HeadTailProperties DEF InputTypeOK
<1> DEFINE item == Head(work)
<1>3. sink_pids' \subseteq Windows
  BY <1>1, <1>2, ItemFields DEF Work, Takes, InputTypeOK
<1>4. held' \in Option(Windows)
  BY <1>1, <1>2, ItemFields DEF Work, Takes, InputTypeOK, Option, Raise, Focuses, Placed
<1>5. frontmost' \in Option(Apps)
  BY <1>1, <1>2, ItemFields, DataAssumption DEF Work, Takes, InputTypeOK, Option, Raise, Focuses, Placed
<1>6. QED
  BY <1>1, <1>2, <1>3, <1>4, <1>5 DEF Work, Takes, InputTypeOK, userVars

LEMMA UserActsType ==
  ASSUME TypeOK, UserActs
  PROVE  InputTypeOK'
<1>1. InputTypeOK
  BY DEF TypeOK
<1>2. CASE MirrorLost
  BY <1>1, <1>2 DEF MirrorLost, InputTypeOK, sinkVars, Option
<1>3. ASSUME NEW w \in Windows,
             UserFocuses(w) \/ UserTypes(w) \/ UserPresses(w) \/ UserReleases(w)
      PROVE  InputTypeOK'
  <2>1. PICK item \in InputWork : Relays(item)
    BY <1>3, ItemTypes DEF UserFocuses, UserTypes, UserPresses, UserReleases
  <2>2. focused' \in Option(Windows) /\ pressed' \in Option(Windows)
    BY <1>1, <1>3
       DEF UserFocuses, UserTypes, UserPresses, UserReleases, InputTypeOK, Option, userVars
  <2>3. QED
    BY <1>1, <2>1, <2>2, WorkAdded DEF Relays
<1>4. QED
  <2>1. Present(view.mirrors) \subseteq Windows
    BY DEF TypeOK, World, Present
  <2>2. QED
    BY <1>2, <1>3, <2>1 DEF UserActs

----------------------------------------------------------------------------
(* What a frame is, by its type, and what a client makes of it.              *)
LEMMA FrameFields ==
  ASSUME NEW f \in DownFrame
  PROVE  /\ f.type # "Icon" => f.window \in Windows
         /\ f.type = "WindowOpened" =>
              f.title \in Titles /\ f.size \in Sizes /\ f = WindowOpened(f.window, f.title, f.size)
         /\ f.type = "WindowResized" => f.size \in Sizes /\ f = WindowResized(f.window, f.size)
         /\ f.type = "WindowTitleChanged" =>
              f.title \in Titles /\ f = WindowTitleChanged(f.window, f.title)
         /\ f.type = "WindowMinimized" => f = WindowMinimized(f.window)
         /\ f.type = "WindowRestored" => f = WindowRestored(f.window)
         /\ f.type = "WindowClosed" => f = WindowClosed(f.window)
         /\ f.type = "InputMapping" => f.mapping \in Mappings
BY DEF DownFrame, WindowOpened, WindowResized, WindowTitleChanged, WindowMinimized,
       WindowRestored, WindowClosed, InputMapping, Video, Icon

(* What a mirror shows of a window after an event about it.                  *)
MirrorAfter(m, f) ==
  IF m = None \/ f.type = "WindowClosed" THEN None
  ELSE CASE f.type = "WindowResized"      -> [m EXCEPT !.size = f.size]
         [] f.type = "WindowTitleChanged" -> [m EXCEPT !.title = f.title]
         [] f.type = "WindowMinimized"    -> [m EXCEPT !.minimized = TRUE]
         [] f.type = "WindowRestored"     -> [m EXCEPT !.minimized = FALSE]
         [] f.type = "InputMapping"       -> [m EXCEPT !.mapping = f.mapping]

HostFrames == {"WindowClosed", "WindowResized", "WindowTitleChanged", "WindowMinimized",
               "WindowRestored", "InputMapping"}

LEMMA WorldParts ==
  ASSUME NEW v \in World
  PROVE  /\ v.mirrors \in [Windows -> Option(Mirror)]
         /\ v.buffered \in [Windows -> Option(Mappings)]
         /\ v.early \in SUBSET Windows
         /\ \A mirrors \in [Windows -> Option(Mirror)] : [v EXCEPT !.mirrors = mirrors] \in World
         /\ \A buffered \in [Windows -> Option(Mappings)] :
              [v EXCEPT !.buffered = buffered] \in World
         /\ \A early \in SUBSET Windows : [v EXCEPT !.early = early] \in World
         /\ [v EXCEPT !.saw = TRUE] \in World
BY DEF World

LEMMA MirrorParts ==
  ASSUME NEW m \in Mirror
  PROVE  /\ \A s \in Sizes : [m EXCEPT !.size = s] \in Mirror
         /\ \A t \in Titles : [m EXCEPT !.title = t] \in Mirror
         /\ \A b \in BOOLEAN : [m EXCEPT !.minimized = b] \in Mirror
         /\ \A p \in Mappings : [m EXCEPT !.mapping = p] \in Mirror
BY DEF Mirror

LEMMA UpdateDelivered ==
  ASSUME NEW v \in World, NEW w \in Windows, NEW m, v.mirrors[w] # None => m \in Mirror
  PROVE  /\ UpdateMirror(v, w, m) \in World
         /\ UpdateMirror(v, w, m).mirrors[w] = IF v.mirrors[w] = None THEN None ELSE m
         /\ \A u \in Windows \ {w} : UpdateMirror(v, w, m).mirrors[u] = v.mirrors[u]
<1>1. CASE v.mirrors[w] = None
  BY <1>1 DEF UpdateMirror
<1>2. CASE v.mirrors[w] # None
  <2>1. UpdateMirror(v, w, m) = [v EXCEPT !.mirrors = [v.mirrors EXCEPT ![w] = m]]
    BY <1>2 DEF UpdateMirror
  <2>2. [v.mirrors EXCEPT ![w] = m] \in [Windows -> Option(Mirror)]
    BY <1>2, WorldParts DEF Option
  <2>3. UpdateMirror(v, w, m).mirrors = [v.mirrors EXCEPT ![w] = m]
    BY <2>1 DEF World
  <2>4. UpdateMirror(v, w, m) \in World
    BY <2>1, <2>2 DEF World
  <2>5. v.mirrors \in [Windows -> Option(Mirror)]
    BY WorldParts
  <2>6. QED
    BY <1>2, <2>3, <2>4, <2>5
<1>3. QED
  BY <1>1, <1>2

LEMMA HostDelivered ==
  ASSUME NEW v \in World, NEW f \in DownFrame, f.type \in HostFrames
  PROVE  /\ Deliver(v, f) \in World
         /\ Deliver(v, f).mirrors[f.window] = MirrorAfter(v.mirrors[f.window], f)
         /\ \A u \in Windows \ {f.window} : Deliver(v, f).mirrors[u] = v.mirrors[u]
<1> DEFINE w == f.window
           m == v.mirrors[w]
<1>1. w \in Windows
  BY FrameFields DEF HostFrames
<1>2. m # None => m \in Mirror
  BY <1>1, WorldParts DEF Option
<1>3. CASE f.type = "WindowClosed"
  <2>1. Deliver(v, f) = DestroyMirror(v, w)
    BY <1>3 DEF Deliver
  <2> DEFINE early == IF m # None THEN v.early \ {w} ELSE v.early
  <2>2. DestroyMirror(v, w) = [[[v EXCEPT !.mirrors = [v.mirrors EXCEPT ![w] = None]]
                                  EXCEPT !.buffered = [v.buffered EXCEPT ![w] = None]]
                                  EXCEPT !.early = early]
    BY DEF DestroyMirror, World
  <2>3. /\ [v.mirrors EXCEPT ![w] = None] \in [Windows -> Option(Mirror)]
        /\ [v.buffered EXCEPT ![w] = None] \in [Windows -> Option(Mappings)]
        /\ early \in SUBSET Windows
    BY WorldParts DEF Option
  <2>4. DestroyMirror(v, w) \in World
    BY <2>2, <2>3 DEF World
  <2>5. DestroyMirror(v, w).mirrors = [v.mirrors EXCEPT ![w] = None]
    BY DEF DestroyMirror, World
  <2>6. v.mirrors \in [Windows -> Option(Mirror)] /\ MirrorAfter(m, f) = None
    BY <1>3, WorldParts DEF MirrorAfter
  <2>7. QED
    BY <1>1, <2>1, <2>4, <2>5, <2>6
<1>4. CASE f.type = "WindowResized"
  <2>1. m # None => [m EXCEPT !.size = f.size] \in Mirror
    BY <1>2, <1>4, FrameFields, MirrorParts
  <2>2. Deliver(v, f) = UpdateMirror(v, w, [m EXCEPT !.size = f.size])
    BY <1>4 DEF Deliver
  <2>3. MirrorAfter(m, f) = IF m = None THEN None ELSE [m EXCEPT !.size = f.size]
    BY <1>4 DEF MirrorAfter
  <2>4. QED
    BY <1>1, <2>1, <2>2, <2>3, UpdateDelivered
<1>5. CASE f.type = "WindowTitleChanged"
  <2>1. m # None => [m EXCEPT !.title = f.title] \in Mirror
    BY <1>2, <1>5, FrameFields, MirrorParts
  <2>2. Deliver(v, f) = UpdateMirror(v, w, [m EXCEPT !.title = f.title])
    BY <1>5 DEF Deliver
  <2>3. MirrorAfter(m, f) = IF m = None THEN None ELSE [m EXCEPT !.title = f.title]
    BY <1>5 DEF MirrorAfter
  <2>4. QED
    BY <1>1, <2>1, <2>2, <2>3, UpdateDelivered
<1>6. CASE f.type = "WindowMinimized"
  <2> DEFINE n == [m EXCEPT !.minimized = TRUE]
  <2>1. m # None => n \in Mirror
    BY <1>2, MirrorParts
  <2>2. Deliver(v, f) = UpdateMirror(v, w, n)
    BY <1>6 DEF Deliver
  <2>3. MirrorAfter(m, f) = IF m = None THEN None ELSE n
    BY <1>6 DEF MirrorAfter
  <2> HIDE DEF n
  <2>4. QED
    BY <1>1, <2>1, <2>2, <2>3, UpdateDelivered
<1>7. CASE f.type = "WindowRestored"
  <2> DEFINE n == [m EXCEPT !.minimized = FALSE]
  <2>1. m # None => n \in Mirror
    BY <1>2, MirrorParts
  <2>2. Deliver(v, f) = UpdateMirror(v, w, n)
    BY <1>7 DEF Deliver
  <2>3. MirrorAfter(m, f) = IF m = None THEN None ELSE n
    BY <1>7 DEF MirrorAfter
  <2> HIDE DEF n
  <2>4. QED
    BY <1>1, <2>1, <2>2, <2>3, UpdateDelivered
<1>8. CASE f.type = "InputMapping"
  <2> DEFINE b == [v EXCEPT !.buffered[w] = f.mapping]
  <2>1. b = [v EXCEPT !.buffered = [v.buffered EXCEPT ![w] = f.mapping]]
    BY DEF World
  <2>2. [v.buffered EXCEPT ![w] = f.mapping] \in [Windows -> Option(Mappings)]
    BY <1>8, FrameFields, WorldParts DEF Option
  <2>3. b \in World /\ b.mirrors = v.mirrors
    BY <2>1, <2>2, WorldParts DEF World
  <2>4. m # None => [m EXCEPT !.mapping = f.mapping] \in Mirror
    BY <1>2, <1>8, FrameFields, MirrorParts
  <2>5. Deliver(v, f) = UpdateMirror(b, w, [m EXCEPT !.mapping = f.mapping])
    BY <1>8 DEF Deliver
  <2> HIDE DEF b
  <2>6. MirrorAfter(m, f) = IF m = None THEN None ELSE [m EXCEPT !.mapping = f.mapping]
    BY <1>8 DEF MirrorAfter
  <2>7. QED
    BY <1>1, <2>3, <2>4, <2>5, <2>6, UpdateDelivered
<1>9. QED
  BY <1>3, <1>4, <1>5, <1>6, <1>7, <1>8 DEF HostFrames

LEMMA OpenDelivered ==
  ASSUME NEW v \in World, NEW f \in DownFrame, f.type = "WindowOpened"
  PROVE  /\ Deliver(v, f) \in World
         /\ v.mirrors[f.window] = None =>
              /\ Deliver(v, f).mirrors[f.window] # None
              /\ Deliver(v, f).mirrors[f.window].title = f.title
              /\ Deliver(v, f).mirrors[f.window].size = f.size
              /\ ~Deliver(v, f).mirrors[f.window].minimized
              /\ Deliver(v, f).mirrors[f.window].mapping = OrIdentity(v.buffered[f.window])
         /\ v.mirrors[f.window] # None => Deliver(v, f).mirrors = v.mirrors
         /\ Deliver(v, f).buffered = v.buffered
         /\ \A u \in Windows \ {f.window} : Deliver(v, f).mirrors[u] = v.mirrors[u]
<1> DEFINE w == f.window
           s == [v EXCEPT !.saw = TRUE]
           p == IF v.buffered[w] = None THEN Identity ELSE v.buffered[w]
           m == [title |-> f.title, size |-> f.size, minimized |-> FALSE, mapping |-> p]
<1>1. w \in Windows /\ f.title \in Titles /\ f.size \in Sizes
  BY FrameFields
<1>2. s \in World /\ s.mirrors = v.mirrors /\ s.buffered = v.buffered /\ s.early = v.early
  BY WorldParts DEF World
<1>3. m \in Mirror /\ m # None
  <2>1. p \in Mappings
    BY <1>1, WorldParts, DataAssumption DEF Option
  <2>2. m \in Mirror
    BY <1>1, <2>1 DEF Mirror
  <2>3. QED
    BY <2>2, TrackerAssumption
<1>4. Deliver(v, f) = CreateMirror(s, f)
  BY DEF Deliver
<1>5. CASE v.mirrors[w] # None
  BY <1>2, <1>4, <1>5 DEF CreateMirror
<1>6. CASE v.mirrors[w] = None
  <2>1. CreateMirror(s, f) = [[s EXCEPT !.mirrors = [s.mirrors EXCEPT ![w] = m]]
                                EXCEPT !.early = s.early \ {w}]
    BY <1>2, <1>6 DEF CreateMirror, World
  <2>2. [s.mirrors EXCEPT ![w] = m] \in [Windows -> Option(Mirror)]
    BY <1>2, <1>3, WorldParts DEF Option
  <2>3. s.early \ {w} \in SUBSET Windows
    BY <1>2, WorldParts
  <2> HIDE DEF s, m
  <2>4. /\ CreateMirror(s, f) \in World
        /\ CreateMirror(s, f).mirrors = [s.mirrors EXCEPT ![w] = m]
        /\ CreateMirror(s, f).buffered = s.buffered
    BY <1>2, <2>1, <2>2, <2>3 DEF World
  <2>5. /\ m.title = f.title /\ m.size = f.size /\ ~m.minimized
        /\ m.mapping = OrIdentity(v.buffered[w])
    BY DEF m, OrIdentity
  <2>6. v.mirrors \in [Windows -> Option(Mirror)]
    BY WorldParts
  <2>7. QED
    <3>1. Deliver(v, f).mirrors[w] = m
      BY <1>1, <1>2, <1>4, <2>4, <2>6
    <3>2. \A u \in Windows \ {w} : Deliver(v, f).mirrors[u] = v.mirrors[u]
      BY <1>2, <1>4, <2>4, <2>6
    <3>3. Deliver(v, f) \in World /\ Deliver(v, f).buffered = v.buffered
      BY <1>2, <1>4, <2>4
    <3>4. QED
      BY <1>3, <1>6, <2>5, <3>1, <3>2, <3>3
<1>7. QED
  BY <1>5, <1>6, <1>2, <1>4

LEMMA TellType ==
  ASSUME view \in World, NEW f \in DownFrame, f.type \in HostFrames \cup {"WindowOpened"}, Tell(f)
  PROVE  view' \in World
BY HostDelivered, OpenDelivered DEF Tell

----------------------------------------------------------------------------
(* The steps of the loop.                                                    *)
EventTypes == {"WindowClosed", "WindowOpened", "WindowMinimized", "WindowRestored",
               "WindowResized", "WindowTitleChanged"}

LEMMA HandledType ==
  ASSUME TypeOK, NEW e \in events, e.type \in EventTypes, Handled(e)
  PROVE  /\ e \in DownFrame /\ e.window \in Windows
         /\ events' \subseteq DownFrame /\ subject' \in Option(Windows)
         /\ host_windows' \in [Windows -> Stream!WindowStates]
<1>1. e \in DownFrame /\ e.window \in Windows
  BY FrameFields DEF TypeOK, EventTypes
<1>2. StatusAfter(e, host_windows[e.window]) \in Stream!WindowStates
  BY <1>1 DEF StatusAfter, TypeOK, Stream!WindowStates
<1>3. QED
  BY <1>1, <1>2 DEF Handled, TypeOK, Option

LEMMA CapturesType ==
  ASSUME TypeOK, NEW w \in Windows, NEW s \in {"none", "capturing", "paused"}, Captures(w, s)
  PROVE  /\ runtimes' \in [Windows -> {"none", "capturing", "paused"}]
         /\ MappingTypeOK'
BY DEF Captures, FreshSinks, TypeOK, MappingTypeOK, Option

(* The inputs beside the loop are untouched.                                 *)
LEMMA InputKept == TypeOK /\ UNCHANGED inputVars => InputTypeOK'
BY DEF TypeOK, InputTypeOK, inputVars, sinkVars, userVars

LEMMA MappingKept == TypeOK /\ UNCHANGED mappingVars => MappingTypeOK'
BY DEF TypeOK, MappingTypeOK, mappingVars

LEMMA SetUpType ==
  ASSUME TypeOK, Serve \/ Answer \/ OpenChannel \/ Watch \/ WatcherRuns \/ Settle
  PROVE  TypeOK'
<1>1. SetUp
  BY DEF Serve, Answer, OpenChannel, Watch, WatcherRuns, Settle
<1>2. InputTypeOK'
  <2>1. CASE UNCHANGED inputVars
    BY <2>1, InputKept
  <2>2. CASE StartWorker
    BY <2>2 DEF StartWorker, TypeOK, InputTypeOK, sinkVars, userVars
  <2>3. CASE StopWorker
    BY <2>3, StopWorkerType DEF TypeOK
  <2>4. QED
    BY <2>1, <2>2, <2>3 DEF Serve, Answer, OpenChannel, Watch, WatcherRuns, Settle
<1>3. MappingTypeOK'
  BY <1>1, MappingKept DEF SetUp
<1>4. pc' \in Stops /\ peer' \in BOOLEAN /\ watcher' \in {"none", "starting", "running"}
  BY DEF Serve, Answer, OpenChannel, Watch, WatcherRuns, Settle, TypeOK, Stops, setupVars
<1>5. QED
  BY <1>1, <1>2, <1>3, <1>4 DEF SetUp, TypeOK, toldVars

LEMMA ReconcileType ==
  ASSUME TypeOK, NEW snapshot \in [Windows -> Option(SnapshotWindow)], Reconcile(snapshot)
  PROVE  TypeOK'
<1> DEFINE ours == Ours(pids, snapshot)
<1>1. ours \in [Windows -> Option(SnapshotWindow)]
  BY OursType
<1>2. live' \in [Windows -> Option(Tracked)] /\ events' \subseteq DownFrame
  BY <1>1, DiffLiveType, DiffType DEF Reconcile, TypeOK
<1>3. MappingTypeOK' /\ InputTypeOK'
  BY MappingKept, InputKept DEF Reconcile, besideVars
<1>4. pc' \in Stops /\ tracks_changed' \in BOOLEAN
  BY DEF Reconcile, Stops
<1>5. QED
  BY <1>2, <1>3, <1>4 DEF Reconcile, TypeOK, besideVars, toldVars, setupVars

LEMMA UnsubscribeType ==
  ASSUME TypeOK, Unsubscribe
  PROVE  TypeOK'
<1>1. unsub' \in Seq(Apps) /\ pids' \subseteq Apps
  BY HeadTailProperties DEF Unsubscribe, TypeOK
<1>2. live' \in [Windows -> Option(Tracked)]
  BY DEF Unsubscribe, Without, TypeOK, Option
<1>3. closing' \subseteq Windows /\ tracks_changed' \in BOOLEAN /\ pc' \in Stops
  BY DEF Unsubscribe, WindowsOf, Present, TypeOK, Stops
<1>4. host_windows' \in [Windows -> Stream!WindowStates]
  BY DEF Unsubscribe, TypeOK, Stream!WindowStates
<1>5. MappingTypeOK' /\ InputTypeOK'
  BY MappingKept, InputKept DEF Unsubscribe
<1>6. QED
  BY <1>1, <1>2, <1>3, <1>4, <1>5 DEF Unsubscribe, TypeOK, setupVars

LEMMA EventType ==
  ASSUME TypeOK, NEW e \in events, EventStep(e)
  PROVE  TypeOK'
<1>1. CASE OpenTrack(e) \/ CloseRuntime(e)
  <2>1. e.window \in Windows
    BY <1>1, FrameFields DEF OpenTrack, CloseRuntime, NextIs, TypeOK
  <2>2. runtimes' \in [Windows -> {"none", "capturing", "paused"}] /\ MappingTypeOK'
    BY <1>1, <2>1, CapturesType, MappingKept DEF OpenTrack, CloseRuntime, besideVars, TypeOK
  <2>3. InputTypeOK'
    BY <1>1, InputKept DEF OpenTrack, CloseRuntime, besideVars
  <2>4. /\ tracks' \subseteq Windows /\ pli_pipelines' \subseteq Windows
        /\ subject' \in Option(Windows) /\ tracks_changed' \in BOOLEAN /\ pc' \in Stops
    BY <1>1, <2>1 DEF OpenTrack, CloseRuntime, TypeOK, Option, Stops
  <2>5. /\ UNCHANGED <<pids, live, announced, events, closing, unsub, disconnected, view,
                       host_windows, peer, watcher, seen>>
    BY <1>1 DEF OpenTrack, CloseRuntime, toldVars, setupVars, besideVars
  <2>6. QED
    BY <2>2, <2>3, <2>4, <2>5 DEF TypeOK
<1>2. CASE OpenFails(e) \/ AnnounceWindow(e) \/ Pause(e) \/ Restart(e) \/ Relabel(e)
             \/ RemoveTrack(e)
  <2>1. e.type \in EventTypes /\ Handled(e)
    BY <1>2 DEF OpenFails, AnnounceWindow, Pause, Restart, Relabel, RemoveTrack, Passed, NextIs,
                EventTypes
  <2>2. /\ e \in DownFrame /\ e.window \in Windows
        /\ events' \subseteq DownFrame /\ subject' \in Option(Windows)
        /\ host_windows' \in [Windows -> Stream!WindowStates]
    BY <2>1, HandledType
  <2>3. view' \in World
    <3>1. view' = view \/ Tell(e)
      BY <1>2 DEF OpenFails, AnnounceWindow, Pause, Restart, Relabel, RemoveTrack, Passed
    <3>2. e.type \in HostFrames \cup {"WindowOpened"}
      BY <2>1 DEF EventTypes, HostFrames
    <3>3. view \in World
      BY DEF TypeOK
    <3>4. QED
      BY <2>2, <3>1, <3>2, <3>3, TellType
  <2>4. runtimes' \in [Windows -> {"none", "capturing", "paused"}] /\ MappingTypeOK'
    <3>1. UNCHANGED <<runtimes, mappingVars>>
            \/ \E to \in {"none", "capturing", "paused"} : Captures(e.window, to)
      BY <1>2 DEF OpenFails, AnnounceWindow, Pause, Restart, Relabel, RemoveTrack, besideVars
    <3>2. CASE UNCHANGED <<runtimes, mappingVars>>
      BY <3>2, MappingKept DEF TypeOK
    <3>3. QED
      BY <2>2, <3>1, <3>2, CapturesType
  <2>5. InputTypeOK'
    BY <1>2, InputKept
       DEF OpenFails, AnnounceWindow, Pause, Restart, Relabel, RemoveTrack, Passed, besideVars
  <2>6. /\ UNCHANGED <<pids, live, pli_pipelines, announced, closing, unsub,
                       disconnected, peer, watcher, seen>>
        /\ tracks' \subseteq tracks /\ tracks_changed' \in BOOLEAN
    BY <1>2 DEF OpenFails, AnnounceWindow, Pause, Restart, Relabel, RemoveTrack, Passed,
                besideVars, setupVars, TypeOK
  <2>7. pc' \in Stops
    BY <1>2 DEF OpenFails, AnnounceWindow, Pause, Restart, Relabel, RemoveTrack, Passed, Stops,
                TypeOK
  <2>8. QED
    BY <2>2, <2>3, <2>4, <2>5, <2>6, <2>7 DEF TypeOK
<1>3. CASE AnnounceApp(e)
  <2>1. announced' \subseteq Apps
    BY <1>3, FrameFields, DataAssumption DEF AnnounceApp, TypeOK
  <2>2. MappingTypeOK' /\ InputTypeOK'
    BY <1>3, MappingKept, InputKept DEF AnnounceApp, besideVars
  <2>3. QED
    BY <1>3, <2>1, <2>2 DEF AnnounceApp, TypeOK, Stops, besideVars, toldVars, setupVars
<1>4. QED
  BY <1>1, <1>2, <1>3 DEF EventStep

(* The steps that handle no event.                                           *)
LEMMA OtherLoopType ==
  ASSUME TypeOK,
         \/ Check \/ Finish \/ Renegotiated \/ Teardown \/ StopWatcher \/ Close
         \/ \E w \in Windows : Unroute(w) \/ CloseUnsubscribed(w)
  PROVE  TypeOK'
<1>1. /\ UNCHANGED <<pids, live, announced, events, subject, unsub, disconnected, view, host_windows, seen>>
      /\ pc' \in Stops
      /\ peer' \in BOOLEAN /\ watcher' \in {"none", "starting", "running"}
      /\ tracks_changed' \in BOOLEAN
      /\ tracks' \subseteq tracks /\ pli_pipelines' \subseteq pli_pipelines
      /\ closing' \subseteq closing
  BY DEF Check, Finish, Renegotiated, Teardown, StopWatcher, Close,
     Unroute, CloseUnsubscribed, Refresh, TypeOK, Stops, setupVars, toldVars, besideVars
<1>2. InputTypeOK'
  BY InputKept, RefreshType, StopWorkerType
     DEF Check, Finish, Renegotiated, Teardown, StopWatcher, Close,
         Unroute, CloseUnsubscribed, TypeOK, besideVars
<1>3. runtimes' \in [Windows -> {"none", "capturing", "paused"}] /\ MappingTypeOK'
  <2>1. CASE UNCHANGED <<runtimes, mappingVars>>
    BY <2>1, MappingKept DEF TypeOK
  <2>2. CASE Teardown
    BY <2>2 DEF Teardown, FreshSinks, TypeOK, MappingTypeOK, Option
  <2>3. CASE \E w \in Windows : CloseUnsubscribed(w)
    BY <2>3, CapturesType DEF CloseUnsubscribed
  <2>4. QED
    BY <2>1, <2>2, <2>3
       DEF Check, Finish, Renegotiated, StopWatcher, Close, Unroute, besideVars
<1>4. QED
  BY <1>1, <1>2, <1>3 DEF TypeOK

(* The tasks beside the loop.                                                *)
LEMMA BesideType ==
  ASSUME TypeOK,
         Frames \/ Forwarder \/ Worker \/ UserActs \/ ClientUnsubscribes \/ PeerDisconnects
  PROVE  TypeOK'
<1>1. /\ UNCHANGED <<pc, pids, live, runtimes, tracks, pli_pipelines, announced, events, subject,
                     closing, tracks_changed, peer, watcher, host_windows, seen>>
      /\ disconnected' \in BOOLEAN
  BY DEF Frames, Forwarder, Worker, UserActs, ClientUnsubscribes, PeerDisconnects, Aside,
     loopVars, setupVars, toldVars, TypeOK
<1>2. MappingTypeOK'
  <2>1. CASE UNCHANGED mappingVars
    BY <2>1, MappingKept
  <2>2. ASSUME NEW w \in Windows, NEW m \in Mappings, FrameArrives(w, m)
        PROVE  MappingTypeOK'
    <3>1. [window |-> w, mapping |-> m] \in [window: Windows, mapping: Mappings]
      OBVIOUS
    <3>2. meta' \in Seq([window: Windows, mapping: Mappings])
      BY <2>2, <3>1, AppendProperties DEF FrameArrives, TypeOK, MappingTypeOK
    <3>3. QED
      BY <2>2, <3>2 DEF FrameArrives, TypeOK, MappingTypeOK, Option
  <2>3. CASE ForwardMeta(live)
    <3>1. /\ Head(meta) \in [window: Windows, mapping: Mappings]
          /\ Tail(meta) \in Seq([window: Windows, mapping: Mappings])
      <4>1. meta \in Seq([window: Windows, mapping: Mappings]) /\ meta # <<>>
        BY <2>3 DEF ForwardMeta, TypeOK, MappingTypeOK
      <4>2. QED
        BY <4>1, HeadTailProperties
    <3>2. InputMapping(Head(meta).window, Head(meta).mapping)
            \in {InputMapping(w, m) : w \in Windows, m \in Mappings}
      BY <3>1
    <3>3. last_sent' \in [Windows -> Option(Mappings)]
      <4>1. last_sent \in [Windows -> Option(Mappings)]
        BY DEF TypeOK, MappingTypeOK
      <4>2. Head(meta).window \in Windows /\ Head(meta).mapping \in Mappings
        BY <3>1
      <4>3. \/ last_sent' = last_sent
            \/ last_sent' = [last_sent EXCEPT ![Head(meta).window] = None]
            \/ last_sent' = [last_sent EXCEPT ![Head(meta).window] = Head(meta).mapping]
        BY <2>3 DEF ForwardMeta
      <4>4. QED
        BY <4>1, <4>2, <4>3 DEF Option
    <3>4. sending' = sending \/ sending' = InputMapping(Head(meta).window, Head(meta).mapping)
      BY <2>3 DEF ForwardMeta
    <3>5. sending' \in Option({InputMapping(w, m) : w \in Windows, m \in Mappings})
      BY <3>2, <3>4 DEF TypeOK, MappingTypeOK, Option
    <3>6. last_meta' \in [Windows -> Option(Mappings)]
      BY <2>3 DEF ForwardMeta, TypeOK, MappingTypeOK
    <3>7. meta' \in Seq([window: Windows, mapping: Mappings])
      BY <2>3, <3>1 DEF ForwardMeta
    <3>8. QED
      BY <3>3, <3>5, <3>6, <3>7 DEF MappingTypeOK
  <2>4. CASE MappingSent
    BY <2>4 DEF MappingSent, TypeOK, MappingTypeOK, Option
  <2>5. QED
    BY <2>1, <2>2, <2>3, <2>4
       DEF Frames, Forwarder, Worker, UserActs, ClientUnsubscribes, PeerDisconnects, besideVars
<1>3. InputTypeOK'
  BY InputKept, WorkType, UserActsType
     DEF Frames, Forwarder, Worker, ClientUnsubscribes, PeerDisconnects
<1>4. unsub' \in Seq(Apps)
  <2>1. CASE ClientUnsubscribes
    BY <2>1, AppendProperties DEF ClientUnsubscribes, TypeOK
  <2>2. QED
    BY <2>1 DEF Frames, Forwarder, Worker, UserActs, PeerDisconnects, TypeOK
<1>5. view' \in World
  <2>1. CASE MappingSent /\ Tell(sending)
    <3>1. sending \in DownFrame /\ sending.type \in HostFrames
      BY <2>1 DEF MappingSent, TypeOK, MappingTypeOK, Option, DownFrame, InputMapping, HostFrames
    <3>2. QED
      BY <2>1, <3>1, TellType DEF TypeOK
  <2>2. QED
    BY <2>1 DEF Frames, Forwarder, Worker, UserActs, ClientUnsubscribes, PeerDisconnects, TypeOK,
       toldVars
<1>6. QED
  BY <1>1, <1>2, <1>3, <1>4, <1>5 DEF TypeOK

LEMMA HostTypeStep == TypeOK /\ [Next]_vars => TypeOK'
<1>1. SUFFICES ASSUME TypeOK, [Next]_vars PROVE TypeOK'
  OBVIOUS
<1>2. CASE UNCHANGED vars
  BY <1>1, <1>2, InputKept, MappingKept
     DEF vars, loopVars, setupVars, besideVars, toldVars, TypeOK
<1>3. CASE LoopStep
  BY <1>1, <1>3, SetUpType, EventType, OtherLoopType DEF LoopStep
<1>4. CASE Poll
  BY <1>1, <1>4, ReconcileType DEF Poll
<1>5. QED
  BY <1>1, <1>2, <1>3, <1>4, SetUpType, UnsubscribeType, BesideType DEF Next

LEMMA HostTypeInit == Init => TypeOK
<1>1. SUFFICES ASSUME Init PROVE TypeOK
  OBVIOUS
<1>2. EmptyWorld \in World
  BY DEF EmptyWorld, World, Option
<1>3. MappingTypeOK
  BY <1>1, EmptySeq DEF Init, MappingInit, MappingTypeOK, Option
<1>4. InputTypeOK
  BY <1>1, EmptySeq DEF Init, InputInit, InputTypeOK, Option
<1>5. QED
  BY <1>1, <1>2, <1>3, <1>4, EmptySeq DEF Init, TypeOK, Option, Stops, Stream!WindowStates

(* Every variable of the host session keeps its type.                        *)
THEOREM HostTypeCorrect == Spec => []TypeOK
BY HostTypeInit, HostTypeStep, PTL DEF Spec

----------------------------------------------------------------------------
(* The events that are due, as they are handled.                             *)
LEMMA EventsUnique ==
  ASSUME TypeOK, EventsInv, NEW e \in events, NEW f \in events,
         e.window = f.window, e.type = f.type
  PROVE  e = f
<1>1. EventFits(e) /\ EventFits(f) /\ e \in DownFrame /\ f \in DownFrame
  BY DEF EventsInv, TypeOK
<1>2. e.type \in EventTypes
  BY <1>1 DEF EventFits, EventTypes
<1>3. CASE e.type = "WindowOpened"
  BY <1>1, <1>3, FrameFields DEF EventFits
<1>4. CASE e.type = "WindowResized"
  BY <1>1, <1>4, FrameFields DEF EventFits
<1>5. CASE e.type = "WindowTitleChanged"
  BY <1>1, <1>5, FrameFields DEF EventFits
<1>6. QED
  BY <1>1, <1>2, <1>3, <1>4, <1>5, FrameFields DEF EventTypes

LEMMA HandledDue ==
  ASSUME TypeOK, EventsInv, NEW e \in events, Handled(e)
  PROVE  /\ e.window \in Windows /\ e.type \in EventTypes
         /\ \A w, type : Due(w, type)' <=> Due(w, type) /\ ~(w = e.window /\ type = e.type)
         /\ \A w \in Windows :
              host_windows'[w] = IF w = e.window THEN StatusAfter(e, host_windows[w])
                                                 ELSE host_windows[w]
<1>1. EventFits(e)
  BY DEF EventsInv
<1>2. e.window \in Windows /\ e.type \in EventTypes
  BY <1>1 DEF EventFits, EventTypes
<1>3. events' = events \ {e}
  BY DEF Handled
<1>4. \A w, type : Due(w, type)' <=> Due(w, type) /\ ~(w = e.window /\ type = e.type)
  BY <1>3, EventsUnique DEF Due
<1>5. QED
  BY <1>2, <1>4 DEF Handled, TypeOK

(* Handling an event keeps the rest of the pass right: none of its window    *)
(* that the diff pushed earlier is left.                                     *)
LEMMA HandledFits ==
  ASSUME TypeOK, EventsInv, NEW e \in events, Handled(e), UNCHANGED <<live, pids>>,
         \A f \in events : f.window = e.window => PushPlace(e) <= PushPlace(f)
  PROVE  EventsInv'
<1>1. EventFits(e) /\ e.window \in Windows /\ e.type \in EventTypes
  BY HandledDue DEF EventsInv
<1>2. \A w, type : Due(w, type)' <=> Due(w, type) /\ ~(w = e.window /\ type = e.type)
  BY HandledDue
<1>3. \A w \in Windows :
        host_windows'[w] = IF w = e.window THEN StatusAfter(e, host_windows[w])
                                           ELSE host_windows[w]
  BY HandledDue
<1>4. e.type \in {"WindowMinimized", "WindowRestored"} => ~Due(e.window, "WindowOpened")
  BY DEF Due, PushPlace
<1>5. ASSUME NEW f \in events', f.window # e.window
      PROVE  EventFits(f)'
  <2>1. f \in events /\ EventFits(f) /\ f.window \in Windows
    BY <1>5 DEF Handled, EventsInv, EventFits
  <2>2. /\ host_windows'[f.window] = host_windows[f.window]
        /\ Due(f.window, "WindowOpened")' <=> Due(f.window, "WindowOpened")
    BY <1>2, <1>3, <1>5, <2>1
  <2>3. QED
    BY <2>1, <2>2 DEF EventFits
<1>6. ASSUME NEW f \in events', f.window = e.window
      PROVE  EventFits(f)'
  <2>1. f \in events /\ f # e /\ EventFits(f) /\ f.type # e.type
    BY <1>6, EventsUnique DEF Handled, EventsInv
  <2>2. host_windows'[f.window] = StatusAfter(e, host_windows[f.window])
    BY <1>1, <1>3, <1>6
  <2>3. CASE e.type = "WindowClosed"
    BY <1>1, <1>6, <2>1, <2>3 DEF EventFits
  <2>4. CASE e.type = "WindowOpened"
    <3>1. f.type = "WindowMinimized" /\ host_windows'[f.window] = "normal"
      BY <1>1, <1>6, <2>1, <2>2, <2>4 DEF EventFits, StatusAfter
    <3>2. QED
      BY <2>1, <3>1 DEF EventFits
  <2>5. CASE e.type = "WindowMinimized"
    <3>1. f.type = "WindowTitleChanged" /\ host_windows'[f.window] = "minimized"
      <4>1. f.type # "WindowOpened"
        BY <1>4, <1>6, <2>1, <2>5 DEF Due
      <4>2. QED
        BY <1>1, <1>6, <2>1, <2>2, <2>5, <4>1 DEF EventFits, StatusAfter
    <3>2. QED
      BY <2>1, <3>1 DEF EventFits
  <2>6. CASE e.type = "WindowRestored"
    <3>1. f.type \in {"WindowResized", "WindowTitleChanged"} /\ host_windows'[f.window] = "normal"
      BY <1>1, <1>6, <2>1, <2>2, <2>6 DEF EventFits, StatusAfter
    <3>2. QED
      BY <2>1, <3>1 DEF EventFits
  <2>7. CASE e.type \in {"WindowResized", "WindowTitleChanged"}
    <3>1. /\ host_windows'[f.window] = host_windows[f.window]
          /\ Due(f.window, "WindowOpened")' <=> Due(f.window, "WindowOpened")
      BY <1>2, <2>2, <2>7 DEF StatusAfter
    <3>2. QED
      BY <2>1, <3>1 DEF EventFits
  <2>8. QED
    BY <1>1, <2>3, <2>4, <2>5, <2>6, <2>7 DEF EventTypes
<1>7. ASSUME NEW w \in Windows, w # e.window
      PROVE  ToldOrDue(w)'
  <2>1. ToldOrDue(w) /\ host_windows'[w] = host_windows[w]
    BY <1>3, <1>7 DEF EventsInv
  <2>2. \A type : Due(w, type)' <=> Due(w, type)
    BY <1>2, <1>7
  <2>3. QED
    BY <2>1, <2>2 DEF ToldOrDue
<1>8. ASSUME NEW w \in Windows, w = e.window
      PROVE  ToldOrDue(w)'
  <2>1. ToldOrDue(w) /\ host_windows'[w] = StatusAfter(e, host_windows[w])
    BY <1>3, <1>8 DEF EventsInv
  <2>2. \A type : Due(w, type)' <=> Due(w, type) /\ type # e.type
    BY <1>2, <1>8
  <2>3. CASE e.type = "WindowClosed"
    BY <1>1, <1>8, <2>1, <2>2, <2>3 DEF ToldOrDue, EventFits, StatusAfter
  <2>4. CASE e.type = "WindowOpened"
    BY <1>1, <1>8, <2>1, <2>2, <2>4 DEF ToldOrDue, EventFits, StatusAfter
  <2>5. CASE e.type = "WindowMinimized"
    BY <1>1, <1>8, <2>1, <2>2, <2>5 DEF ToldOrDue, EventFits, StatusAfter
  <2>6. CASE e.type = "WindowRestored"
    BY <1>1, <1>8, <2>1, <2>2, <2>6 DEF ToldOrDue, EventFits, StatusAfter
  <2>7. CASE e.type \in {"WindowResized", "WindowTitleChanged"}
    BY <1>1, <1>8, <2>1, <2>2, <2>7 DEF ToldOrDue, EventFits, StatusAfter
  <2>8. QED
    BY <1>1, <2>3, <2>4, <2>5, <2>6, <2>7 DEF EventTypes
<1>9. QED
  BY <1>5, <1>6, <1>7, <1>8 DEF EventsInv

----------------------------------------------------------------------------
(* The invariant, step by step.  What is said of a window holds as long as   *)
(* nothing of that window changes.                                           *)
LoopSame(u) ==
  /\ runtimes'[u] = runtimes[u] /\ live'[u] = live[u] /\ host_windows'[u] = host_windows[u]
  /\ u \in tracks' <=> u \in tracks
  /\ u \in pli_pipelines' <=> u \in pli_pipelines
  /\ u \in closing' <=> u \in closing
  /\ \A type : Due(u, type)' <=> Due(u, type)
  /\ Opening(u)' <=> Opening(u)
  /\ Closing(u)' <=> Closing(u)

MirrorSame(u) ==
  /\ view'.mirrors[u] = None <=> view.mirrors[u] = None
  /\ view.mirrors[u] # None =>
       /\ view'.mirrors[u].title = view.mirrors[u].title
       /\ view'.mirrors[u].size = view.mirrors[u].size
       /\ view'.mirrors[u].minimized = view.mirrors[u].minimized

LEMMA RuntimeKept ==
  ASSUME NEW u \in Windows, RuntimeFits(u), LoopSame(u), UNCHANGED pids
  PROVE  RuntimeFits(u)'
BY DEF RuntimeFits, LoopSame, Mirrored

LEMMA MirrorKept ==
  ASSUME NEW u \in Windows, MirrorFits(u), LoopSame(u), MirrorSame(u)
  PROVE  MirrorFits(u)'
BY DEF MirrorFits, LoopSame, MirrorSame, Mirrored

sameVars == <<pids, live, runtimes, tracks, pli_pipelines, announced, events, subject, closing,
              host_windows>>

(* The loop moves on, or something goes on beside it.                        *)
LEMMA QuietStep ==
  ASSUME HostInv, UNCHANGED sameVars,
         \/ UNCHANGED pc
         \/ /\ pc \notin Ended \cup {"announce", "open", "untrack"}
            /\ events = {} /\ closing = {}
            /\ pc' \notin InPass \cup {"closing"},
         disconnected => disconnected',
         ~disconnected' => \A u \in Windows : MirrorSame(u)
  PROVE  HostInv'
<1>1. ASSUME NEW u \in Windows PROVE LoopSame(u)
  BY DEF LoopSame, sameVars, Due, Opening, Closing, InPass
<1>2. Phases'
  BY DEF HostInv, Phases, sameVars, InPass
<1>3. EventsInv'
  BY DEF HostInv, EventsInv, EventFits, ToldOrDue, Due, sameVars
<1>4. pc' \notin Ended => pc \notin Ended
  OBVIOUS
<1>5. UNCHANGED pids
  BY DEF sameVars
<1>6. RuntimesInv'
  BY <1>1, <1>4, <1>5, RuntimeKept DEF HostInv, RuntimesInv
<1>7. MirrorsInv'
  BY <1>1, <1>4, <1>5, MirrorKept DEF HostInv, MirrorsInv
<1>8. QED
  BY <1>2, <1>3, <1>6, <1>7 DEF HostInv

(* After the loop nothing is asked of tracks and captures any more.          *)
LEMMA EndedStep ==
  ASSUME HostInv, UNCHANGED <<pids, live, announced, events, subject, closing, host_windows>>,
         pc \notin InPass \cup {"closing"}, pc' \in Ended
  PROVE  HostInv'
<1>1. Phases'
  BY DEF HostInv, Phases, InPass, Ended
<1>2. EventsInv'
  BY DEF HostInv, EventsInv, EventFits, ToldOrDue, Due
<1>3. QED
  BY <1>1, <1>2 DEF HostInv, RuntimesInv, MirrorsInv

(* A poll: between two passes the tracker and the client agree, and the diff *)
(* says just what has changed since.                                         *)
LEMMA ReconcileEvents ==
  ASSUME TypeOK, HostInv, NEW snapshot \in [Windows -> Option(SnapshotWindow)],
         Reconcile(snapshot)
  PROVE  EventsInv'
<1> DEFINE ours == Ours(pids, snapshot)
<1>1. /\ events = {} /\ pids' = pids /\ host_windows' = host_windows
      /\ events' = DiffEvents(live, ours) /\ live' = DiffLive(live, ours)
  BY DEF HostInv, Phases, InPass, Reconcile, toldVars
<1>2. ours \in [Windows -> Option(SnapshotWindow)] /\ live' \in [Windows -> Option(Tracked)]
  BY <1>1, OursType, DiffLiveType DEF TypeOK
<1> HIDE DEF ours
<1>3. ASSUME NEW w \in Windows
      PROVE  /\ ToldOrDue(w) /\ \A type : ~Due(w, type)
             /\ live[w] \in Option(Tracked) /\ ours[w] \in Option(SnapshotWindow)
             /\ host_windows[w] \in {"absent", "normal", "minimized"}
             /\ ours[w] # None => Owner[w] \in pids
             /\ live[w] # None => Owner[w] \in pids
  BY <1>1, <1>2, OursType DEF HostInv, EventsInv, ToldOrDue, Due, TypeOK, Stream!WindowStates, ours
<1>4. ASSUME NEW w \in Windows
      PROVE  /\ live'[w] = None <=> ours[w] = None
             /\ ours[w] # None =>
                  /\ live'[w].title = ours[w].title /\ live'[w].size = ours[w].size
                  /\ live'[w].minimized = ours[w].minimized
                  /\ live'[w].last = IF ours[w].minimized /\ live[w] # None
                                     THEN live[w].last ELSE ours[w].size
  <2>1. ours[w] # None => Opened(ours[w]) # None
    BY <1>3, TrackerAssumption DEF Option, Opened, SnapshotWindow, Tracked
  <2>2. ours[w] # None /\ live[w] # None => Updated(live[w], ours[w]) # None
    BY <1>3, TrackerAssumption DEF Option, Updated, SnapshotWindow, Tracked
  <2>3. QED
    BY <1>1, <2>1, <2>2 DEF DiffLive, Opened, Updated
<1>5. ASSUME NEW e \in events'
      PROVE  EventFits(e)'
  <2>1. PICK w \in Windows :
           LET t == live[w]
               s == ours[w]
           IN  \/ /\ e = WindowClosed(w) /\ t # None /\ s = None
               \/ /\ t = None /\ s # None
                  /\ e = WindowOpened(w, s.title, s.size) \/ (s.minimized /\ e = WindowMinimized(w))
               \/ /\ t # None /\ s # None
                  /\ \/ s.minimized /\ ~t.minimized /\ e = WindowMinimized(w)
                     \/ t.minimized /\ ~s.minimized /\ e = WindowRestored(w)
                     \/ SizeChanged(t, s) /\ e = WindowResized(w, s.size)
                     \/ s.title # t.title /\ e = WindowTitleChanged(w, s.title)
    BY <1>1, DiffEvent
  <2>2. CASE e = WindowClosed(w) /\ live[w] # None /\ ours[w] = None
    <3>1. host_windows[w] # "absent"
      BY <1>3, <2>2 DEF ToldOrDue
    <3>2. QED
      BY <1>1, <1>3, <1>4, <2>2, <3>1, FieldsOfEvents DEF EventFits
  <2>3. CASE live[w] = None /\ ours[w] # None /\ e = WindowOpened(w, ours[w].title, ours[w].size)
    <3>1. host_windows[w] = "absent"
      BY <1>3, <2>3 DEF ToldOrDue
    <3>2. QED
      BY <1>1, <1>3, <1>4, <2>3, <3>1, FieldsOfEvents DEF EventFits
  <2>4. CASE live[w] = None /\ ours[w] # None /\ ours[w].minimized /\ e = WindowMinimized(w)
    <3>1. WindowOpened(w, ours[w].title, ours[w].size) \in events'
      BY <1>1, <2>4, DiffComplete
    <3>2. Due(w, "WindowOpened")'
      BY <3>1, FieldsOfEvents DEF Due
    <3>3. e.window = w /\ e.type = "WindowMinimized" /\ live'[w] # None /\ live'[w].minimized
      BY <1>4, <2>4, FieldsOfEvents
    <3>4. QED
      BY <1>1, <1>3, <2>4, <3>2, <3>3 DEF EventFits
  <2>5. CASE live[w] # None /\ ours[w] # None
    <3>1. live'[w] # None /\ host_windows[w] # "absent"
      BY <1>3, <1>4, <2>5 DEF ToldOrDue
    <3>2. CASE ours[w].minimized /\ ~live[w].minimized /\ e = WindowMinimized(w)
      <4>1. host_windows[w] = "normal"
        BY <1>3, <2>5, <3>1, <3>2 DEF ToldOrDue
      <4>2. QED
        BY <1>1, <1>3, <1>4, <2>5, <3>1, <3>2, <4>1, FieldsOfEvents DEF EventFits
    <3>3. CASE live[w].minimized /\ ~ours[w].minimized /\ e = WindowRestored(w)
      <4>1. host_windows[w] = "minimized"
        BY <1>3, <2>5, <3>3 DEF ToldOrDue
      <4>2. QED
        BY <1>1, <1>3, <1>4, <2>5, <3>1, <3>3, <4>1, FieldsOfEvents DEF EventFits
    <3>4. CASE SizeChanged(live[w], ours[w]) /\ e = WindowResized(w, ours[w].size)
      <4>1. ~ours[w].minimized
        BY <3>4 DEF SizeChanged
      <4>2. e.window = w /\ e.type = "WindowResized" /\ e.size = ours[w].size
        BY <3>4, FieldsOfEvents
      <4>3. Owner[w] \in pids /\ live'[w].size = ours[w].size /\ ~live'[w].minimized
        BY <1>3, <1>4, <2>5, <4>1
      <4>4. QED
        BY <1>1, <3>1, <4>2, <4>3 DEF EventFits
    <3>5. CASE e = WindowTitleChanged(w, ours[w].title)
      BY <1>1, <1>3, <1>4, <2>5, <3>1, <3>5, FieldsOfEvents DEF EventFits
    <3>6. QED
      BY <2>1, <2>5, <3>2, <3>3, <3>4, <3>5
  <2>6. QED
    BY <2>1, <2>2, <2>3, <2>4, <2>5
<1>6. ASSUME NEW w \in Windows
      PROVE  ToldOrDue(w)'
  <2>1. /\ live[w] # None /\ ours[w] = None => Due(w, "WindowClosed")'
        /\ live[w] = None /\ ours[w] # None => Due(w, "WindowOpened")'
        /\ ours[w] # None /\ ours[w].minimized /\ (live[w] = None \/ ~live[w].minimized) =>
             Due(w, "WindowMinimized")'
        /\ ours[w] # None /\ ~ours[w].minimized /\ live[w] # None /\ live[w].minimized =>
             Due(w, "WindowRestored")'
    BY <1>1, DiffComplete, FieldsOfEvents DEF Due
  <2>2. QED
    BY <1>1, <1>3, <1>4, <2>1 DEF ToldOrDue
<1>7. QED
  BY <1>5, <1>6 DEF EventsInv

LEMMA ReconcileStep ==
  ASSUME TypeOK, HostInv, NEW snapshot \in [Windows -> Option(SnapshotWindow)],
         Reconcile(snapshot)
  PROVE  HostInv'
<1> DEFINE ours == Ours(pids, snapshot)
<1>1. /\ pc = "select" /\ events = {} /\ closing = {} /\ subject = None
      /\ pc' = (IF events' = {} THEN "check" ELSE "pass")
      /\ events' = DiffEvents(live, ours) /\ live' = DiffLive(live, ours)
      /\ UNCHANGED <<pids, runtimes, tracks, pli_pipelines, announced, subject, closing,
                     disconnected, view, host_windows>>
  BY DEF HostInv, Phases, InPass, Reconcile, toldVars, besideVars
<1>2. EventsInv'
  BY ReconcileEvents
<1>3. Phases'
  BY <1>1 DEF Phases, InPass
<1>4. ASSUME NEW w \in Windows
      PROVE  /\ RuntimeFits(w) /\ ToldOrDue(w) /\ \A type : ~Due(w, type)
             /\ ~Opening(w) /\ ~Closing(w) /\ ~Opening(w)' /\ ~Closing(w)'
             /\ live[w] # None /\ live'[w] = None => Due(w, "WindowClosed")'
             /\ Due(w, "WindowOpened")' => live[w] = None
  <2>1. RuntimeFits(w) /\ ToldOrDue(w) /\ \A type : ~Due(w, type)
    BY <1>1 DEF HostInv, RuntimesInv, EventsInv, Due, Ended
  <2>2. ~Opening(w) /\ ~Closing(w) /\ ~Opening(w)' /\ ~Closing(w)'
    BY <1>1 DEF Opening, Closing
  <2>3. live[w] # None /\ live'[w] = None => Due(w, "WindowClosed")'
    BY <1>1, <1>2, <2>1 DEF EventsInv, ToldOrDue
  <2>4. Due(w, "WindowOpened")' => live[w] = None
    BY <1>1, <1>2, <2>1 DEF EventsInv, EventFits, Due, ToldOrDue
  <2>5. QED
    BY <2>1, <2>2, <2>3, <2>4
<1>5. RuntimesInv'
  <2>1. ASSUME NEW w \in Windows PROVE RuntimeFits(w)'
    BY <1>1, <1>4 DEF RuntimeFits, Mirrored
  <2>2. QED
    BY <2>1 DEF RuntimesInv
<1>6. MirrorsInv'
  <2>1. SUFFICES ASSUME NEW w \in Windows, Owner[w] \in pids, ~disconnected
                 PROVE  MirrorFits(w)'
    BY <1>1 DEF MirrorsInv
  <2>2. MirrorFits(w) /\ (Mirrored(w) => live[w] # None)
    BY <1>1, <1>4, <2>1 DEF HostInv, MirrorsInv, Ended, RuntimeFits
  <2>3. ASSUME live[w] # None, live'[w] # None
        PROVE  /\ ~Due(w, "WindowTitleChanged")' => live'[w].title = live[w].title
               /\ ~Due(w, "WindowResized")' => live'[w].last = live[w].last
    <3>1. ours[w] # None
      BY <1>1, <2>3 DEF DiffLive
    <3>2. live'[w] = Updated(live[w], ours[w])
      BY <1>1, <2>3, <3>1 DEF DiffLive
    <3>3. /\ SizeChanged(live[w], ours[w]) => Due(w, "WindowResized")'
          /\ ours[w].title # live[w].title => Due(w, "WindowTitleChanged")'
      <4>1. /\ SizeChanged(live[w], ours[w]) => WindowResized(w, ours[w].size) \in events'
            /\ ours[w].title # live[w].title => WindowTitleChanged(w, ours[w].title) \in events'
        BY <1>1, <2>3, <3>1, DiffComplete
      <4>2. QED
        BY <4>1, FieldsOfEvents DEF Due
    <3>4. ~live[w].minimized => live[w].last = live[w].size
      BY <1>4, <2>3 DEF ToldOrDue
    <3>5. QED
      BY <3>2, <3>3, <3>4 DEF Updated, SizeChanged
  <2>4. QED
    BY <1>1, <1>4, <2>2, <2>3 DEF MirrorFits, Mirrored
<1>7. QED
  BY <1>2, <1>3, <1>5, <1>6 DEF HostInv

(* An unsubscription, and the windows it takes down.                         *)
LEMMA UnsubscribeStep ==
  ASSUME TypeOK, HostInv, Unsubscribe
  PROVE  HostInv'
<1> DEFINE a == Head(unsub)
           gone == WindowsOf(live, a)
<1>1. /\ pc = "select" /\ pc' = "closing" /\ events = {} /\ closing = {} /\ subject = None
      /\ pids' = pids \ {a}
      /\ closing' = {w \in gone : runtimes[w] # "none"}
      /\ UNCHANGED <<runtimes, tracks, pli_pipelines, announced, events, subject, disconnected,
                     view>>
  BY DEF HostInv, Phases, InPass, Unsubscribe
<1>2. ASSUME NEW w \in Windows
      PROVE  /\ w \in gone <=> live[w] # None /\ Owner[w] = a
             /\ live'[w] = IF w \in gone THEN None ELSE live[w]
             /\ host_windows'[w] = IF w \in gone THEN "absent" ELSE host_windows[w]
             /\ RuntimeFits(w) /\ ToldOrDue(w) /\ \A type : ~Due(w, type) /\ ~Due(w, type)'
             /\ ~Opening(w) /\ ~Closing(w) /\ ~Opening(w)' /\ ~Closing(w)'
  <2>1. RuntimeFits(w) /\ ToldOrDue(w)
    BY <1>1 DEF HostInv, RuntimesInv, EventsInv, Ended
  <2>2. \A type : ~Due(w, type) /\ ~Due(w, type)'
    BY <1>1 DEF Due
  <2>3. ~Opening(w) /\ ~Closing(w) /\ ~Opening(w)' /\ ~Closing(w)'
    BY <1>1 DEF Opening, Closing
  <2>4. QED
    BY <2>1, <2>2, <2>3 DEF Unsubscribe, WindowsOf, Present, Without, TypeOK
<1> HIDE DEF a, gone
<1>3. Phases'
  BY <1>1 DEF HostInv, Phases, InPass
<1>4. EventsInv'
  BY <1>1, <1>2 DEF EventsInv, ToldOrDue
<1>5. RuntimesInv'
  <2>1. ASSUME NEW w \in Windows PROVE RuntimeFits(w)'
    BY <1>1, <1>2 DEF RuntimeFits, Mirrored
  <2>2. QED
    BY <2>1 DEF RuntimesInv
<1>6. MirrorsInv'
  <2>1. ASSUME NEW w \in Windows, Owner[w] \in pids', ~disconnected' PROVE MirrorFits(w)'
    <3>1. MirrorFits(w) /\ w \notin gone
      BY <1>1, <1>2, <2>1 DEF HostInv, MirrorsInv, Ended
    <3>2. QED
      BY <1>1, <1>2, <3>1 DEF MirrorFits, Mirrored
  <2>2. QED
    BY <2>1 DEF MirrorsInv
<1>7. QED
  BY <1>3, <1>4, <1>5, <1>6 DEF HostInv

LEMMA UnrouteStep ==
  ASSUME TypeOK, HostInv, NEW w \in Windows, Unroute(w)
  PROVE  HostInv'
<1>1. /\ pc = "closing" /\ w \in closing /\ events = {}
      /\ pli_pipelines' = pli_pipelines \ {w}
      /\ UNCHANGED <<pc, pids, live, runtimes, tracks, announced, events, subject, closing,
                     disconnected, view, host_windows>>
  BY DEF HostInv, Phases, InPass, Unroute, besideVars, toldVars
<1>2. RuntimeFits(w) /\ Owner[w] \notin pids
  BY <1>1 DEF HostInv, RuntimesInv, Ended, RuntimeFits
<1>3. ASSUME NEW u \in Windows PROVE MirrorSame(u)
  BY <1>1, <1>3 DEF MirrorSame, Due, Opening, Closing
<1>4. ASSUME NEW u \in Windows, u # w PROVE LoopSame(u)
  BY <1>1, <1>4 DEF LoopSame, Due, Opening, Closing
<1>5. Phases' /\ EventsInv'
  BY <1>1 DEF HostInv, Phases, InPass, EventsInv, EventFits, ToldOrDue, Due
<1>6. RuntimeFits(w)'
  BY <1>1, <1>2 DEF RuntimeFits, Mirrored, Opening, Closing, Due
<1>7. UNCHANGED pids /\ pc \notin Ended
  BY <1>1 DEF Ended
<1>8. RuntimesInv'
  BY <1>4, <1>6, <1>7, RuntimeKept DEF HostInv, RuntimesInv
<1>9. MirrorsInv'
  BY <1>1, <1>2, <1>3, <1>4, <1>7, MirrorKept DEF HostInv, MirrorsInv
<1>10. QED
  BY <1>5, <1>8, <1>9 DEF HostInv

LEMMA CloseUnsubscribedStep ==
  ASSUME TypeOK, HostInv, NEW w \in Windows, CloseUnsubscribed(w)
  PROVE  HostInv'
<1>1. /\ pc = "closing" /\ w \in closing /\ events = {} /\ closing' = closing \ {w}
      /\ runtimes' = [runtimes EXCEPT ![w] = "none"]
      /\ tracks' = tracks \ {w} /\ w \notin pli_pipelines
      /\ UNCHANGED <<pli_pipelines, pc, pids, live, announced, events, subject, disconnected, view, host_windows>>
  BY DEF HostInv, Phases, InPass, CloseUnsubscribed, Captures, toldVars
<1>2. RuntimeFits(w) /\ Owner[w] \notin pids
  BY <1>1 DEF HostInv, RuntimesInv, Ended, RuntimeFits
<1>3. ASSUME NEW u \in Windows, u # w PROVE LoopSame(u) /\ MirrorSame(u)
  BY <1>1, <1>3 DEF LoopSame, MirrorSame, Due, Opening, Closing, TypeOK
<1>4. Phases' /\ EventsInv'
  BY <1>1 DEF HostInv, Phases, InPass, EventsInv, EventFits, ToldOrDue, Due
<1>5. RuntimeFits(w)'
  <2>1. ~Opening(w)' /\ ~Closing(w)' /\ runtimes'[w] = "none"
    BY <1>1 DEF Opening, Closing, TypeOK
  <2>2. QED
    BY <1>1, <1>2, <2>1 DEF RuntimeFits, Mirrored
<1>6. RuntimesInv' /\ MirrorsInv'
  <2>1. UNCHANGED pids /\ pc \notin Ended
    BY <1>1 DEF Ended
  <2>2. RuntimesInv'
    BY <1>1, <1>3, <1>5, <2>1, RuntimeKept DEF HostInv, RuntimesInv
  <2>3. MirrorsInv'
    BY <1>1, <1>2, <1>3, <2>1, MirrorKept DEF HostInv, MirrorsInv
  <2>4. QED
    BY <2>2, <2>3
<1>7. QED
  BY <1>4, <1>6 DEF HostInv

----------------------------------------------------------------------------
(* One event.                                                                *)
LEMMA EventParts ==
  ASSUME TypeOK, HostInv, NEW e \in events, EventStep(e)
  PROVE  /\ pc \in InPass /\ pc' \in InPass /\ closing = {} /\ closing' = {}
         /\ UNCHANGED <<pids, live, disconnected>>
         /\ EventFits(e) /\ e.window \in Windows /\ e.type \in EventTypes
         /\ RuntimeFits(e.window) /\ ToldOrDue(e.window)
         /\ pc \in {"announce", "open", "untrack"} => subject = e.window
         /\ pc' \in {"announce", "open", "untrack"} => subject' = e.window
         /\ UNCHANGED <<events, host_windows>> \/ Handled(e)
         /\ UNCHANGED view \/ Tell(e)
<1>1. CASE OpenTrack(e) \/ CloseRuntime(e)
  BY <1>1
     DEF OpenTrack, CloseRuntime, NextIs, InPass, toldVars, EventTypes, HostInv, Phases, EventsInv,
         EventFits, RuntimesInv, Ended, besideVars
<1>2. CASE OpenFails(e) \/ Pause(e) \/ Restart(e) \/ Relabel(e)
  BY <1>2
     DEF OpenFails, Pause, Restart, Relabel, Passed, NextIs, InPass, EventTypes, HostInv, Phases,
         EventsInv, EventFits, besideVars, RuntimesInv, Ended
<1>3. CASE AnnounceApp(e) \/ AnnounceWindow(e) \/ RemoveTrack(e)
  BY <1>3
     DEF AnnounceApp, AnnounceWindow, RemoveTrack, InPass, EventTypes, HostInv, Phases,
         EventsInv, EventFits, besideVars, toldVars, RuntimesInv, Ended
<1>4. QED
  BY <1>1, <1>2, <1>3 DEF EventStep

(* While it is handled nothing changes of another window.                    *)
LEMMA EventOthers ==
  ASSUME TypeOK, HostInv, NEW e \in events, EventStep(e), NEW u \in Windows, u # e.window
  PROVE  LoopSame(u) /\ MirrorSame(u)
<1>1. /\ runtimes'[u] = runtimes[u]
      /\ u \in tracks' <=> u \in tracks
      /\ u \in pli_pipelines' <=> u \in pli_pipelines
  BY DEF EventStep, OpenTrack, OpenFails, AnnounceApp, AnnounceWindow, CloseRuntime, RemoveTrack,
     Pause, Restart, Relabel, Passed, Captures, TypeOK
<1>2. /\ host_windows'[u] = host_windows[u]
      /\ \A type : Due(u, type)' <=> Due(u, type)
  <2>1. CASE UNCHANGED <<events, host_windows>>
    BY <2>1 DEF Due
  <2>2. CASE Handled(e)
    BY <2>2, HandledDue DEF HostInv
  <2>3. QED
    BY <2>1, <2>2, EventParts
<1>3. Opening(u)' <=> Opening(u)
  BY EventParts DEF Opening
<1>4. Closing(u)' <=> Closing(u)
  BY EventParts DEF Closing
<1>5. view'.mirrors[u] = view.mirrors[u]
  <2>1. CASE Tell(e) /\ ~disconnected
    <3>1. e \in DownFrame /\ e.type \in HostFrames \cup {"WindowOpened"} /\ view \in World
      BY EventParts DEF TypeOK, EventTypes, HostFrames
    <3>2. QED
      BY <2>1, <3>1, HostDelivered, OpenDelivered DEF Tell
  <2>2. QED
    BY <2>1, EventParts DEF Tell
<1>6. live' = live /\ closing' = closing
  BY EventParts
<1>7. QED
  BY <1>1, <1>2, <1>3, <1>4, <1>5, <1>6 DEF LoopSame, MirrorSame

(* Of the events of its window an event that is handled is the foremost.     *)
LEMMA EventForemost ==
  ASSUME TypeOK, HostInv, NEW e \in events, EventStep(e), Handled(e)
  PROVE  \A f \in events : f.window = e.window => PushPlace(e) <= PushPlace(f)
<1>1. CASE e.type \in {"WindowOpened", "WindowClosed"}
  <2>1. \A f \in events : PushPlace(f) \in {1, 2, 3, 4}
    BY DEF PushPlace
  <2>2. PushPlace(e) = 1
    BY <1>1 DEF PushPlace
  <2>3. QED
    BY <2>1, <2>2
<1>2. CASE e.type \notin {"WindowOpened", "WindowClosed"}
  <2>1. Foremost(e)
    BY <1>2 DEF EventStep, OpenTrack, OpenFails, AnnounceApp, AnnounceWindow, CloseRuntime,
       RemoveTrack, Pause, Restart, Relabel, NextIs
  <2>2. QED
    BY <2>1 DEF Foremost
<1>3. QED
  BY <1>1, <1>2

LEMMA EventEvents ==
  ASSUME TypeOK, HostInv, NEW e \in events, EventStep(e)
  PROVE  EventsInv'
<1>1. CASE UNCHANGED <<events, host_windows>>
  BY <1>1, EventParts DEF HostInv, EventsInv, EventFits, ToldOrDue, Due
<1>2. CASE Handled(e)
  BY <1>2, EventParts, EventForemost, HandledFits DEF HostInv
<1>3. QED
  BY <1>1, <1>2, EventParts

LEMMA EventPhases ==
  ASSUME TypeOK, HostInv, NEW e \in events, EventStep(e)
  PROVE  Phases'
<1>1. subject' # None => \E f \in events' : f.window = subject'
  <2>1. CASE Handled(e)
    BY <2>1, DataAssumption DEF Handled
  <2>2. CASE OpenTrack(e) \/ CloseRuntime(e)
    BY <2>2 DEF OpenTrack, CloseRuntime
  <2>3. CASE AnnounceApp(e)
    BY <2>3 DEF AnnounceApp
  <2>4. QED
    BY <2>1, <2>2, <2>3
       DEF EventStep, OpenFails, AnnounceWindow, RemoveTrack, Pause, Restart, Relabel, Passed
<1>2. /\ pc' = "announce" => Owner[subject'] \notin announced'
      /\ pc' = "open" => Owner[subject'] \in announced'
  BY DEF EventStep, OpenTrack, OpenFails, AnnounceApp, AnnounceWindow, CloseRuntime, RemoveTrack,
     Pause, Restart, Relabel, Passed, NextIs
<1>3. QED
  BY <1>1, <1>2, EventParts DEF Phases

LEMMA EventRuntime ==
  ASSUME TypeOK, HostInv, NEW e \in events, EventStep(e)
  PROVE  RuntimeFits(e.window)'
<1> DEFINE w == e.window
<1>1. /\ w \in Windows /\ EventFits(e) /\ RuntimeFits(w) /\ UNCHANGED <<pids, live>>
      /\ closing = {} /\ closing' = {} /\ (live[w] = None <=> e.type = "WindowClosed")
      /\ Due(w, e.type)
  BY EventParts DEF EventFits, Due
<1>2. Handled(e) =>
        /\ \A type : Due(w, type)' <=> Due(w, type) /\ type # e.type
        /\ host_windows'[w] = StatusAfter(e, host_windows[w])
  BY <1>1, HandledDue DEF HostInv
<1>3. UNCHANGED <<events, host_windows>> =>
        (\A type : Due(w, type)' <=> Due(w, type)) /\ host_windows'[w] = host_windows[w]
  BY DEF Due
<1>4. runtimes \in [Windows -> {"none", "capturing", "paused"}]
  BY DEF TypeOK
<1>5. CASE OpenTrack(e)
  <2>1. /\ Opening(w)' /\ ~Closing(w)' /\ runtimes'[w] = "capturing" /\ e.type = "WindowOpened"
        /\ w \in tracks' /\ w \in pli_pipelines' /\ UNCHANGED <<events, host_windows>>
    BY <1>1, <1>4, <1>5 DEF OpenTrack, Opening, Closing, Captures, NextIs, toldVars
  <2>2. QED
    BY <1>1, <1>3, <2>1 DEF RuntimeFits, Mirrored
<1>6. CASE OpenFails(e)
  <2>1. /\ ~Opening(w) /\ ~Closing(w) /\ ~Opening(w)' /\ ~Closing(w)' /\ e.type = "WindowOpened"
        /\ UNCHANGED <<runtimes, tracks, pli_pipelines>> /\ Handled(e)
    BY <1>6 DEF OpenFails, Opening, Closing, NextIs
  <2>2. QED
    BY <1>1, <1>2, <2>1 DEF RuntimeFits, Mirrored
<1>7. CASE AnnounceApp(e)
  <2>1. /\ Opening(w) /\ ~Closing(w) /\ Opening(w)' /\ ~Closing(w)'
        /\ UNCHANGED <<runtimes, tracks, pli_pipelines, events, host_windows>>
    BY <1>7 DEF AnnounceApp, Opening, Closing, toldVars
  <2>2. QED
    BY <1>1, <1>3, <2>1 DEF RuntimeFits, Mirrored
<1>8. CASE AnnounceWindow(e)
  <2>1. /\ Opening(w) /\ ~Closing(w) /\ ~Opening(w)' /\ ~Closing(w)' /\ e.type = "WindowOpened"
        /\ UNCHANGED <<runtimes, tracks, pli_pipelines>> /\ Handled(e)
    BY <1>8 DEF AnnounceWindow, Opening, Closing
  <2>2. host_windows'[w] = "normal"
    BY <1>2, <2>1 DEF StatusAfter
  <2>3. QED
    BY <1>1, <1>2, <2>1, <2>2 DEF RuntimeFits, Mirrored
<1>9. CASE CloseRuntime(e)
  <2>1. /\ ~Opening(w) /\ ~Closing(w) /\ ~Opening(w)' /\ Closing(w)' /\ e.type = "WindowClosed"
        /\ w \notin pli_pipelines' /\ UNCHANGED <<events, host_windows, runtimes, tracks>>
    BY <1>1, <1>9 DEF CloseRuntime, Opening, Closing, NextIs, toldVars
  <2>2. QED
    BY <1>1, <1>3, <2>1 DEF RuntimeFits, Mirrored
<1>10. CASE RemoveTrack(e)
  <2>1. /\ ~Opening(w) /\ Closing(w) /\ ~Opening(w)' /\ ~Closing(w)' /\ e.type = "WindowClosed"
        /\ runtimes'[w] = "none" /\ UNCHANGED pli_pipelines /\ w \notin tracks' /\ Handled(e)
    BY <1>1, <1>4, <1>10 DEF RemoveTrack, Opening, Closing, Captures
  <2>2. QED
    BY <1>1, <1>2, <2>1 DEF RuntimeFits, Mirrored
<1>11. CASE Pause(e) \/ Restart(e) \/ Relabel(e)
  <2>1. /\ ~Opening(w) /\ ~Closing(w) /\ ~Opening(w)' /\ ~Closing(w)'
        /\ e.type \notin {"WindowOpened", "WindowClosed"}
        /\ UNCHANGED <<tracks, pli_pipelines>> /\ Handled(e)
    BY <1>11 DEF Pause, Restart, Relabel, Passed, Opening, Closing, NextIs
  <2>2. runtimes'[w] = "none" <=> runtimes[w] = "none"
    BY <1>1, <1>4, <1>11 DEF Pause, Restart, Relabel, Captures
  <2>3. runtimes'[w] = "capturing" => host_windows'[w] = "normal"
    <3>1. CASE Pause(e)
      BY <1>1, <1>4, <3>1 DEF Pause, Captures
    <3>2. CASE Restart(e)
      BY <1>2, <2>1, <3>2 DEF Restart, StatusAfter, NextIs
    <3>3. CASE Relabel(e)
      BY <1>1, <1>2, <2>1, <3>3 DEF Relabel, StatusAfter, NextIs, RuntimeFits
    <3>4. QED
      BY <1>11, <3>1, <3>2, <3>3
  <2>4. QED
    BY <1>1, <1>2, <2>1, <2>2, <2>3 DEF RuntimeFits, Mirrored
<1>12. QED
  BY <1>5, <1>6, <1>7, <1>8, <1>9, <1>10, <1>11 DEF EventStep

LEMMA EventMirror ==
  ASSUME TypeOK, HostInv, NEW e \in events, EventStep(e), ~disconnected
  PROVE  MirrorFits(e.window)'
<1> DEFINE w == e.window
           m == view.mirrors[w]
<1>1. /\ w \in Windows /\ EventFits(e) /\ RuntimeFits(w) /\ ToldOrDue(w) /\ UNCHANGED <<pids, live>>
      /\ (live[w] = None <=> e.type = "WindowClosed") /\ ~disconnected' /\ Due(w, e.type)
  BY EventParts DEF EventFits, Due
<1>2. MirrorFits(w)
  <2>1. pc \notin Ended /\ Owner[w] \in pids
    BY <1>1, EventParts DEF InPass, Ended, EventFits
  <2>2. QED
    BY <1>1, <2>1 DEF HostInv, MirrorsInv
<1>3. Handled(e) =>
        /\ \A type : Due(w, type)' <=> Due(w, type) /\ type # e.type
        /\ host_windows'[w] = StatusAfter(e, host_windows[w])
  BY <1>1, HandledDue DEF HostInv
<1>4. /\ e \in DownFrame /\ view \in World
      /\ runtimes \in [Windows -> {"none", "capturing", "paused"}]
      /\ m # None => m \in Mirror
  BY <1>1, WorldParts DEF TypeOK, Option
<1>5. CASE OpenTrack(e)
  <2>1. /\ Opening(w)' /\ ~Closing(w)' /\ ~Opening(w) /\ ~Closing(w) /\ UNCHANGED view
        /\ e.type = "WindowOpened"
    BY <1>5 DEF OpenTrack, Opening, Closing, NextIs, toldVars
  <2>2. m = None
    BY <1>1, <1>2, <2>1 DEF MirrorFits, RuntimeFits
  <2>3. QED
    BY <2>1, <2>2 DEF MirrorFits
<1>6. CASE OpenFails(e)
  <2>1. /\ ~Opening(w) /\ ~Closing(w) /\ ~Opening(w)' /\ ~Closing(w)' /\ e.type = "WindowOpened"
        /\ UNCHANGED <<runtimes, view>>
    BY <1>6 DEF OpenFails, Opening, Closing, NextIs
  <2>2. m = None /\ ~Mirrored(w)
    BY <1>1, <1>2, <2>1 DEF MirrorFits, RuntimeFits
  <2>3. QED
    BY <2>1, <2>2 DEF MirrorFits, Mirrored
<1>7. CASE AnnounceApp(e)
  <2>1. Opening(w) /\ Opening(w)' /\ ~Closing(w)' /\ UNCHANGED view
    BY <1>7 DEF AnnounceApp, Opening, Closing, toldVars
  <2>2. QED
    BY <1>2, <2>1 DEF MirrorFits
<1>8. CASE AnnounceWindow(e)
  <2>1. /\ Opening(w) /\ ~Opening(w)' /\ ~Closing(w)' /\ e.type = "WindowOpened"
        /\ UNCHANGED runtimes /\ Handled(e) /\ view' = Deliver(view, e)
    BY <1>1, <1>8 DEF AnnounceWindow, Opening, Closing, Tell
  <2>2. m = None /\ Mirrored(w)
    BY <1>1, <1>2, <2>1 DEF MirrorFits, RuntimeFits
  <2>3. /\ view'.mirrors[w] # None
        /\ view'.mirrors[w].title = e.title /\ view'.mirrors[w].size = e.size
        /\ ~view'.mirrors[w].minimized
    BY <1>4, <2>1, <2>2, OpenDelivered
  <2>4. host_windows'[w] = "normal"
    BY <1>3, <2>1 DEF StatusAfter
  <2>5. e.title = live[w].title /\ e.size = live[w].last
    BY <1>1, <2>1 DEF EventFits
  <2>6. QED
    BY <1>1, <2>1, <2>2, <2>3, <2>4, <2>5 DEF MirrorFits, Mirrored
<1>9. CASE CloseRuntime(e)
  <2>1. /\ ~Opening(w) /\ ~Opening(w)' /\ e.type = "WindowClosed"
        /\ UNCHANGED <<view, runtimes, host_windows>>
    BY <1>9 DEF CloseRuntime, Opening, NextIs, toldVars
  <2>2. QED
    BY <1>1, <1>2, <2>1 DEF MirrorFits, Mirrored
<1>10. CASE RemoveTrack(e)
  <2>1. /\ Closing(w) /\ ~Opening(w)' /\ ~Closing(w)' /\ e.type = "WindowClosed"
        /\ runtimes'[w] = "none" /\ view' = Deliver(view, e)
    BY <1>1, <1>4, <1>10 DEF RemoveTrack, Opening, Closing, Tell, Captures
  <2>2. view'.mirrors[w] = None
    BY <1>4, <2>1, HostDelivered DEF HostFrames, MirrorAfter
  <2>3. QED
    BY <1>1, <2>1, <2>2 DEF MirrorFits, Mirrored
<1>11. CASE Pause(e) \/ Restart(e) \/ Relabel(e)
  <2>1. /\ ~Opening(w) /\ ~Closing(w) /\ ~Opening(w)' /\ ~Closing(w)'
        /\ e.type \in HostFrames \ {"WindowClosed", "InputMapping"}
        /\ Handled(e) /\ view' = Deliver(view, e)
    BY <1>1, <1>11
       DEF Pause, Restart, Relabel, Passed, Opening, Closing, NextIs, Tell, HostFrames
  <2>2. runtimes'[w] = "none" <=> runtimes[w] = "none"
    BY <1>1, <1>4, <1>11 DEF Pause, Restart, Relabel, Captures
  <2>3. view'.mirrors[w] = MirrorAfter(m, e)
    BY <1>4, <2>1, HostDelivered
  <2>4. m = None => view'.mirrors[w] = None
    BY <2>3 DEF MirrorAfter
  <2>5. m # None /\ e.type = "WindowMinimized" =>
          /\ view'.mirrors[w] # None
          /\ view'.mirrors[w].minimized /\ host_windows'[w] = "minimized"
          /\ view'.mirrors[w].title = m.title /\ view'.mirrors[w].size = m.size
    <3> DEFINE n == [m EXCEPT !.minimized = TRUE]
    <3>1. m # None /\ e.type = "WindowMinimized" => view'.mirrors[w] = n
      BY <2>3 DEF MirrorAfter
    <3>2. m # None => n \in Mirror /\ n.minimized /\ n.title = m.title /\ n.size = m.size
      BY <1>4 DEF Mirror
    <3> HIDE DEF n
    <3>3. m # None => n # None
      BY <3>2, TrackerAssumption
    <3>4. QED
      BY <1>3, <2>1, <3>1, <3>2, <3>3 DEF StatusAfter
  <2>6. m # None /\ e.type = "WindowRestored" =>
          /\ view'.mirrors[w] # None
          /\ ~view'.mirrors[w].minimized /\ host_windows'[w] = "normal"
          /\ view'.mirrors[w].title = m.title /\ view'.mirrors[w].size = m.size
    <3> DEFINE n == [m EXCEPT !.minimized = FALSE]
    <3>1. m # None /\ e.type = "WindowRestored" => view'.mirrors[w] = n
      BY <2>3 DEF MirrorAfter
    <3>2. m # None => n \in Mirror /\ ~n.minimized /\ n.title = m.title /\ n.size = m.size
      BY <1>4 DEF Mirror
    <3> HIDE DEF n
    <3>3. m # None => n # None
      BY <3>2, TrackerAssumption
    <3>4. QED
      BY <1>3, <2>1, <3>1, <3>2, <3>3 DEF StatusAfter
  <2>7. m # None /\ e.type = "WindowResized" =>
          /\ view'.mirrors[w] # None
          /\ view'.mirrors[w].minimized = m.minimized /\ host_windows'[w] = host_windows[w]
          /\ view'.mirrors[w].title = m.title /\ view'.mirrors[w].size = live[w].last
    <3> DEFINE n == [m EXCEPT !.size = e.size]
    <3>1. m # None /\ e.type = "WindowResized" => view'.mirrors[w] = n
      BY <2>3 DEF MirrorAfter
    <3>2. m # None /\ e.type = "WindowResized" =>
            n \in Mirror /\ n.minimized = m.minimized /\ n.title = m.title /\ n.size = e.size
      BY <1>4, FrameFields DEF Mirror
    <3>3. e.type = "WindowResized" => e.size = live[w].last
      BY <1>1 DEF EventFits, ToldOrDue
    <3> HIDE DEF n
    <3>4. m # None /\ e.type = "WindowResized" => n # None
      BY <3>2, TrackerAssumption
    <3>5. QED
      BY <1>3, <2>1, <3>1, <3>2, <3>3, <3>4 DEF StatusAfter
  <2>8. m # None /\ e.type = "WindowTitleChanged" =>
          /\ view'.mirrors[w] # None
          /\ view'.mirrors[w].minimized = m.minimized /\ host_windows'[w] = host_windows[w]
          /\ view'.mirrors[w].title = live[w].title /\ view'.mirrors[w].size = m.size
    <3> DEFINE n == [m EXCEPT !.title = e.title]
    <3>1. m # None /\ e.type = "WindowTitleChanged" => view'.mirrors[w] = n
      BY <2>3 DEF MirrorAfter
    <3>2. m # None /\ e.type = "WindowTitleChanged" =>
            n \in Mirror /\ n.minimized = m.minimized /\ n.title = e.title /\ n.size = m.size
      BY <1>4, FrameFields DEF Mirror
    <3>3. e.type = "WindowTitleChanged" => e.title = live[w].title
      BY <1>1 DEF EventFits
    <3> HIDE DEF n
    <3>4. m # None /\ e.type = "WindowTitleChanged" => n # None
      BY <3>2, TrackerAssumption
    <3>5. QED
      BY <1>3, <2>1, <3>1, <3>2, <3>3, <3>4 DEF StatusAfter
  <2>9. /\ Due(w, "WindowTitleChanged")' <=>
             Due(w, "WindowTitleChanged") /\ e.type # "WindowTitleChanged"
        /\ Due(w, "WindowResized")' <=> Due(w, "WindowResized") /\ e.type # "WindowResized"
    BY <1>3, <2>1
  <2>10. m # None <=> Mirrored(w)
    BY <1>2, <2>1 DEF MirrorFits
  <2>11. e.type \in {"WindowMinimized", "WindowRestored", "WindowResized", "WindowTitleChanged"}
    BY <2>1 DEF HostFrames
  <2> HIDE DEF w, m
  <2>12. m # None <=> view'.mirrors[w] # None
    BY <2>4, <2>5, <2>6, <2>7, <2>8, <2>11
  <2>13. m # None /\ live[w] # None =>
           /\ m.minimized <=> host_windows[w] = "minimized"
           /\ ~Due(w, "WindowTitleChanged") => m.title = live[w].title
           /\ ~Due(w, "WindowResized") => m.size = live[w].last
    BY <1>2 DEF MirrorFits, m, w
  <2>14. m # None /\ live[w] # None =>
           /\ view'.mirrors[w].minimized <=> host_windows'[w] = "minimized"
           /\ ~Due(w, "WindowTitleChanged")' => view'.mirrors[w].title = live[w].title
           /\ ~Due(w, "WindowResized")' => view'.mirrors[w].size = live[w].last
    BY <2>5, <2>6, <2>7, <2>8, <2>9, <2>11, <2>13
  <2>15. QED
    BY <1>1, <2>1, <2>2, <2>10, <2>12, <2>14 DEF MirrorFits, Mirrored, w, m
<1>12. QED
  BY <1>5, <1>6, <1>7, <1>8, <1>9, <1>10, <1>11 DEF EventStep

LEMMA EventHostInv ==
  ASSUME TypeOK, HostInv, NEW e \in events, EventStep(e)
  PROVE  HostInv'
<1>1. /\ pc \notin Ended /\ UNCHANGED <<pids, disconnected>>
      /\ \A u \in Windows : RuntimeFits(u)
  BY EventParts DEF HostInv, RuntimesInv, InPass, Ended
<1>2. \A u \in Windows : RuntimeFits(u)'
  BY <1>1, EventOthers, EventRuntime, RuntimeKept
<1>3. ASSUME ~disconnected, NEW u \in Windows, Owner[u] \in pids
      PROVE  MirrorFits(u)'
  <2>1. MirrorFits(u)
    BY <1>1, <1>3 DEF HostInv, MirrorsInv
  <2>2. QED
    BY <1>3, <2>1, EventOthers, EventMirror, MirrorKept
<1>4. RuntimesInv' /\ MirrorsInv'
  BY <1>1, <1>2, <1>3 DEF RuntimesInv, MirrorsInv
<1>5. QED
  BY <1>4, EventPhases, EventEvents DEF HostInv

----------------------------------------------------------------------------
(* The steps that handle no event.                                           *)
LEMMA SetUpHostInv ==
  ASSUME HostInv, Serve \/ Answer \/ OpenChannel \/ Watch \/ WatcherRuns \/ Settle
  PROVE  HostInv'
<1>1. UNCHANGED sameVars /\ UNCHANGED <<view, disconnected>>
  BY DEF Serve, Answer, OpenChannel, Watch, WatcherRuns, Settle, SetUp, sameVars, toldVars
<1>2. \/ UNCHANGED pc
      \/ /\ pc \in {"offer", "answer", "channel", "watch", "settle"}
         /\ pc' \in {"answer", "channel", "watch", "settle", "abandoned", "pause", "check"}
  BY DEF Serve, Answer, OpenChannel, Watch, WatcherRuns, Settle
<1>3. UNCHANGED pc \/ (events = {} /\ closing = {})
  BY <1>2 DEF HostInv, Phases, InPass
<1>4. QED
  BY <1>1, <1>2, <1>3, QuietStep DEF MirrorSame, InPass, Ended

LEMMA OtherLoopHostInv ==
  ASSUME TypeOK, HostInv,
         \/ Check \/ Finish \/ Renegotiated \/ Teardown \/ StopWatcher \/ Close
         \/ \E w \in Windows : Unroute(w) \/ CloseUnsubscribed(w)
  PROVE  HostInv'
<1>1. CASE Check \/ Finish \/ Renegotiated
  <2>1. UNCHANGED sameVars /\ UNCHANGED <<view, disconnected>>
    BY <1>1 DEF Check, Finish, Renegotiated, sameVars, toldVars, besideVars
  <2>2. /\ pc \in {"check", "pass", "closing", "renegotiate"}
        /\ pc' \in {"teardown", "select", "renegotiate", "check"}
        /\ events = {} /\ closing = {}
    BY <1>1 DEF Check, Finish, Finished, Renegotiated, Refresh, HostInv, Phases, InPass
  <2>3. QED
    BY <2>1, <2>2, QuietStep DEF MirrorSame, InPass, Ended
<1>2. CASE Teardown \/ StopWatcher \/ Close
  BY <1>2, EndedStep DEF Teardown, StopWatcher, Close, InPass, Ended, toldVars
<1>3. QED
  BY <1>1, <1>2, UnrouteStep, CloseUnsubscribedStep

LEMMA BesideHostInv ==
  ASSUME TypeOK, HostInv,
         Frames \/ Forwarder \/ Worker \/ UserActs \/ ClientUnsubscribes \/ PeerDisconnects
  PROVE  HostInv'
<1>1. UNCHANGED sameVars /\ UNCHANGED pc
  BY DEF Frames, Forwarder, Worker, UserActs, ClientUnsubscribes, PeerDisconnects, Aside, loopVars,
     toldVars, sameVars
<1>2. CASE PeerDisconnects
  BY <1>1, <1>2, QuietStep DEF PeerDisconnects
<1>3. CASE Frames \/ Worker \/ UserActs \/ ClientUnsubscribes
  <2>1. UNCHANGED <<view, disconnected>>
    BY <1>3 DEF Frames, Worker, UserActs, ClientUnsubscribes, Aside
  <2>2. QED
    BY <1>1, <2>1, QuietStep DEF MirrorSame
<1>4. CASE Forwarder
  <2>1. UNCHANGED disconnected /\ (UNCHANGED view \/ (MappingSent /\ Tell(sending)))
    BY <1>4 DEF Forwarder, Aside
  <2>2. ASSUME NEW u \in Windows PROVE MirrorSame(u)
    <3>1. CASE UNCHANGED view
      BY <3>1 DEF MirrorSame
    <3>2. CASE MappingSent /\ view' = Deliver(view, sending)
      <4>1. PICK w \in Windows, m \in Mappings : sending = InputMapping(w, m)
        BY <3>2 DEF MappingSent, TypeOK, MappingTypeOK, Option
      <4>2. /\ sending \in DownFrame /\ sending.type = "InputMapping" /\ sending.window = w
            /\ sending.mapping = m /\ view \in World
        BY <4>1 DEF DownFrame, InputMapping, TypeOK
      <4>3. u # w => view'.mirrors[u] = view.mirrors[u]
        BY <3>2, <4>2, HostDelivered DEF HostFrames
      <4> DEFINE n == [view.mirrors[w] EXCEPT !.mapping = m]
      <4>4. view'.mirrors[w] = IF view.mirrors[w] = None THEN None ELSE n
        BY <3>2, <4>2, HostDelivered DEF HostFrames, MirrorAfter
      <4>5. view.mirrors[w] # None =>
              /\ n \in Mirror /\ n.title = view.mirrors[w].title /\ n.size = view.mirrors[w].size
              /\ n.minimized = view.mirrors[w].minimized
        <5>1. view.mirrors[w] # None => view.mirrors[w] \in Mirror
          BY <4>2, WorldParts DEF Option
        <5>2. QED
          BY <5>1 DEF Mirror
      <4> HIDE DEF n
      <4>6. QED
        BY <4>3, <4>4, <4>5, TrackerAssumption DEF MirrorSame
    <3>3. QED
      BY <2>1, <3>1, <3>2 DEF Tell
  <2>3. QED
    BY <1>1, <2>1, <2>2, QuietStep
<1>5. QED
  BY <1>2, <1>3, <1>4

LEMMA HostInvStep == TypeOK /\ HostInv /\ [Next]_vars => HostInv'
<1>1. SUFFICES ASSUME TypeOK, HostInv, [Next]_vars PROVE HostInv'
  OBVIOUS
<1>2. CASE UNCHANGED vars
  BY <1>1, <1>2, QuietStep DEF vars, loopVars, toldVars, besideVars, sameVars, MirrorSame
<1>3. CASE LoopStep
  BY <1>1, <1>3, SetUpHostInv, EventHostInv, OtherLoopHostInv DEF LoopStep
<1>4. CASE Poll
  BY <1>1, <1>4, ReconcileStep DEF Poll
<1>5. QED
  BY <1>1, <1>2, <1>3, <1>4, SetUpHostInv, UnsubscribeStep, BesideHostInv DEF Next

LEMMA HostInvInit == Init => HostInv
<1>1. SUFFICES ASSUME Init PROVE HostInv
  OBVIOUS
<1>2. ASSUME NEW w \in Windows
      PROVE  /\ live[w] = None /\ runtimes[w] = "none" /\ host_windows[w] = "absent"
             /\ view.mirrors[w] = None /\ Owner[w] \in pids /\ \A type : ~Due(w, type)
             /\ ~Opening(w) /\ ~Closing(w)
  BY <1>1, DataAssumption DEF Init, EmptyWorld, Due, Opening, Closing
<1>3. Phases
  BY <1>1 DEF Init, Phases, InPass
<1>4. EventsInv
  BY <1>1, <1>2 DEF Init, EventsInv, ToldOrDue
<1>5. RuntimesInv
  BY <1>1, <1>2 DEF Init, RuntimesInv, RuntimeFits, Mirrored
<1>6. MirrorsInv
  BY <1>2 DEF MirrorsInv, MirrorFits, Mirrored
<1>7. QED
  BY <1>3, <1>4, <1>5, <1>6 DEF HostInv

LEMMA HostInvAlways == Spec => [](TypeOK /\ HostInv)
BY HostTypeInit, HostTypeStep, HostInvInit, HostInvStep, PTL DEF Spec

(* Between two passes nothing is due.                                        *)
LEMMA NothingDue ==
  ASSUME HostInv, AtRest, NEW w \in Windows
  PROVE  /\ RuntimeFits(w) /\ ToldOrDue(w) /\ \A type : ~Due(w, type)
         /\ w \notin closing /\ ~Opening(w) /\ ~Closing(w)
<1>1. events = {} /\ closing = {} /\ pc \notin Ended
  BY DEF HostInv, Phases, AtRest, InPass, Ended
<1>2. QED
  BY <1>1 DEF HostInv, EventsInv, RuntimesInv, Due, AtRest, Opening, Closing

LEMMA InformedAtRest == TypeOK /\ HostInv => ClientInformed
<1>1. SUFFICES ASSUME TypeOK, HostInv, AtRest, ~disconnected,
                      NEW w \in Windows, Owner[w] \in pids
               PROVE  LET m == view.mirrors[w]
                      IN  IF runtimes[w] = "none" THEN m = None
                          ELSE /\ live[w] # None /\ m # None
                               /\ ShownAs(live[w]) = [title |-> m.title, size |-> m.size,
                                                      minimized |-> m.minimized]
  BY DEF ClientInformed
<1>2. MirrorFits(w)
  BY <1>1 DEF HostInv, MirrorsInv, AtRest, Ended
<1>3. RuntimeFits(w) /\ ToldOrDue(w) /\ (\A type : ~Due(w, type)) /\ w \notin closing
      /\ ~Opening(w) /\ ~Closing(w)
  BY <1>1, NothingDue
<1> DEFINE m == view.mirrors[w]
<1>4. CASE runtimes[w] = "none"
  BY <1>2, <1>3, <1>4 DEF MirrorFits, Mirrored
<1>5. CASE runtimes[w] # "none"
  <2>1. live[w] # None /\ m # None
    BY <1>2, <1>3, <1>5 DEF MirrorFits, RuntimeFits, Mirrored
  <2>2. m.title = live[w].title /\ m.size = live[w].last
    BY <1>2, <1>3, <2>1 DEF MirrorFits
  <2>3. m.minimized <=> live[w].minimized
    BY <1>2, <1>3, <2>1 DEF MirrorFits, ToldOrDue
  <2>4. m.minimized \in BOOLEAN /\ live[w].minimized \in BOOLEAN
    <3>1. m \in Mirror
      BY <1>1, <2>1, WorldParts DEF TypeOK, Option
    <3>2. live[w] \in Tracked
      BY <1>1, <2>1 DEF TypeOK, Option
    <3>3. QED
      BY <3>1, <3>2 DEF Mirror, Tracked
  <2>5. m.minimized = live[w].minimized
    BY <2>3, <2>4
  <2>6. QED
    BY <1>5, <2>1, <2>2, <2>5 DEF ShownAs
<1>6. QED
  BY <1>4, <1>5

LEMMA AgreeAtRest == TypeOK /\ HostInv => RuntimesAgree
<1>1. SUFFICES ASSUME TypeOK, HostInv, AtRest
               PROVE  LET mirrored == {w \in Windows : runtimes[w] # "none"}
                      IN  /\ tracks = mirrored /\ pli_pipelines = mirrored
                          /\ mirrored \subseteq Present(live)
                          /\ \A w \in mirrored :
                               runtimes[w] = "capturing" => ~live[w].minimized
  BY DEF RuntimesAgree
<1>2. /\ tracks \subseteq Windows /\ pli_pipelines \subseteq Windows
      /\ DOMAIN live = Windows
  BY <1>1 DEF TypeOK
<1>3. ASSUME NEW w \in Windows
      PROVE  /\ w \in tracks <=> runtimes[w] # "none"
             /\ w \in pli_pipelines <=> runtimes[w] # "none"
             /\ runtimes[w] # "none" => live[w] # None
             /\ runtimes[w] = "capturing" => ~live[w].minimized
  <2>1. RuntimeFits(w) /\ ToldOrDue(w) /\ (\A type : ~Due(w, type)) /\ w \notin closing
        /\ ~Opening(w) /\ ~Closing(w)
    BY <1>1, NothingDue
  <2>2. QED
    BY <2>1 DEF RuntimeFits, ToldOrDue, Mirrored
<1>4. QED
  BY <1>2, <1>3 DEF Present

(* Between passes a client that applied every message shows exactly the      *)
(* mirrored windows, with the title, the state and the size each had when it *)
(* was last visible, whatever the polls, the failures and the                *)
(* unsubscriptions were (ClientInformed; AppTracker::diff, the event loop).  *)
THEOREM ClientIsInformed == Spec => []ClientInformed
BY HostInvAlways, InformedAtRest, PTL

(* Between passes tracks, keyframe routing and runtimes are about the same,  *)
(* tracked windows, and a minimized one is not captured (RuntimesAgree).     *)
THEOREM RuntimesAlwaysAgree == Spec => []RuntimesAgree
BY HostInvAlways, AgreeAtRest, PTL

----------------------------------------------------------------------------
(* Steps that never happen.  An application the loop has dropped: what the   *)
(* steps leave alone, and what the events of a pass are about.               *)
Dropped(w) ==
  /\ live'[w] = None
  /\ runtimes[w] = "none" => runtimes'[w] = "none"
  /\ w \notin tracks => w \notin tracks'
  /\ view.mirrors[w] = None => view'.mirrors[w] = None

LEMMA DroppedByEvent ==
  ASSUME TypeOK, HostInv, NEW e \in events, EventStep(e), NEW w \in Windows, Owner[w] \notin pids
  PROVE  Dropped(w)
<1>1. w # e.window /\ live[w] = None
  BY EventParts DEF EventFits, HostInv, EventsInv, ToldOrDue
<1>2. LoopSame(w) /\ MirrorSame(w)
  BY <1>1, EventOthers
<1>3. QED
  BY <1>1, <1>2 DEF Dropped, LoopSame, MirrorSame

LEMMA DroppedStep ==
  ASSUME TypeOK, HostInv, Next, NEW w \in Windows, Owner[w] \notin pids
  PROVE  Dropped(w)
<1>1. live[w] = None
  BY DEF HostInv, EventsInv, ToldOrDue
<1>2. CASE \E e \in events : EventStep(e)
  BY <1>2, DroppedByEvent
<1>3. CASE Poll
  <2>1. PICK snapshot \in [Windows -> Option(SnapshotWindow)] : Reconcile(snapshot)
    BY <1>3 DEF Poll
  <2>2. live'[w] = None
    BY <2>1 DEF Reconcile, DiffLive, Ours
  <2>3. QED
    BY <2>1, <2>2 DEF Reconcile, Dropped, toldVars
<1>4. CASE Unsubscribe
  BY <1>1, <1>4 DEF Unsubscribe, Without, Dropped
<1>5. CASE Forwarder
  <2>1. CASE Tell(sending) /\ MappingSent /\ ~disconnected
    <3>1. sending \in DownFrame /\ sending.type = "InputMapping" /\ view \in World
      BY <2>1 DEF MappingSent, TypeOK, MappingTypeOK, Option, DownFrame, InputMapping
    <3>2. view.mirrors[w] = None => view'.mirrors[w] = None
      BY <2>1, <3>1, HostDelivered DEF Tell, HostFrames, MirrorAfter
    <3>3. QED
      BY <1>1, <1>5, <3>2 DEF Forwarder, Aside, loopVars, Dropped
  <2>2. CASE UNCHANGED view
    BY <1>1, <1>5, <2>2 DEF Forwarder, Aside, loopVars, Dropped
  <2>3. QED
    BY <1>5, <2>1, <2>2 DEF Forwarder, Tell
<1>6. CASE Frames \/ Worker \/ UserActs \/ ClientUnsubscribes \/ PeerDisconnects
  <2>1. UNCHANGED <<live, runtimes, tracks, view>>
    BY <1>6
       DEF Frames, Worker, UserActs, ClientUnsubscribes, PeerDisconnects, Aside, loopVars, toldVars
  <2>2. QED
    BY <1>1, <2>1 DEF Dropped
<1>7. CASE Serve \/ WatcherRuns \/ Answer \/ OpenChannel \/ Watch \/ Settle
  BY <1>1, <1>7
     DEF Serve, WatcherRuns, Answer, OpenChannel, Watch, Settle, SetUp, toldVars, Dropped
<1>8. CASE Check \/ Finish \/ Renegotiated \/ Teardown \/ StopWatcher \/ Close
             \/ \E v \in Windows : Unroute(v) \/ CloseUnsubscribed(v)
  BY <1>1, <1>8
     DEF Check, Finish, Renegotiated, Teardown, StopWatcher, Close, Unroute, CloseUnsubscribed, Captures,
         toldVars, Dropped, TypeOK
<1>9. QED
  BY <1>2, <1>3, <1>4, <1>5, <1>6, <1>7, <1>8 DEF Next, LoopStep

(* Once the loop has dropped an application it never comes back: no track,   *)
(* no capture, no announcement of one of its windows (DroppedForGood;        *)
(* remove_pid and the pid filter of AppTracker::diff).                       *)
THEOREM DroppedStaysDropped == Spec => DroppedForGood
<1>1. TypeOK /\ HostInv /\ [Next]_vars =>
        [\A w \in Windows : Owner[w] \notin pids =>
           /\ live'[w] = None
           /\ runtimes[w] = "none" => runtimes'[w] = "none"
           /\ w \notin tracks => w \notin tracks'
           /\ view.mirrors[w] = None => view'.mirrors[w] = None]_vars
  BY DroppedStep DEF Dropped
<1>2. QED
  BY <1>1, HostInvAlways, PTL DEF Spec, DroppedForGood

----------------------------------------------------------------------------
(* What the session sends, as HostStream allows it.                          *)
LEMMA SendsEvent ==
  ASSUME TypeOK, HostInv, NEW e \in events, EventStep(e), Handled(e)
  PROVE  IF pc = "pass" /\ e.type = "WindowOpened"
         THEN Stream!OpenFails(e.window) ELSE Stream!Sends(e)
<1> DEFINE w == e.window
           told == host_windows[w]
<1>1. /\ w \in Windows /\ EventFits(e) /\ ToldOrDue(w) /\ UNCHANGED pids /\ Owner[w] \in pids
      /\ e.type \in EventTypes /\ told \in {"absent", "normal", "minimized"}
  BY EventParts DEF EventFits, TypeOK, Stream!WindowStates
<1>2. host_windows' = [host_windows EXCEPT ![w] = StatusAfter(e, @)]
  BY DEF Handled
<1>3. UNCHANGED announced
  BY DataAssumption
     DEF EventStep, OpenTrack, OpenFails, AnnounceApp, AnnounceWindow, CloseRuntime, RemoveTrack,
         Pause, Restart, Relabel, Passed, Handled
<1>4. \A f \in events : f.window = w => PushPlace(e) <= PushPlace(f)
  BY EventForemost
<1>5. CASE e.type = "WindowOpened"
  <2>1. told = "absent" /\ host_windows' = [host_windows EXCEPT ![w] = "normal"]
    BY <1>1, <1>2, <1>5 DEF EventFits, StatusAfter
  <2>2. Stream!OpenFails(w)
    BY <1>1, <1>3, <2>1 DEF Stream!OpenFails, Stream!Shared, Stream!Becomes
  <2>3. pc # "pass" => Owner[w] \in announced
    BY <1>5
       DEF EventStep, OpenTrack, OpenFails, AnnounceApp, AnnounceWindow, CloseRuntime, RemoveTrack,
           Pause, Restart, Relabel, Passed, NextIs, HostInv, Phases, Handled
  <2>4. QED
    BY <1>5, <2>2, <2>3 DEF Stream!Sends, Stream!Opens
<1>6. CASE e.type = "WindowClosed"
  <2>1. told # "absent" /\ host_windows' = [host_windows EXCEPT ![w] = "absent"]
    BY <1>1, <1>2, <1>6 DEF EventFits, StatusAfter
  <2>2. QED
    BY <1>1, <1>3, <1>6, <2>1 DEF Stream!Sends, Stream!Closes, Stream!Shared, Stream!Becomes
<1>7. CASE e.type = "WindowMinimized"
  <2>1. ~Due(w, "WindowOpened")
    BY <1>4, <1>7 DEF Due, PushPlace
  <2>2. told = "normal" /\ host_windows' = [host_windows EXCEPT ![w] = "minimized"]
    BY <1>1, <1>2, <1>7, <2>1 DEF EventFits, StatusAfter
  <2>3. QED
    BY <1>1, <1>3, <1>7, <2>2 DEF Stream!Sends, Stream!Minimizes, Stream!Shared, Stream!Becomes
<1>8. CASE e.type = "WindowRestored"
  <2>1. told = "minimized" /\ host_windows' = [host_windows EXCEPT ![w] = "normal"]
    BY <1>1, <1>2, <1>8 DEF EventFits, StatusAfter
  <2>2. QED
    BY <1>1, <1>3, <1>8, <2>1 DEF Stream!Sends, Stream!Restores, Stream!Shared, Stream!Becomes
<1>9. CASE e.type \in {"WindowResized", "WindowTitleChanged"}
  <2>1. host_windows' = host_windows
    BY <1>2, <1>9 DEF StatusAfter, TypeOK
  <2>2. told # "absent"
    BY <1>1, <1>9 DEF EventFits
  <2>3. e.type = "WindowResized" => told # "minimized"
    <3>1. e.type = "WindowResized" => ~Due(w, "WindowRestored")
      BY <1>4 DEF Due, PushPlace
    <3>2. e.type = "WindowResized" => live[w] # None /\ ~live[w].minimized
      BY <1>1 DEF EventFits
    <3>3. QED
      BY <1>1, <3>1, <3>2 DEF ToldOrDue
  <2>4. QED
    BY <1>1, <1>3, <1>9, <2>1, <2>2, <2>3
       DEF Stream!Sends, Stream!Resizes, Stream!Retitles, Stream!Shared, Stream!streamVars
<1>10. QED
  BY <1>1, <1>5, <1>6, <1>7, <1>8, <1>9 DEF EventTypes

LEMMA AnnouncesApp ==
  ASSUME TypeOK, HostInv, NEW e \in events, AnnounceApp(e)
  PROVE  \E a \in Apps : Stream!Announces(a)
<1>1. Owner[e.window] \in pids /\ Owner[e.window] \in Apps /\ UNCHANGED pids
  BY DataAssumption DEF AnnounceApp, HostInv, EventsInv, EventFits
<1>2. Owner[e.window] \notin announced
  BY DEF AnnounceApp, HostInv, Phases
<1>3. QED
  BY <1>1, <1>2 DEF AnnounceApp, toldVars, Stream!Announces

LEMMA DropsApp ==
  ASSUME TypeOK, HostInv, Unsubscribe
  PROVE  \E a \in Apps : Stream!Drops(a)
<1> DEFINE a == Head(unsub)
           gone == WindowsOf(live, a)
<1>1. a \in Apps
  BY HeadTailProperties DEF Unsubscribe, TypeOK
<1>2. events = {}
  BY DEF Unsubscribe, HostInv, Phases, InPass
<1>3. ASSUME NEW w \in Windows
      PROVE  (IF w \in gone THEN "absent" ELSE host_windows[w])
               = (IF Owner[w] = a THEN "absent" ELSE host_windows[w])
  <2>1. w \in gone <=> live[w] # None /\ Owner[w] = a
    BY DEF WindowsOf, Present, TypeOK
  <2>2. live[w] = None => host_windows[w] = "absent"
    BY <1>2 DEF HostInv, EventsInv, ToldOrDue, Due
  <2>3. QED
    BY <2>1, <2>2
<1>4. /\ pids' = pids \ {a} /\ UNCHANGED announced
      /\ host_windows' = [w \in Windows |-> IF w \in gone THEN "absent" ELSE host_windows[w]]
  BY DEF Unsubscribe
<1> HIDE DEF a, gone
<1>5. host_windows' = [w \in Windows |-> IF Owner[w] = a THEN "absent" ELSE host_windows[w]]
  BY <1>3, <1>4
<1>6. QED
  BY <1>1, <1>4, <1>5 DEF Stream!Drops

Said ==
  /\ announced' # announced => \E a \in Apps : Stream!Announces(a)
  /\ pids' # pids => \E a \in Apps : Stream!Drops(a)
  /\ \A e \in events \ events' :
       IF pc = "pass" /\ e.type = "WindowOpened"
       THEN Stream!OpenFails(e.window) ELSE Stream!Sends(e)

LEMMA SaidStep ==
  ASSUME TypeOK, HostInv, Next
  PROVE  Said
<1>1. CASE \E e \in events : EventStep(e)
  <2>1. PICK e \in events : EventStep(e)
    BY <1>1
  <2>2. UNCHANGED pids /\ (UNCHANGED <<events, host_windows>> \/ Handled(e))
    BY <2>1, EventParts
  <2>3. announced' # announced => AnnounceApp(e)
    BY <2>1
       DEF EventStep, OpenTrack, OpenFails, AnnounceWindow, CloseRuntime, RemoveTrack, Pause,
           Restart, Relabel, Passed
  <2>4. \A f \in events \ events' : f = e /\ Handled(e)
    BY <2>2 DEF Handled
  <2>5. QED
    BY <2>1, <2>2, <2>3, <2>4, AnnouncesApp, SendsEvent DEF Said
<1>2. CASE Unsubscribe
  <2>1. UNCHANGED <<announced, events>>
    BY <1>2 DEF Unsubscribe
  <2>2. QED
    BY <1>2, <2>1, DropsApp DEF Said
<1>3. CASE Poll
  <2>1. UNCHANGED <<announced, pids>> /\ events = {}
    BY <1>3 DEF Poll, Reconcile, HostInv, Phases, InPass
  <2>2. QED
    BY <2>1 DEF Said
<1>4. CASE Serve \/ WatcherRuns \/ Answer \/ OpenChannel \/ Watch \/ Settle
  BY <1>4 DEF Serve, WatcherRuns, Answer, OpenChannel, Watch, Settle, SetUp, Said
<1>5. CASE Check \/ Finish \/ Renegotiated \/ Teardown \/ StopWatcher \/ Close
             \/ \E v \in Windows : Unroute(v) \/ CloseUnsubscribed(v)
  BY <1>5
     DEF Check, Finish, Renegotiated, Teardown, StopWatcher, Close, Unroute, CloseUnsubscribed, Said
<1>6. CASE Frames \/ Forwarder \/ Worker \/ UserActs \/ ClientUnsubscribes \/ PeerDisconnects
  BY <1>6
     DEF Frames, Forwarder, Worker, UserActs, ClientUnsubscribes, PeerDisconnects, Aside, loopVars,
         Said
<1>7. QED
  BY <1>1, <1>2, <1>3, <1>4, <1>5, <1>6 DEF Next, LoopStep

(* Every message about a window, every announcement and every drop of an     *)
(* application comes when HostStream, which is all that ClientSession        *)
(* assumes of its host, allows it (KeepsToStream).                           *)
THEOREM HostKeepsToStream == Spec => KeepsToStream
<1>1. TypeOK /\ HostInv /\ [Next]_vars =>
        [/\ announced' # announced => \E a \in Apps : Stream!Announces(a)
         /\ pids' # pids => \E a \in Apps : Stream!Drops(a)
         /\ \A e \in events \ events' :
              IF pc = "pass" /\ e.type = "WindowOpened"
              THEN Stream!OpenFails(e.window) ELSE Stream!Sends(e)]_vars
  BY SaidStep DEF Said
<1>2. QED
  BY <1>1, HostInvAlways, PTL DEF Spec, KeepsToStream

----------------------------------------------------------------------------
(* A queue in which the last item of a kind K counts: what holds in the end  *)
(* is that item or, if none is left, p.                                      *)
Latest(s, K, p, v) ==
  /\ (\A i \in DOMAIN s : s[i] \notin K) => p = v
  /\ \A i \in DOMAIN s :
       s[i] \in K /\ (\A j \in DOMAIN s : s[j] \in K => j <= i) => s[i] = v

LEMMA Appended ==
  ASSUME NEW S, NEW s \in Seq(S), NEW item \in S
  PROVE  LET t == Append(s, item)
         IN  /\ Len(s) \in Nat /\ DOMAIN s = 1..Len(s) /\ DOMAIN t = 1..Len(s) + 1
             /\ t[Len(s) + 1] = item /\ \A i \in 1..Len(s) : t[i] = s[i]
BY AppendProperties, LenProperties

LEMMA Taken ==
  ASSUME NEW S, NEW s \in Seq(S), s # <<>>
  PROVE  LET n == Len(s)
             t == Tail(s)
         IN  /\ n \in Nat /\ n >= 1 /\ DOMAIN s = 1..n /\ Head(s) = s[1]
             /\ DOMAIN t = 1..n - 1 /\ \A i \in 1..n - 1 : t[i] = s[i + 1]
<1> DEFINE n == Len(s)
           t == Tail(s)
<1>1. n \in Nat /\ n >= 1 /\ DOMAIN s = 1..n /\ Head(s) = s[1]
  BY LenProperties, HeadTailProperties, EmptySeq
<1>2. t \in Seq(S) /\ Len(t) = n - 1 /\ \A i \in 1..Len(t) : t[i] = s[i + 1]
  BY HeadTailProperties
<1>3. QED
  BY <1>1, <1>2, LenProperties

LEMMA LatestOther ==
  ASSUME NEW S, NEW s \in Seq(S), NEW item \in S, NEW K, item \notin K,
         NEW p, NEW v, Latest(s, K, p, v)
  PROVE  Latest(Append(s, item), K, p, v)
<1> DEFINE t == Append(s, item)
<1>1. /\ Len(s) \in Nat /\ DOMAIN s = 1..Len(s)
      /\ DOMAIN t = 1..Len(s) + 1 /\ t[Len(s) + 1] = item /\ \A i \in 1..Len(s) : t[i] = s[i]
  BY Appended
<1> HIDE DEF t
<1>2. \A i \in DOMAIN t : t[i] \in K => i \in DOMAIN s /\ s[i] \in K /\ t[i] = s[i]
  BY <1>1
<1>3. \A i \in DOMAIN s : i \in DOMAIN t /\ t[i] = s[i]
  BY <1>1
<1>4. Latest(t, K, p, v)
  BY <1>2, <1>3 DEF Latest
<1>5. QED
  BY <1>4 DEF t

LEMMA LatestAdded ==
  ASSUME NEW S, NEW s \in Seq(S), NEW item \in S, NEW K, item \in K, NEW p
  PROVE  Latest(Append(s, item), K, p, item)
<1> DEFINE t == Append(s, item)
<1>1. Len(s) \in Nat /\ DOMAIN t = 1..Len(s) + 1 /\ t[Len(s) + 1] = item
  BY Appended
<1> HIDE DEF t
<1>2. \A i \in DOMAIN t : (\A j \in DOMAIN t : t[j] \in K => j <= i) => i = Len(s) + 1
  BY <1>1
<1>3. Latest(t, K, p, item)
  BY <1>1, <1>2 DEF Latest
<1>4. QED
  BY <1>3 DEF t

LEMMA LatestTaken ==
  ASSUME NEW S, NEW s \in Seq(S), s # <<>>, NEW K, NEW p, NEW v, Latest(s, K, p, v)
  PROVE  Latest(Tail(s), K, IF Head(s) \in K THEN Head(s) ELSE p, v)
<1> DEFINE t == Tail(s)
           n == Len(s)
           q == IF Head(s) \in K THEN Head(s) ELSE p
<1>1. /\ n \in Nat /\ n >= 1 /\ DOMAIN s = 1..n /\ Head(s) = s[1]
      /\ DOMAIN t = 1..n - 1 /\ \A i \in 1..n - 1 : t[i] = s[i + 1]
  BY Taken
<1> HIDE DEF t, n
<1>2. ASSUME NEW i \in DOMAIN t, t[i] \in K, \A j \in DOMAIN t : t[j] \in K => j <= i
      PROVE  t[i] = v
  <2>1. i + 1 \in DOMAIN s /\ s[i + 1] = t[i] /\ i \in Int
    BY <1>1
  <2>2. ASSUME NEW j \in DOMAIN s, s[j] \in K PROVE j <= i + 1
    <3>1. CASE j >= 2
      <4>1. j - 1 \in DOMAIN t /\ t[j - 1] = s[j]
        BY <1>1, <3>1
      <4>2. j - 1 <= i
        BY <1>2, <2>2, <4>1
      <4>3. QED
        BY <1>1, <2>1, <4>2
    <3>2. CASE ~(j >= 2)
      BY <1>1, <3>2
    <3>3. QED
      BY <3>1, <3>2
  <2>3. QED
    BY <1>2, <2>1, <2>2 DEF Latest
<1>3. ASSUME \A i \in DOMAIN t : t[i] \notin K
      PROVE  q = v
  <2>1. ASSUME NEW j \in DOMAIN s, s[j] \in K PROVE j = 1
    <3>1. CASE j >= 2
      <4>1. j - 1 \in DOMAIN t /\ t[j - 1] = s[j]
        BY <1>1, <3>1
      <4>2. QED
        BY <1>3, <2>1, <4>1
    <3>2. QED
      BY <1>1, <3>1
  <2>2. CASE s[1] \in K
    BY <1>1, <2>1, <2>2 DEF Latest
  <2>3. CASE s[1] \notin K
    BY <1>1, <2>1, <2>3 DEF Latest
  <2>4. QED
    BY <2>2, <2>3
<1> HIDE DEF q
<1>4. Latest(t, K, q, v)
  BY <1>2, <1>3 DEF Latest
<1>5. QED
  BY <1>4 DEF t, q

----------------------------------------------------------------------------
(* The sink's map: once all its work is done the sink names the windows v.   *)
MapItems == {UpdatePids(ws) : ws \in SUBSET Windows}

UpToDate(s, p, v) == Latest(s, MapItems, UpdatePids(p), UpdatePids(v))

LEMMA MapItem ==
  ASSUME NEW item \in InputWork
  PROVE  /\ item \in MapItems <=> item.type = "UpdatePids"
         /\ item \in MapItems => item = UpdatePids(item.windows)
<1>1. CASE item \in InputEvents
  <2>1. PICK w \in Windows : item \in {FocusChange(w), KeyEvent(w), MouseDown(w), MouseUp(w)}
    BY <1>1 DEF InputEvents
  <2>2. QED
    BY <2>1 DEF FocusChange, KeyEvent, MouseDown, MouseUp, MapItems, UpdatePids
<1>2. CASE item \in {UpdatePids(ws) : ws \in SUBSET Windows} \cup {Shutdown}
  BY <1>2 DEF UpdatePids, Shutdown, MapItems
<1>3. QED
  BY <1>1, <1>2 DEF InputWork

LEMMA SameMap ==
  ASSUME NEW p, NEW v
  PROVE  /\ UpdatePids(p) = UpdatePids(v) <=> p = v
         /\ UpdatePids(v).windows = v /\ UpdatePids(v).type = "UpdatePids"
<1>1. UpdatePids(p).windows = p /\ UpdatePids(v).windows = v /\ UpdatePids(v).type = "UpdatePids"
  BY DEF UpdatePids
<1>2. QED
  BY <1>1

LEMMA UpToDateMeans ==
  ASSUME NEW s \in Seq(InputWork), NEW p, NEW v
  PROVE  LET maps == {i \in DOMAIN s : s[i].type = "UpdatePids"}
         IN  UpToDate(s, p, v) <=>
               /\ maps = {} => p = v
               /\ \A i \in maps : (\A j \in maps : j <= i) => s[i].windows = v
<1>1. ASSUME NEW i \in DOMAIN s
      PROVE  /\ s[i] \in MapItems <=> s[i].type = "UpdatePids"
             /\ s[i] \in MapItems => (s[i] = UpdatePids(v) <=> s[i].windows = v)
  <2>1. s[i] \in InputWork
    BY LenProperties
  <2>2. QED
    BY <2>1, MapItem, SameMap
<1>2. QED
  BY <1>1, SameMap DEF UpToDate, Latest

LEMMA UpToDateOther ==
  ASSUME NEW s \in Seq(InputWork), NEW item \in InputWork, item.type # "UpdatePids",
         NEW p, NEW v, UpToDate(s, p, v)
  PROVE  UpToDate(Append(s, item), p, v)
BY MapItem, LatestOther DEF UpToDate

LEMMA UpToDateMap ==
  ASSUME NEW s \in Seq(InputWork), NEW v \in SUBSET Windows, NEW p
  PROVE  UpToDate(Append(s, UpdatePids(v)), p, v)
BY MapItem, ItemTypes, SameMap, LatestAdded DEF UpToDate

LEMMA UpToDateTaken ==
  ASSUME NEW s \in Seq(InputWork), s # <<>>, NEW p, NEW v, UpToDate(s, p, v)
  PROVE  UpToDate(Tail(s), IF Head(s).type = "UpdatePids" THEN Head(s).windows ELSE p, v)
<1>1. Head(s) \in InputWork
  BY HeadTailProperties
<1>2. Latest(Tail(s), MapItems, IF Head(s) \in MapItems THEN Head(s) ELSE UpdatePids(p),
             UpdatePids(v))
  BY LatestTaken DEF UpToDate
<1>3. CASE Head(s).type = "UpdatePids"
  BY <1>1, <1>2, <1>3, MapItem DEF UpToDate
<1>4. CASE Head(s).type # "UpdatePids"
  BY <1>1, <1>2, <1>4, MapItem DEF UpToDate
<1>5. QED
  BY <1>3, <1>4

Unsettled == InPass \cup {"closing", "renegotiate"}

LEMMA SinkInvIs ==
  InputTypeOK => (SinkInv <=> (pc \notin Unsettled => UpToDate(work, sink_pids, Present(live))))
BY UpToDateMeans DEF SinkInv, Maps, Unsettled, InputTypeOK

(* A poll that has nothing to say leaves the same windows tracked.           *)
LEMMA NoNews ==
  ASSUME TypeOK, NEW snapshot \in [Windows -> Option(SnapshotWindow)], Reconcile(snapshot),
         events' = {}
  PROVE  Present(live') = Present(live)
<1> DEFINE ours == Ours(pids, snapshot)
<1>1. /\ ours \in [Windows -> Option(SnapshotWindow)] /\ DiffEvents(live, ours) = {}
      /\ live' = DiffLive(live, ours) /\ live' \in [Windows -> Option(Tracked)]
      /\ live \in [Windows -> Option(Tracked)]
  BY OursType, DiffLiveType DEF Reconcile, TypeOK
<1> HIDE DEF ours
<1>2. ASSUME NEW w \in Windows PROVE live'[w] = None <=> live[w] = None
  <2>1. live[w] = None <=> ours[w] = None
    BY <1>1, DiffComplete
  <2>2. live[w] # None => Updated(live[w], ours[w]) # None
    <3>1. live[w] # None => Updated(live[w], ours[w]) \in Tracked
      BY <1>1, <2>1 DEF Updated, Option, SnapshotWindow, Tracked
    <3>2. QED
      BY <3>1, TrackerAssumption
  <2>3. QED
    BY <1>1, <2>1, <2>2 DEF DiffLive
<1>3. QED
  BY <1>1, <1>2 DEF Present

LEMMA SinkStep ==
  ASSUME TypeOK, HostInv, SinkInv, Next
  PROVE  SinkInv'
<1>1. work \in Seq(InputWork) /\ (pc \notin Unsettled => UpToDate(work, sink_pids, Present(live)))
  BY SinkInvIs DEF TypeOK, InputTypeOK
<1>2. SUFFICES ASSUME pc' \notin Unsettled PROVE UpToDate(work', sink_pids', Present(live'))
  <2>1. work' \in Seq(InputWork)
    BY HostTypeStep DEF TypeOK, InputTypeOK
  <2>2. QED
    BY <1>2, <2>1, UpToDateMeans DEF SinkInv, Maps, Unsettled
<1>3. CASE Poll
  <2>1. PICK snapshot \in [Windows -> Option(SnapshotWindow)] : Reconcile(snapshot)
    BY <1>3 DEF Poll
  <2>2. events' = {} /\ pc \notin Unsettled /\ UNCHANGED <<work, sink_pids>>
    BY <1>2, <2>1 DEF Reconcile, Unsettled, InPass, besideVars, inputVars, sinkVars
  <2>3. QED
    BY <1>1, <2>1, <2>2, NoNews
<1>4. CASE Refresh /\ UNCHANGED live
  <2>1. Present(live) \in SUBSET Windows
    BY DEF Present, TypeOK
  <2>2. QED
    BY <1>1, <1>4, <2>1, UpToDateMap DEF Refresh, sinkVars
<1>5. CASE Worker
  <2>1. /\ work # <<>> /\ work' = Tail(work) /\ UNCHANGED <<pc, live>>
        /\ sink_pids' = IF Head(work).type = "UpdatePids" THEN Head(work).windows ELSE sink_pids
    BY <1>5 DEF Worker, Work, Takes, Aside, loopVars
  <2>2. QED
    BY <1>1, <1>2, <2>1, UpToDateTaken
<1>6. ASSUME NEW item \in InputWork, item.type # "UpdatePids", work' = Append(work, item),
             UNCHANGED <<sink_pids, live>>, pc \notin Unsettled
      PROVE  UpToDate(work', sink_pids', Present(live'))
  BY <1>1, <1>6, UpToDateOther
<1>7. CASE UNCHANGED <<work, sink_pids, live>> /\ pc \notin Unsettled
  BY <1>1, <1>7
<1>8. CASE StopWorker /\ UNCHANGED live /\ pc \notin Unsettled
  BY <1>6, <1>8, ItemTypes DEF StopWorker, Shutdown, sinkVars
<1>9. CASE Serve \/ WatcherRuns \/ Answer \/ OpenChannel \/ Watch \/ Settle
  <2>1. UNCHANGED live /\ pc \notin Unsettled
    BY <1>2, <1>9
       DEF Serve, WatcherRuns, Answer, OpenChannel, Watch, Settle, SetUp, Unsettled, InPass
  <2>2. UNCHANGED <<work, sink_pids>> \/ StopWorker
    BY <1>9
       DEF Serve, WatcherRuns, Answer, OpenChannel, Watch, Settle, StartWorker, inputVars, sinkVars
  <2>3. QED
    BY <1>7, <1>8, <2>1, <2>2
<1>10. CASE Check \/ Finish \/ Renegotiated \/ Teardown \/ StopWatcher \/ Close
  <2>1. UNCHANGED live
    BY <1>10 DEF Check, Finish, Renegotiated, Teardown, StopWatcher, Close
  <2>2. CASE Finish \/ Renegotiated
    BY <1>2, <1>4, <2>1, <2>2 DEF Finish, Renegotiated, Unsettled
  <2>3. CASE Check \/ Teardown \/ StopWatcher \/ Close
    <3>1. pc \notin Unsettled
      BY <2>3 DEF Check, Teardown, StopWatcher, Close, Unsettled, InPass
    <3>2. UNCHANGED <<work, sink_pids>> \/ StopWorker
      BY <2>3 DEF Check, Teardown, StopWatcher, Close, besideVars, inputVars, sinkVars
    <3>3. QED
      BY <1>7, <1>8, <2>1, <3>1, <3>2
  <2>4. QED
    BY <1>10, <2>2, <2>3
<1>11. CASE \E e \in events : EventStep(e)
  BY <1>2, <1>11, EventParts DEF Unsettled
<1>12. CASE Unsubscribe \/ \E v \in Windows : Unroute(v) \/ CloseUnsubscribed(v)
  BY <1>2, <1>12 DEF Unsubscribe, Unroute, CloseUnsubscribed, Unsettled
<1>13. CASE UserActs
  <2>1. UNCHANGED <<live, pc>> /\ pc \notin Unsettled
    BY <1>2, <1>13 DEF UserActs, Aside, loopVars
  <2>2. CASE MirrorLost
    BY <1>7, <2>1, <2>2 DEF MirrorLost, sinkVars
  <2>3. ASSUME NEW w \in Windows,
               UserFocuses(w) \/ UserTypes(w) \/ UserPresses(w) \/ UserReleases(w)
        PROVE  UpToDate(work', sink_pids', Present(live'))
    <3>1. PICK item \in InputWork : Relays(item) /\ item.type # "UpdatePids"
      BY <2>3, ItemTypes DEF UserFocuses, UserTypes, UserPresses, UserReleases, FocusChange,
         KeyEvent, MouseDown, MouseUp
    <3>2. QED
      BY <1>6, <2>1, <3>1 DEF Relays, sinkVars
  <2>4. Present(view.mirrors) \subseteq Windows
    BY DEF TypeOK, World, Present
  <2>5. QED
    BY <1>13, <2>2, <2>3, <2>4 DEF UserActs
<1>14. CASE Frames \/ Forwarder \/ ClientUnsubscribes \/ PeerDisconnects
  <2>1. UNCHANGED <<live, pc, work, sink_pids>>
    BY <1>14
       DEF Frames, Forwarder, ClientUnsubscribes, PeerDisconnects, Aside, loopVars, inputVars,
           sinkVars
  <2>2. QED
    BY <1>2, <1>7, <2>1
<1>15. QED
  BY <1>3, <1>5, <1>9, <1>10, <1>11, <1>12, <1>13, <1>14 DEF Next, LoopStep

LEMMA SinkInit == Init => SinkInv
BY EmptySeq DEF Init, InputInit, SinkInv, Maps, Present

LEMMA SinkAtRest == SinkInv => SinkFollows
BY DEF SinkInv, SinkFollows, AtRest, InPass

(* Between passes the sink's map, or the last one on its way to it, names    *)
(* exactly the tracked windows (SinkFollows; the UpdatePids sends of the     *)
(* loop, which come after any renegotiation).                                *)
THEOREM SinkAlwaysFollows == Spec => []SinkFollows
<1>1. TypeOK /\ HostInv /\ SinkInv /\ [Next]_vars => SinkInv'
  <2>1. CASE UNCHANGED vars
    BY <2>1 DEF vars, loopVars, besideVars, inputVars, sinkVars, SinkInv, Maps
  <2>2. QED
    BY <2>1, SinkStep
<1>2. QED
  BY <1>1, HostInvAlways, SinkInit, SinkAtRest, PTL DEF Spec

----------------------------------------------------------------------------
(* Mappings and the button, which depend on a window's whole history.  What  *)
(* a message does to the mapping that is shown.                              *)
LEMMA BufferedDelivered ==
  ASSUME NEW v \in World, NEW f \in DownFrame, f.type \in EventTypes \cup {"InputMapping"},
         NEW u \in Windows
  PROVE  /\ u # f.window => Deliver(v, f).buffered[u] = v.buffered[u]
         /\ f.type \notin {"WindowClosed", "InputMapping"} =>
              Deliver(v, f).buffered[u] = v.buffered[u]
         /\ u = f.window /\ f.type = "InputMapping" => Deliver(v, f).buffered[u] = f.mapping
<1>1. f.window \in Windows /\ v.buffered \in [Windows -> Option(Mappings)]
  BY FrameFields, WorldParts DEF EventTypes
<1>2. ASSUME NEW x, NEW m PROVE UpdateMirror(v, x, m).buffered = v.buffered
  BY DEF UpdateMirror, World
<1>3. CASE f.type = "WindowOpened"
  BY <1>3, OpenDelivered
<1>4. CASE f.type = "WindowClosed"
  <2>1. Deliver(v, f) = DestroyMirror(v, f.window)
    BY <1>4 DEF Deliver
  <2>2. DestroyMirror(v, f.window).buffered = [v.buffered EXCEPT ![f.window] = None]
    BY DEF DestroyMirror, World
  <2>3. QED
    BY <1>1, <1>4, <2>1, <2>2
<1>5. CASE f.type = "WindowResized"
  BY <1>2, <1>5 DEF Deliver
<1>6. CASE f.type = "WindowTitleChanged"
  BY <1>2, <1>6 DEF Deliver
<1>7. CASE f.type = "WindowMinimized"
  <2> DEFINE n == [v.mirrors[f.window] EXCEPT !.minimized = TRUE]
  <2>1. Deliver(v, f) = UpdateMirror(v, f.window, n)
    BY <1>7 DEF Deliver
  <2> HIDE DEF n
  <2>2. QED
    BY <1>2, <1>7, <2>1
<1>8. CASE f.type = "WindowRestored"
  <2> DEFINE n == [v.mirrors[f.window] EXCEPT !.minimized = FALSE]
  <2>1. Deliver(v, f) = UpdateMirror(v, f.window, n)
    BY <1>8 DEF Deliver
  <2> HIDE DEF n
  <2>2. QED
    BY <1>2, <1>8, <2>1
<1>9. CASE f.type = "InputMapping"
  <2> DEFINE b == [v EXCEPT !.buffered[f.window] = f.mapping]
             n == [v.mirrors[f.window] EXCEPT !.mapping = f.mapping]
  <2>1. Deliver(v, f) = UpdateMirror(b, f.window, n)
    BY <1>9 DEF Deliver
  <2>2. b.buffered = [v.buffered EXCEPT ![f.window] = f.mapping]
    BY DEF World
  <2>3. UpdateMirror(b, f.window, n).buffered = b.buffered
    BY DEF UpdateMirror, World
  <2> HIDE DEF b, n
  <2>4. QED
    BY <1>1, <1>9, <2>1, <2>2, <2>3
<1>10. QED
  BY <1>3, <1>4, <1>5, <1>6, <1>7, <1>8, <1>9 DEF EventTypes

(* A mirror stays until it is closed, and keeps its mapping.                 *)
LEMMA MirrorStays ==
  ASSUME NEW v \in World, NEW f \in DownFrame,
         f.type \in (EventTypes \cup {"InputMapping"}) \ {"WindowClosed"}, NEW u \in Windows,
         v.mirrors[u] # None
  PROVE  /\ Deliver(v, f).mirrors[u] # None
         /\ f.type # "InputMapping" => Deliver(v, f).mirrors[u].mapping = v.mirrors[u].mapping
         /\ f.type = "InputMapping" /\ u = f.window =>
              Deliver(v, f).mirrors[u].mapping = f.mapping
<1> DEFINE m == v.mirrors[u]
           n == Deliver(v, f).mirrors[u]
<1>1. m \in Mirror
  BY WorldParts DEF Option
<1>2. CASE f.type = "WindowOpened"
  BY <1>2, OpenDelivered
<1>3. CASE f.type # "WindowOpened" /\ u # f.window
  BY <1>3, HostDelivered DEF EventTypes, HostFrames
<1>4. CASE f.type # "WindowOpened" /\ u = f.window
  <2>1. n = MirrorAfter(m, f)
    BY <1>4, HostDelivered DEF EventTypes, HostFrames
  <2>2. /\ MirrorAfter(m, f) \in Mirror
        /\ f.type # "InputMapping" => MirrorAfter(m, f).mapping = m.mapping
        /\ f.type = "InputMapping" => MirrorAfter(m, f).mapping = f.mapping
    <3>1. CASE f.type = "WindowResized"
      BY <1>1, <3>1, FrameFields DEF MirrorAfter, Mirror
    <3>2. CASE f.type = "WindowTitleChanged"
      BY <1>1, <3>2, FrameFields DEF MirrorAfter, Mirror
    <3>3. CASE f.type = "WindowMinimized"
      <4> DEFINE k == [m EXCEPT !.minimized = TRUE]
      <4>1. MirrorAfter(m, f) = k
        BY <3>3 DEF MirrorAfter
      <4>2. k \in Mirror /\ k.mapping = m.mapping
        BY <1>1 DEF Mirror
      <4> HIDE DEF k
      <4>3. QED
        BY <3>3, <4>1, <4>2
    <3>4. CASE f.type = "WindowRestored"
      <4> DEFINE k == [m EXCEPT !.minimized = FALSE]
      <4>1. MirrorAfter(m, f) = k
        BY <3>4 DEF MirrorAfter
      <4>2. k \in Mirror /\ k.mapping = m.mapping
        BY <1>1 DEF Mirror
      <4> HIDE DEF k
      <4>3. QED
        BY <3>4, <4>1, <4>2
    <3>5. CASE f.type = "InputMapping"
      BY <1>1, <3>5, FrameFields DEF MirrorAfter, Mirror
    <3>6. QED
      BY <1>4, <3>1, <3>2, <3>3, <3>4, <3>5 DEF EventTypes
  <2>3. QED
    BY <1>4, <2>1, <2>2, TrackerAssumption
<1>5. QED
  BY <1>2, <1>3, <1>4

LEMMA MirrorNotMade ==
  ASSUME NEW v \in World, NEW f \in DownFrame, f.type \in EventTypes \cup {"InputMapping"},
         NEW u \in Windows, v.mirrors[u] = None, f.type = "WindowOpened" => u # f.window
  PROVE  Deliver(v, f).mirrors[u] = None
<1>1. CASE f.type = "WindowOpened"
  BY <1>1, OpenDelivered
<1>2. CASE f.type # "WindowOpened" /\ u # f.window
  BY <1>2, HostDelivered DEF EventTypes, HostFrames
<1>3. CASE f.type # "WindowOpened" /\ u = f.window
  BY <1>3, HostDelivered DEF EventTypes, HostFrames, MirrorAfter
<1>4. QED
  BY <1>1, <1>2, <1>3

LEMMA ShownKept ==
  ASSUME NEW v \in World, NEW f \in DownFrame, f.type \in EventTypes, NEW u \in Windows,
         u = f.window => f.type # "WindowClosed"
  PROVE  ShownIn(Deliver(v, f), u) = ShownIn(v, u)
<1>0. f.type # "InputMapping"
  BY DEF EventTypes
<1>1. Deliver(v, f).buffered[u] = v.buffered[u]
  <2>1. CASE u # f.window
    BY <2>1, BufferedDelivered
  <2>2. CASE u = f.window
    BY <1>0, <2>2, BufferedDelivered
  <2>3. QED
    BY <2>1, <2>2
<1>2. CASE u # f.window
  <2>1. Deliver(v, f).mirrors[u] = v.mirrors[u]
    BY <1>2, HostDelivered, OpenDelivered DEF EventTypes, HostFrames
  <2>2. QED
    BY <1>1, <2>1 DEF ShownIn
<1>3. CASE u = f.window
  <2>1. CASE v.mirrors[u] # None
    <3>1. /\ Deliver(v, f).mirrors[u] # None
          /\ Deliver(v, f).mirrors[u].mapping = v.mirrors[u].mapping
      BY <1>0, <1>3, <2>1, MirrorStays
    <3>2. QED
      BY <2>1, <3>1 DEF ShownIn
  <2>2. CASE v.mirrors[u] = None /\ f.type = "WindowOpened"
    BY <1>1, <1>3, <2>2, OpenDelivered DEF ShownIn
  <2>3. CASE v.mirrors[u] = None /\ f.type # "WindowOpened"
    <3>1. Deliver(v, f).mirrors[u] = None
      BY <2>3, MirrorNotMade
    <3>2. QED
      BY <1>1, <2>3, <3>1 DEF ShownIn
  <2>4. QED
    BY <2>1, <2>2, <2>3
<1>4. QED
  BY <1>2, <1>3

LEMMA ShownMapped ==
  ASSUME NEW v \in World, NEW f \in DownFrame, f.type = "InputMapping", NEW u \in Windows
  PROVE  ShownIn(Deliver(v, f), u) = IF u = f.window THEN f.mapping ELSE ShownIn(v, u)
<1>1. f.mapping \in Mappings /\ f.mapping # None
  BY FrameFields, DataAssumption
<1>2. CASE u # f.window
  BY <1>2, BufferedDelivered, HostDelivered DEF HostFrames, ShownIn
<1>3. CASE u = f.window
  <2>1. Deliver(v, f).buffered[u] = f.mapping
    BY <1>3, BufferedDelivered
  <2>2. CASE v.mirrors[u] # None
    BY <1>3, <2>2, MirrorStays DEF ShownIn
  <2>3. CASE v.mirrors[u] = None
    <3>1. Deliver(v, f).mirrors[u] = None
      BY <2>3, MirrorNotMade
    <3>2. QED
      BY <1>1, <1>3, <2>1, <3>1 DEF ShownIn, OrIdentity
  <2>4. QED
    BY <2>2, <2>3
<1>4. QED
  BY <1>2, <1>3

----------------------------------------------------------------------------
(* What a step can do to the messages, the mappings, and the worker's queue. *)
TellsEvent ==
  /\ ~disconnected
  /\ \E e \in events : /\ view' = Deliver(view, e) /\ EventFits(e)
                       /\ e \in DownFrame /\ e.type \in EventTypes

LEMMA MappingSteps ==
  ASSUME TypeOK, HostInv, Next
  PROVE  \/ Frames
         \/ Forwarder
         \/ /\ UNCHANGED <<meta, last_sent, sending>>
            /\ \A w \in Windows : last_meta'[w] = None \/ last_meta'[w] = last_meta[w]
            /\ UNCHANGED view \/ TellsEvent
<1>1. CASE \E e \in events : EventStep(e)
  <2>1. PICK e \in events : EventStep(e)
    BY <1>1
  <2>2. e.window \in Windows /\ EventFits(e) /\ e.type \in EventTypes /\ e \in DownFrame
    BY <2>1, EventParts DEF TypeOK
  <2>3. UNCHANGED view \/ TellsEvent
    BY <2>1, <2>2, EventParts DEF Tell, TellsEvent
  <2>4. UNCHANGED mappingVars \/ \E s : Captures(e.window, s)
    BY <2>1
       DEF EventStep, OpenTrack, OpenFails, AnnounceApp, AnnounceWindow, CloseRuntime, RemoveTrack,
           Pause, Restart, Relabel, besideVars
  <2>5. QED
    BY <2>2, <2>3, <2>4 DEF Captures, FreshSinks, mappingVars
<1>2. CASE Poll \/ Unsubscribe
  BY <1>2 DEF Poll, Reconcile, Unsubscribe, besideVars, toldVars, mappingVars
<1>3. CASE Serve \/ WatcherRuns \/ Answer \/ OpenChannel \/ Watch \/ Settle
  BY <1>3
     DEF Serve, WatcherRuns, Answer, OpenChannel, Watch, Settle, SetUp, toldVars, mappingVars
<1>4. CASE Check \/ Finish \/ Renegotiated \/ Teardown \/ StopWatcher \/ Close
             \/ \E v \in Windows : Unroute(v) \/ CloseUnsubscribed(v)
  BY <1>4
     DEF Check, Finish, Renegotiated, Teardown, StopWatcher, Close, Unroute, CloseUnsubscribed, Captures,
         FreshSinks, toldVars, besideVars, mappingVars
<1>5. CASE Worker \/ UserActs \/ ClientUnsubscribes \/ PeerDisconnects
  BY <1>5 DEF Worker, UserActs, ClientUnsubscribes, PeerDisconnects, toldVars, mappingVars
<1>6. QED
  BY <1>1, <1>2, <1>3, <1>4, <1>5 DEF Next, LoopStep

LEMMA WorkSteps ==
  ASSUME TypeOK, HostInv, Next
  PROVE  \/ Worker
         \/ UserActs
         \/ /\ UNCHANGED <<held, pressed>>
            /\ \/ UNCHANGED work
               \/ \E item \in InputWork : /\ item.type \in {"UpdatePids", "Shutdown"}
                                          /\ work' = Append(work, item)
<1>1. StopWorker => \E item \in InputWork : /\ item.type \in {"UpdatePids", "Shutdown"}
                                            /\ work' = Append(work, item)
  BY ItemTypes DEF StopWorker, Shutdown
<1>2. Refresh => \E item \in InputWork : /\ item.type \in {"UpdatePids", "Shutdown"}
                                         /\ work' = Append(work, item)
  <2>1. UpdatePids(Present(live)) \in InputWork
    BY ItemTypes DEF Present, TypeOK
  <2>2. QED
    BY <2>1 DEF Refresh, UpdatePids
<1>3. CASE \E e \in events : EventStep(e)
  BY <1>3
     DEF EventStep, OpenTrack, OpenFails, AnnounceApp, AnnounceWindow, CloseRuntime, RemoveTrack,
         Pause, Restart, Relabel, Passed, besideVars, inputVars, sinkVars, userVars
<1>4. CASE Poll \/ Unsubscribe
  BY <1>4 DEF Poll, Reconcile, Unsubscribe, besideVars, inputVars, sinkVars, userVars
<1>5. CASE Serve \/ WatcherRuns \/ Answer \/ OpenChannel \/ Watch \/ Settle
  BY <1>1, <1>5
     DEF Serve, WatcherRuns, Answer, OpenChannel, Watch, Settle, StartWorker, StopWorker,
         inputVars, sinkVars, userVars
<1>6. CASE Check \/ Finish \/ Renegotiated \/ Teardown \/ StopWatcher \/ Close
             \/ \E v \in Windows : Unroute(v) \/ CloseUnsubscribed(v)
  <2>1. \/ UNCHANGED inputVars \/ StopWorker \/ Refresh
    BY <1>6
       DEF Check, Finish, Renegotiated, Teardown, StopWatcher, Close, Unroute, CloseUnsubscribed, besideVars
  <2>2. QED
    BY <1>1, <1>2, <2>1 DEF StopWorker, Refresh, inputVars, sinkVars, userVars
<1>7. CASE Frames \/ Forwarder \/ ClientUnsubscribes \/ PeerDisconnects
  BY <1>7
     DEF Frames, Forwarder, ClientUnsubscribes, PeerDisconnects, inputVars, sinkVars, userVars
<1>8. QED
  BY <1>3, <1>4, <1>5, <1>6, <1>7 DEF Next, LoopStep

LEMMA LiveSteps ==
  ASSUME TypeOK, HostInv, Next
  PROVE  /\ seen \subseteq seen'
         /\ disconnected => disconnected'
         /\ \A w \in Windows :
              live[w] = None /\ live'[w] # None =>
                /\ w \in seen' /\ ("reappear" \notin Faults => w \notin seen)
                /\ UNCHANGED <<mappingVars, inputVars, view>>
<1>1. CASE Poll
  <2>1. PICK snapshot \in [Windows -> Option(SnapshotWindow)] : Reconcile(snapshot)
    BY <1>1 DEF Poll
  <2>2. ASSUME NEW w \in Windows, live[w] = None, live'[w] # None
        PROVE  w \in seen' /\ ("reappear" \notin Faults => w \notin seen)
    <3>1. Ours(pids, snapshot)[w] # None /\ w \in Present(live')
      BY <2>1, <2>2 DEF Reconcile, DiffLive, Present
    <3>2. QED
      BY <2>1, <2>2, <3>1 DEF Reconcile
  <2>3. seen \subseteq seen' /\ UNCHANGED <<disconnected, mappingVars, inputVars, view>>
    BY <2>1 DEF Reconcile, besideVars, toldVars
  <2>4. QED
    BY <2>2, <2>3
<1>2. CASE Unsubscribe
  BY <1>2 DEF Unsubscribe, Without
<1>3. CASE \E e \in events : EventStep(e)
  <2>1. UNCHANGED <<live, disconnected>>
    BY <1>3, EventParts
  <2>2. UNCHANGED seen
    BY <1>3
       DEF EventStep, OpenTrack, OpenFails, AnnounceApp, AnnounceWindow, CloseRuntime, RemoveTrack,
           Pause, Restart, Relabel, Passed
  <2>3. QED
    BY <2>1, <2>2
<1>4. CASE Serve \/ WatcherRuns \/ Answer \/ OpenChannel \/ Watch \/ Settle
  BY <1>4 DEF Serve, WatcherRuns, Answer, OpenChannel, Watch, Settle, SetUp
<1>5. CASE Check \/ Finish \/ Renegotiated \/ Teardown \/ StopWatcher \/ Close
             \/ \E v \in Windows : Unroute(v) \/ CloseUnsubscribed(v)
  BY <1>5
     DEF Check, Finish, Renegotiated, Teardown, StopWatcher, Close, Unroute, CloseUnsubscribed, besideVars
<1>6. CASE Frames \/ Forwarder \/ Worker \/ UserActs \/ ClientUnsubscribes \/ PeerDisconnects
  BY <1>6
     DEF Frames, Forwarder, Worker, UserActs, ClientUnsubscribes, PeerDisconnects, Aside, loopVars
<1>7. QED
  BY <1>1, <1>2, <1>3, <1>4, <1>5, <1>6 DEF Next, LoopStep

----------------------------------------------------------------------------
(* The changes on their way to the forwarder.                                *)
Entries == [window: Windows, mapping: Mappings]
Entry(w, m) == [window |-> w, mapping |-> m]
MetaItems(w) == {Entry(w, m) : m \in Mappings}

MetaLatest(s, w, p, v) == Latest(s, MetaItems(w), Entry(w, p), Entry(w, v))

LEMMA MetaItem ==
  ASSUME NEW item \in Entries, NEW w \in Windows
  PROVE  /\ item.window \in Windows /\ item.mapping \in Mappings
         /\ item \in MetaItems(w) <=> item.window = w
         /\ \A v : item \in MetaItems(w) => (item = Entry(w, v) <=> item.mapping = v)
         /\ item.window = w => item = Entry(w, item.mapping)
BY DEF Entries, MetaItems, Entry

LEMMA SameEntry ==
  ASSUME NEW w, NEW p, NEW v
  PROVE  Entry(w, p) = Entry(w, v) <=> p = v
<1>1. Entry(w, p).mapping = p /\ Entry(w, v).mapping = v
  BY DEF Entry
<1>2. QED
  BY <1>1

LEMMA MetaMeans ==
  ASSUME NEW s \in Seq(Entries), NEW w \in Windows, NEW p, NEW v
  PROVE  LET own == {i \in DOMAIN s : s[i].window = w}
         IN  MetaLatest(s, w, p, v) <=>
               /\ own = {} => p = v
               /\ \A i \in own : (\A j \in own : j <= i) => s[i].mapping = v
<1>1. ASSUME NEW i \in DOMAIN s
      PROVE  /\ s[i] \in MetaItems(w) <=> s[i].window = w
             /\ s[i] \in MetaItems(w) => (s[i] = Entry(w, v) <=> s[i].mapping = v)
  <2>1. s[i] \in Entries
    BY LenProperties
  <2>2. QED
    BY <2>1, MetaItem
<1>2. QED
  BY <1>1, SameEntry DEF MetaLatest, Latest

LEMMA MetaFitsMeans ==
  ASSUME meta \in Seq(Entries), NEW w \in Windows
  PROVE  MetaFits(w) <=>
           (last_meta[w] # None => MetaLatest(meta, w, Assumed(w), last_meta[w]))
BY MetaMeans DEF MetaFits, MetaOf

LEMMA MetaStep ==
  ASSUME TypeOK, HostInv, Next, NEW w \in Windows, live[w] # None, MetaFits(w)
  PROVE  MetaFits(w)'
<1>1. meta \in Seq(Entries) /\ meta' \in Seq(Entries) /\ last_sent \in [Windows -> Option(Mappings)]
      /\ last_meta \in [Windows -> Option(Mappings)]
  BY HostTypeStep DEF TypeOK, MappingTypeOK, Entries
<1>2. last_meta[w] # None => MetaLatest(meta, w, Assumed(w), last_meta[w])
  BY <1>1, MetaFitsMeans
<1>3. SUFFICES ASSUME last_meta'[w] # None
               PROVE  MetaLatest(meta', w, OrIdentity(last_sent'[w]), last_meta'[w])
  <2>1. MetaFits(w)' <=>
          (last_meta'[w] # None => MetaLatest(meta', w, OrIdentity(last_sent'[w]), last_meta'[w]))
    BY <1>1, MetaMeans DEF MetaFits, MetaOf, Assumed
  <2>2. QED
    BY <1>3, <2>1
<1>4. CASE Frames
  <2>1. PICK u \in Windows, m \in Mappings : FrameArrives(u, m)
    BY <1>4 DEF Frames
  <2>2. /\ Entry(u, m) \in Entries /\ meta' = Append(meta, Entry(u, m))
        /\ last_meta' = [last_meta EXCEPT ![u] = m] /\ UNCHANGED last_sent
    BY <2>1 DEF FrameArrives, Entry, Entries
  <2>3. CASE u = w
    <3>1. last_meta'[w] = m /\ Entry(w, m) \in MetaItems(w)
      BY <1>1, <2>2, <2>3 DEF MetaItems
    <3>2. Latest(meta', MetaItems(w), Entry(w, OrIdentity(last_sent'[w])), Entry(w, m))
      BY <1>1, <2>2, <2>3, <3>1, LatestAdded
    <3>3. QED
      BY <3>1, <3>2 DEF MetaLatest
  <2>4. CASE u # w
    <3>1. last_meta'[w] = last_meta[w] /\ Entry(u, m) \notin MetaItems(w)
      <4>1. Entry(u, m).window = u
        BY DEF Entry
      <4>2. QED
        BY <1>1, <2>2, <2>4, <4>1, MetaItem
    <3>2. Latest(meta', MetaItems(w), Entry(w, Assumed(w)), Entry(w, last_meta[w]))
      BY <1>1, <1>2, <1>3, <2>2, <3>1, LatestOther DEF MetaLatest
    <3>3. QED
      BY <2>2, <3>1, <3>2 DEF MetaLatest, Assumed
  <2>5. QED
    BY <2>3, <2>4
<1>5. CASE Forwarder /\ ForwardMeta(live)
  <2>1. meta # <<>> /\ meta' = Tail(meta) /\ UNCHANGED last_meta
    BY <1>5 DEF ForwardMeta
  <2>2. Head(meta) \in Entries
    BY <1>1, <2>1, HeadTailProperties
  <2>3. Latest(meta', MetaItems(w),
               IF Head(meta) \in MetaItems(w) THEN Head(meta) ELSE Entry(w, Assumed(w)),
               Entry(w, last_meta[w]))
    BY <1>1, <1>2, <1>3, <2>1, LatestTaken DEF MetaLatest
  <2>4. CASE Head(meta).window = w
    <3> DEFINE m == Head(meta).mapping
    <3>1. Head(meta) \in MetaItems(w) /\ Head(meta) = Entry(w, m) /\ m \in Mappings
      BY <2>2, <2>4, MetaItem
    <3>2. OrIdentity(last_sent'[w]) = m
      <4>1. CASE ShouldSend(last_sent[w], m)
        <5>1. last_sent'[w] = m
          BY <1>1, <1>5, <2>4, <4>1 DEF ForwardMeta
        <5>2. QED
          BY <3>1, <5>1, DataAssumption DEF OrIdentity
      <4>2. CASE ~ShouldSend(last_sent[w], m)
        <5>1. last_sent'[w] = last_sent[w]
          BY <1>5, <2>4, <4>2 DEF ForwardMeta
        <5>2. QED
          BY <4>2, <5>1 DEF OrIdentity, ShouldSend
      <4>3. QED
        BY <4>1, <4>2
    <3>3. QED
      BY <2>1, <2>3, <3>1, <3>2 DEF MetaLatest
  <2>5. CASE Head(meta).window # w
    <3>1. Head(meta) \notin MetaItems(w)
      BY <2>2, <2>5, MetaItem
    <3>2. last_sent'[w] = last_sent[w]
      BY <1>1, <1>5, <2>5 DEF ForwardMeta
    <3>3. QED
      BY <2>1, <2>3, <3>1, <3>2 DEF MetaLatest, Assumed
  <2>6. QED
    BY <2>4, <2>5
<1>6. CASE Forwarder /\ MappingSent
  BY <1>2, <1>3, <1>6 DEF MappingSent, Assumed
<1>7. CASE /\ UNCHANGED <<meta, last_sent, sending>>
           /\ \A x \in Windows : last_meta'[x] = None \/ last_meta'[x] = last_meta[x]
  BY <1>2, <1>3, <1>7 DEF Assumed
<1>8. QED
  BY <1>4, <1>5, <1>6, <1>7, MappingSteps DEF Forwarder

LEMMA ShownStep ==
  ASSUME TypeOK, HostInv, Next, NEW w \in Windows, live[w] # None, ShownFits(w)
  PROVE  ShownFits(w)'
<1>1. SUFFICES ASSUME ~disconnected'
               PROVE  IF sending' # None /\ sending'.window = w
                      THEN sending'.mapping = Assumed(w)' ELSE ShownIn(view', w) = Assumed(w)'
  BY DEF ShownFits
<1>2. /\ ~disconnected
      /\ IF sending # None /\ sending.window = w
         THEN sending.mapping = Assumed(w) ELSE ShownIn(view, w) = Assumed(w)
  BY <1>1, LiveSteps DEF ShownFits
<1>3. /\ last_sent \in [Windows -> Option(Mappings)] /\ view \in World
      /\ sending # None =>
           /\ sending \in DownFrame /\ sending.type = "InputMapping"
           /\ sending.window \in Windows /\ sending.mapping \in Mappings
  <2>1. sending # None => sending \in {InputMapping(x, m) : x \in Windows, m \in Mappings}
    BY DEF TypeOK, MappingTypeOK, Option
  <2>2. QED
    BY <2>1 DEF TypeOK, MappingTypeOK, DownFrame, InputMapping
<1>4. CASE UNCHANGED <<sending, last_sent, view>>
  BY <1>2, <1>4 DEF Assumed
<1>5. CASE TellsEvent /\ UNCHANGED <<sending, last_sent>>
  <2>1. PICK e \in events : /\ view' = Deliver(view, e) /\ EventFits(e)
                            /\ e \in DownFrame /\ e.type \in EventTypes
    BY <1>5 DEF TellsEvent
  <2>2. w = e.window => e.type # "WindowClosed"
    BY <2>1 DEF EventFits
  <2>3. ShownIn(view', w) = ShownIn(view, w)
    BY <1>3, <2>1, <2>2, ShownKept
  <2>4. QED
    BY <1>2, <1>5, <2>3 DEF Assumed
<1>6. CASE Forwarder /\ MappingSent
  <2>1. sending # None /\ sending' = None /\ UNCHANGED last_sent
    BY <1>6 DEF MappingSent
  <2>2. view' = Deliver(view, sending)
    BY <1>2, <1>6, <2>1 DEF Forwarder, ForwardMeta, Tell
  <2>3. ShownIn(view', w) = IF w = sending.window THEN sending.mapping ELSE ShownIn(view, w)
    BY <1>3, <2>1, <2>2, ShownMapped
  <2>4. QED
    BY <1>2, <2>1, <2>3 DEF Assumed
<1>7. CASE Forwarder /\ ForwardMeta(live)
  <2> DEFINE u == Head(meta).window
             m == Head(meta).mapping
  <2>1. sending = None /\ UNCHANGED view
    BY <1>7 DEF Forwarder, ForwardMeta, MappingSent
  <2>2. u \in Windows /\ m \in Mappings
    <3>1. Head(meta) \in Entries
      <4>1. meta \in Seq(Entries)
        BY DEF TypeOK, MappingTypeOK, Entries
      <4>2. meta # <<>>
        BY <1>7 DEF ForwardMeta
      <4>3. QED
        BY <4>1, <4>2, HeadTailProperties
    <3>2. QED
      BY <3>1 DEF Entries
  <2>3. CASE u # w
    <3>1. last_sent'[w] = last_sent[w] /\ (sending' = None \/ sending' = InputMapping(u, m))
      BY <1>3, <1>7, <2>1, <2>2, <2>3 DEF ForwardMeta
    <3>2. InputMapping(u, m).window = u
      BY DEF InputMapping
    <3>3. QED
      BY <1>2, <2>1, <2>3, <3>1, <3>2 DEF Assumed
  <2>4. CASE u = w /\ ShouldSend(last_sent[w], m)
    <3>1. last_sent'[w] = m /\ sending' = InputMapping(w, m)
      BY <1>3, <1>7, <2>2, <2>4 DEF ForwardMeta
    <3>2. sending'.window = w /\ sending'.mapping = m /\ sending' # None
      <4>1. sending'.window = w /\ sending'.mapping = m
        BY <3>1 DEF InputMapping
      <4>2. InputMapping(w, m) # None
        BY <2>2, ForwarderAssumption
      <4>3. QED
        BY <3>1, <4>1, <4>2
    <3>3. m # None
      BY <2>2, DataAssumption
    <3>4. QED
      BY <3>1, <3>2, <3>3 DEF Assumed, OrIdentity
  <2>5. CASE u = w /\ ~ShouldSend(last_sent[w], m)
    BY <1>2, <1>7, <2>1, <2>5 DEF ForwardMeta, Assumed
  <2>6. QED
    BY <2>3, <2>4, <2>5
<1>8. CASE Frames
  BY <1>2, <1>8 DEF Frames, FrameArrives, Assumed
<1>9. QED
  BY <1>4, <1>5, <1>6, <1>7, <1>8, MappingSteps DEF Forwarder

----------------------------------------------------------------------------
(* The worker's queue and the button.                                        *)
LEMMA ItemNames ==
  ASSUME NEW w, NEW u
  PROVE  /\ MouseDown(w).type = "MouseDown" /\ MouseUp(w).type = "MouseUp"
         /\ FocusChange(w).type = "FocusChange" /\ KeyEvent(w).type = "KeyEvent"
         /\ MouseDown(w).window = w /\ MouseUp(w).window = w
         /\ MouseDown(w) = MouseDown(u) <=> w = u
         /\ MouseUp(w) = MouseUp(u) <=> w = u
<1>1. MouseDown(w).window = w /\ MouseDown(u).window = u
  BY DEF MouseDown
<1>2. MouseUp(w).window = w /\ MouseUp(u).window = u
  BY DEF MouseUp
<1>3. QED
  BY <1>1, <1>2 DEF MouseDown, MouseUp, FocusChange, KeyEvent

LEMMA MouseItem ==
  ASSUME NEW item \in InputWork
  PROVE  /\ item.type = "MouseDown" => item = MouseDown(item.window)
         /\ item.type = "MouseUp" => item = MouseUp(item.window)
<1>1. CASE item \in InputEvents
  <2>1. PICK w \in Windows : item \in {FocusChange(w), KeyEvent(w), MouseDown(w), MouseUp(w)}
    BY <1>1 DEF InputEvents
  <2>2. QED
    BY <2>1 DEF FocusChange, KeyEvent, MouseDown, MouseUp
<1>2. CASE item \in {UpdatePids(ws) : ws \in SUBSET Windows} \cup {Shutdown}
  BY <1>2 DEF UpdatePids, Shutdown
<1>3. QED
  BY <1>1, <1>2 DEF InputWork

(* More work: a press must end, a release ends all that came before.         *)
LEMMA PressesAppended ==
  ASSUME NEW s \in Seq(InputWork), NEW item \in InputWork, NEW w
  PROVE  LET t == Append(s, item)
         IN  /\ ReleaseDue(s, w) => ReleaseDue(t, w)
             /\ PressesEnd(s, w) /\ item # MouseDown(w) => PressesEnd(t, w)
             /\ item = MouseUp(w) => ReleaseDue(t, w) /\ PressesEnd(t, w)
<1> DEFINE t == Append(s, item)
<1>1. /\ Len(s) \in Nat /\ DOMAIN s = 1..Len(s) /\ DOMAIN t = 1..Len(s) + 1
      /\ t[Len(s) + 1] = item /\ \A i \in 1..Len(s) : t[i] = s[i]
  BY Appended
<1> HIDE DEF t
<1>2. MouseUp(w) # MouseDown(w)
  BY ItemNames
<1>3. ReleaseDue(s, w) => ReleaseDue(t, w)
  BY <1>1 DEF ReleaseDue
<1>4. PressesEnd(s, w) /\ item # MouseDown(w) => PressesEnd(t, w)
  <2>1. SUFFICES ASSUME PressesEnd(s, w), item # MouseDown(w),
                        NEW i \in DOMAIN t, t[i] = MouseDown(w)
                 PROVE  \E j \in DOMAIN t : j > i /\ t[j] = MouseUp(w)
    BY DEF PressesEnd
  <2>2. i \in DOMAIN s /\ s[i] = MouseDown(w)
    BY <1>1, <2>1
  <2>3. PICK j \in DOMAIN s : j > i /\ s[j] = MouseUp(w)
    BY <2>1, <2>2 DEF PressesEnd
  <2>4. QED
    BY <1>1, <2>3
<1>5. item = MouseUp(w) => ReleaseDue(t, w) /\ PressesEnd(t, w)
  <2>1. SUFFICES ASSUME item = MouseUp(w) PROVE ReleaseDue(t, w) /\ PressesEnd(t, w)
    OBVIOUS
  <2>2. Len(s) + 1 \in DOMAIN t /\ t[Len(s) + 1] = MouseUp(w)
    BY <1>1, <2>1
  <2>3. ASSUME NEW i \in DOMAIN t, t[i] = MouseDown(w) PROVE Len(s) + 1 > i
    BY <1>1, <1>2, <2>1, <2>3
  <2>4. QED
    BY <2>2, <2>3 DEF ReleaseDue, PressesEnd
<1>6. QED
  BY <1>3, <1>4, <1>5 DEF t

(* Less work.                                                                *)
LEMMA PressesTaken ==
  ASSUME NEW s \in Seq(InputWork), s # <<>>, NEW w
  PROVE  LET t == Tail(s)
         IN  /\ PressesEnd(s, w) => PressesEnd(t, w)
             /\ PressesEnd(s, w) /\ Head(s) = MouseDown(w) => ReleaseDue(t, w)
             /\ ReleaseDue(s, w) /\ Head(s) # MouseUp(w) => ReleaseDue(t, w)
<1> DEFINE t == Tail(s)
           n == Len(s)
<1>1. /\ n \in Nat /\ n >= 1 /\ DOMAIN s = 1..n /\ Head(s) = s[1]
      /\ DOMAIN t = 1..n - 1 /\ \A i \in 1..n - 1 : t[i] = s[i + 1]
  BY Taken
<1> HIDE DEF t, n
<1>2. ASSUME NEW j \in DOMAIN s, j > 1
      PROVE  j - 1 \in DOMAIN t /\ t[j - 1] = s[j] /\ j \in Int
  BY <1>1, <1>2
<1>3. PressesEnd(s, w) => PressesEnd(t, w)
  <2>1. SUFFICES ASSUME PressesEnd(s, w), NEW i \in DOMAIN t, t[i] = MouseDown(w)
                 PROVE  \E j \in DOMAIN t : j > i /\ t[j] = MouseUp(w)
    BY DEF PressesEnd
  <2>2. i \in Int /\ i >= 1 /\ i + 1 \in DOMAIN s /\ s[i + 1] = MouseDown(w)
    BY <1>1, <2>1
  <2>3. PICK j \in DOMAIN s : j > i + 1 /\ s[j] = MouseUp(w)
    BY <2>1, <2>2 DEF PressesEnd
  <2>4. j \in Int /\ j > 1
    BY <1>1, <2>2, <2>3
  <2>5. j - 1 \in DOMAIN t /\ t[j - 1] = MouseUp(w) /\ j - 1 > i
    BY <1>2, <2>2, <2>3, <2>4
  <2>6. QED
    BY <2>5
<1>4. PressesEnd(s, w) /\ Head(s) = MouseDown(w) => ReleaseDue(t, w)
  <2>1. SUFFICES ASSUME PressesEnd(s, w), s[1] = MouseDown(w) PROVE ReleaseDue(t, w)
    BY <1>1
  <2>2. PICK j \in DOMAIN s : j > 1 /\ s[j] = MouseUp(w)
    BY <1>1, <2>1 DEF PressesEnd
  <2>3. QED
    BY <1>2, <2>2 DEF ReleaseDue
<1>5. ReleaseDue(s, w) /\ Head(s) # MouseUp(w) => ReleaseDue(t, w)
  <2>1. SUFFICES ASSUME s[1] # MouseUp(w), NEW j \in DOMAIN s, s[j] = MouseUp(w)
                 PROVE  ReleaseDue(t, w)
    BY <1>1 DEF ReleaseDue
  <2>2. j > 1
    BY <1>1, <2>1
  <2>3. QED
    BY <1>2, <2>1, <2>2 DEF ReleaseDue
<1>6. QED
  BY <1>3, <1>4, <1>5 DEF t

LEMMA MirrorLasts ==
  ASSUME TypeOK, HostInv, Next, NEW w \in Windows, live[w] # None, view.mirrors[w] # None
  PROVE  view'.mirrors[w] # None
<1>1. view \in World
  BY DEF TypeOK
<1>2. CASE TellsEvent
  <2>1. PICK e \in events : /\ view' = Deliver(view, e) /\ EventFits(e)
                            /\ e \in DownFrame /\ e.type \in EventTypes
    BY <1>2 DEF TellsEvent
  <2>2. CASE e.type = "WindowClosed"
    <3>1. w # e.window
      BY <2>1, <2>2 DEF EventFits
    <3>2. QED
      BY <1>1, <2>1, <2>2, <3>1, HostDelivered DEF HostFrames
  <2>3. CASE e.type # "WindowClosed"
    BY <1>1, <2>1, <2>3, MirrorStays
  <2>4. QED
    BY <2>2, <2>3
<1>3. CASE Forwarder /\ MappingSent /\ view' = Deliver(view, sending)
  <2>1. sending \in {InputMapping(x, m) : x \in Windows, m \in Mappings}
    BY <1>3 DEF MappingSent, TypeOK, MappingTypeOK, Option
  <2>2. sending \in DownFrame /\ sending.type = "InputMapping"
    BY <2>1 DEF DownFrame, InputMapping
  <2>3. QED
    BY <1>1, <1>3, <2>2, MirrorStays DEF EventTypes
<1>4. CASE UNCHANGED view
  BY <1>4
<1>5. QED
  BY <1>2, <1>3, <1>4, MappingSteps DEF Forwarder, Frames, Tell

LEMMA ButtonStep ==
  ASSUME TypeOK, HostInv, Next, NEW w \in Windows, live[w] # None, ButtonFits(w)
  PROVE  ButtonFits(w)'
<1>1. work \in Seq(InputWork) /\ None \notin Windows
  BY DataAssumption DEF TypeOK, InputTypeOK
<1>2. /\ pressed = w => view'.mirrors[w] # None
      /\ held = w => pressed = w \/ ReleaseDue(work, w)
      /\ pressed = w \/ PressesEnd(work, w)
  BY MirrorLasts DEF ButtonFits
<1>3. CASE UNCHANGED <<held, pressed>> /\ UNCHANGED work
  BY <1>2, <1>3 DEF ButtonFits
<1>4. ASSUME UNCHANGED <<held, pressed>>, NEW item \in InputWork, work' = Append(work, item),
             item.type # "MouseDown"
      PROVE  ButtonFits(w)'
  <2>1. item # MouseDown(w)
    BY <1>4, ItemNames
  <2>2. QED
    BY <1>1, <1>2, <1>4, <2>1, PressesAppended DEF ButtonFits
<1>5. CASE Worker
  <2> DEFINE item == Head(work)
  <2>1. /\ work # <<>> /\ work' = Tail(work) /\ Takes(item, live) /\ UNCHANGED <<pressed, view>>
    BY <1>5 DEF Worker, Work, Takes, userVars
  <2>2. item \in InputWork
    BY <1>1, <2>1, HeadTailProperties
  <2>3. /\ PressesEnd(work, w) => PressesEnd(work', w)
        /\ PressesEnd(work, w) /\ item = MouseDown(w) => ReleaseDue(work', w)
        /\ ReleaseDue(work, w) /\ item # MouseUp(w) => ReleaseDue(work', w)
    BY <1>1, <2>1, PressesTaken
  <2>4. held' = w => item = MouseDown(w) \/ (held = w /\ item # MouseUp(w))
    <3>1. ASSUME held' = w, item = MouseUp(w) PROVE FALSE
      <4>1. item.type = "MouseUp" /\ item.window = w
        BY <3>1, ItemNames
      <4>2. held' = None
        BY <2>1, <4>1 DEF Takes, Placed, Raise, Focuses
      <4>3. QED
        BY <1>1, <3>1, <4>2
    <3>2. ASSUME held' = w, held # w PROVE item = MouseDown(w)
      <4>1. held' = None \/ held' = held \/ (item.type = "MouseDown" /\ held' = item.window)
        BY <2>1 DEF Takes, Placed, Raise, Focuses
      <4>2. item.type = "MouseDown" /\ item.window = w
        BY <1>1, <3>2, <4>1
      <4>3. QED
        BY <2>2, <4>2, MouseItem
    <3>3. QED
      BY <3>1, <3>2
  <2> HIDE DEF item
  <2>5. QED
    BY <1>2, <2>1, <2>3, <2>4 DEF ButtonFits
<1>6. CASE UserActs
  <2>1. UNCHANGED <<held, view>>
    BY <1>6 DEF UserActs, UserFocuses, UserTypes, UserPresses, UserReleases, MirrorLost, Relays,
       sinkVars
  <2>2. CASE pressed # None /\ view.mirrors[pressed] = None /\ MirrorLost
    <3>1. pressed # w /\ pressed' = None /\ UNCHANGED work
      BY <2>2 DEF ButtonFits, MirrorLost
    <3>2. QED
      BY <1>1, <1>2, <2>1, <3>1 DEF ButtonFits
  <2>3. ASSUME NEW u \in Windows, UserFocuses(u) \/ UserTypes(u)
        PROVE  ButtonFits(w)'
    <3>1. PICK item \in InputWork :
            item.type # "MouseDown" /\ work' = Append(work, item) /\ UNCHANGED pressed
      BY <2>3, ItemTypes, ItemNames DEF UserFocuses, UserTypes, Relays, userVars
    <3>2. QED
      BY <1>4, <2>1, <3>1
  <2>4. ASSUME NEW u \in Present(view.mirrors), UserPresses(u)
        PROVE  ButtonFits(w)'
    <3>1. /\ pressed = None /\ pressed' = u /\ work' = Append(work, MouseDown(u))
          /\ view.mirrors[u] # None /\ u \in Windows
      BY <2>4 DEF UserPresses, Relays, Present, TypeOK, World
    <3>2. ReleaseDue(work, w) => ReleaseDue(work', w)
      BY <1>1, <3>1, ItemTypes, PressesAppended
    <3>3. u # w /\ PressesEnd(work, w) => PressesEnd(work', w)
      BY <1>1, <3>1, ItemTypes, ItemNames, PressesAppended
    <3>4. QED
      BY <1>1, <1>2, <2>1, <3>1, <3>2, <3>3 DEF ButtonFits
  <2>5. ASSUME NEW u \in Windows, UserReleases(u)
        PROVE  ButtonFits(w)'
    <3>1. pressed = u /\ pressed' = None /\ work' = Append(work, MouseUp(u))
      BY <2>5 DEF UserReleases, Relays
    <3>2. MouseUp(u) \in InputWork /\ MouseUp(u) # MouseDown(w)
      BY ItemTypes, ItemNames
    <3>3. /\ ReleaseDue(work, w) => ReleaseDue(work', w)
          /\ PressesEnd(work, w) => PressesEnd(work', w)
          /\ u = w => ReleaseDue(work', w) /\ PressesEnd(work', w)
      BY <1>1, <3>1, <3>2, PressesAppended
    <3>4. QED
      BY <1>1, <1>2, <2>1, <3>1, <3>3 DEF ButtonFits
  <2>6. Present(view.mirrors) \subseteq Windows
    BY DEF TypeOK, World, Present
  <2>7. QED
    BY <1>6, <2>2, <2>3, <2>4, <2>5, <2>6 DEF UserActs
<1>7. QED
  BY <1>3, <1>4, <1>5, <1>6, WorkSteps

----------------------------------------------------------------------------
(* A window that was never tracked.                                          *)
LEMMA UntouchedLoop ==
  ASSUME TypeOK, HostInv, Next, NEW w \in Windows, Untouched(w), live'[w] = None
  PROVE  runtimes'[w] = "none" /\ host_windows'[w] = "absent"
<1>1. CASE \E e \in events : EventStep(e)
  <2>1. PICK e \in events : EventStep(e)
    BY <1>1
  <2>2. w # e.window
    BY <2>1, EventParts DEF EventFits, Untouched
  <2>3. QED
    BY <2>1, <2>2, EventOthers DEF LoopSame, Untouched
<1>2. CASE Poll \/ Unsubscribe
  BY <1>2 DEF Poll, Reconcile, Unsubscribe, toldVars, Untouched
<1>3. CASE Serve \/ WatcherRuns \/ Answer \/ OpenChannel \/ Watch \/ Settle
  BY <1>3 DEF Serve, WatcherRuns, Answer, OpenChannel, Watch, Settle, SetUp, toldVars, Untouched
<1>4. CASE Check \/ Finish \/ Renegotiated \/ Teardown \/ StopWatcher \/ Close
             \/ \E v \in Windows : Unroute(v) \/ CloseUnsubscribed(v)
  BY <1>4
     DEF Check, Finish, Renegotiated, Teardown, StopWatcher, Close, Unroute, CloseUnsubscribed, Captures,
         toldVars, Untouched, TypeOK
<1>5. CASE Frames \/ Forwarder \/ Worker \/ UserActs \/ ClientUnsubscribes \/ PeerDisconnects
  BY <1>5
     DEF Frames, Forwarder, Worker, UserActs, ClientUnsubscribes, PeerDisconnects, Aside, loopVars,
         toldVars, Untouched
<1>6. QED
  BY <1>1, <1>2, <1>3, <1>4, <1>5 DEF Next, LoopStep

LEMMA UntouchedMapping ==
  ASSUME TypeOK, HostInv, Next, NEW w \in Windows, Untouched(w)
  PROVE  /\ view'.mirrors[w] = None /\ view'.buffered[w] = None
         /\ last_meta'[w] = None /\ last_sent'[w] = None
         /\ \A i \in DOMAIN meta' : meta'[i].window # w
         /\ sending' # None => sending'.window # w
<1>1. /\ view \in World /\ meta \in Seq(Entries)
      /\ last_sent \in [Windows -> Option(Mappings)]
      /\ last_meta \in [Windows -> Option(Mappings)]
  BY DEF TypeOK, MappingTypeOK, Entries
<1>2. CASE Frames
  <2>1. PICK u \in Windows, m \in Mappings : runtimes[u] = "capturing" /\ FrameArrives(u, m)
    BY <1>2 DEF Frames
  <2>2. u # w /\ UNCHANGED <<last_sent, sending, view>>
    BY <1>2, <2>1 DEF Untouched, Frames, FrameArrives
  <2>3. last_meta' = [last_meta EXCEPT ![u] = m] /\ meta' = Append(meta, Entry(u, m))
    BY <2>1 DEF FrameArrives, Entry
  <2>4. Entry(u, m) \in Entries /\ Entry(u, m).window = u
    BY DEF Entry, Entries
  <2>5. /\ Len(meta) \in Nat /\ DOMAIN meta = 1..Len(meta) /\ DOMAIN meta' = 1..Len(meta) + 1
        /\ meta'[Len(meta) + 1] = Entry(u, m) /\ \A i \in 1..Len(meta) : meta'[i] = meta[i]
    BY <1>1, <2>3, <2>4, Appended
  <2>6. ASSUME NEW i \in DOMAIN meta' PROVE meta'[i].window # w
    BY <2>2, <2>4, <2>5 DEF Untouched
  <2>7. last_meta'[w] = None
    BY <1>1, <2>2, <2>3 DEF Untouched
  <2>8. QED
    BY <2>2, <2>6, <2>7 DEF Untouched
<1>3. CASE Forwarder /\ ForwardMeta(live)
  <2> DEFINE u == Head(meta).window
             m == Head(meta).mapping
  <2>1. /\ meta # <<>> /\ meta' = Tail(meta) /\ sending = None /\ UNCHANGED <<last_meta, view>>
    BY <1>3 DEF Forwarder, ForwardMeta, MappingSent
  <2>2. /\ Len(meta) \in Nat /\ Len(meta) >= 1 /\ DOMAIN meta = 1..Len(meta)
        /\ Head(meta) = meta[1] /\ DOMAIN meta' = 1..Len(meta) - 1
        /\ \A i \in 1..Len(meta) - 1 : meta'[i] = meta[i + 1]
    BY <1>1, <2>1, Taken
  <2>3. u # w
    BY <2>2 DEF Untouched
  <2>4. ASSUME NEW i \in DOMAIN meta' PROVE meta'[i].window # w
    <3>1. i + 1 \in DOMAIN meta /\ meta'[i] = meta[i + 1]
      BY <2>2
    <3>2. QED
      BY <3>1 DEF Untouched
  <2>5. last_sent'[w] = last_sent[w] /\ (sending' = None \/ sending' = InputMapping(u, m))
    BY <1>1, <1>3, <2>1, <2>3 DEF ForwardMeta
  <2>6. InputMapping(u, m).window = u
    BY DEF InputMapping
  <2>7. QED
    BY <2>1, <2>3, <2>4, <2>5, <2>6 DEF Untouched
<1>4. CASE Forwarder /\ MappingSent /\ ~ForwardMeta(live)
  <2>1. sending # None /\ sending' = None /\ UNCHANGED <<last_meta, meta, last_sent>>
    BY <1>4 DEF MappingSent
  <2>2. sending \in {InputMapping(x, m) : x \in Windows, m \in Mappings} /\ sending.window # w
    BY <2>1 DEF TypeOK, MappingTypeOK, Option, Untouched
  <2>3. sending \in DownFrame /\ sending.type = "InputMapping"
    BY <2>2 DEF DownFrame, InputMapping
  <2>4. view' = view \/ view' = Deliver(view, sending)
    BY <1>4 DEF Forwarder, Tell
  <2>5. view'.mirrors[w] = None /\ view'.buffered[w] = None
    <3>1. view.mirrors[w] = None /\ view.buffered[w] = None
      BY DEF Untouched
    <3>2. Deliver(view, sending).mirrors[w] = None
      BY <1>1, <2>3, <3>1, MirrorNotMade
    <3>3. Deliver(view, sending).buffered[w] = None
      BY <1>1, <2>2, <2>3, <3>1, BufferedDelivered
    <3>4. QED
      BY <2>4, <3>1, <3>2, <3>3
  <2>6. QED
    BY <2>1, <2>5 DEF Untouched
<1>5. CASE /\ UNCHANGED <<meta, last_sent, sending>>
           /\ \A x \in Windows : last_meta'[x] = None \/ last_meta'[x] = last_meta[x]
           /\ UNCHANGED view \/ TellsEvent
  <2>1. CASE UNCHANGED view
    BY <1>5, <2>1 DEF Untouched
  <2>2. CASE TellsEvent
    <3>1. PICK e \in events : /\ view' = Deliver(view, e) /\ EventFits(e)
                              /\ e \in DownFrame /\ e.type \in EventTypes
      BY <2>2 DEF TellsEvent
    <3>2. e.window # w /\ view.mirrors[w] = None /\ view.buffered[w] = None
      BY <3>1 DEF EventFits, Untouched
    <3>3. view'.mirrors[w] = None
      BY <1>1, <3>1, <3>2, MirrorNotMade
    <3>4. view'.buffered[w] = None
      BY <1>1, <3>1, <3>2, BufferedDelivered
    <3>5. QED
      BY <1>5, <3>3, <3>4 DEF Untouched
  <2>3. QED
    BY <1>5, <2>1, <2>2
<1>6. QED
  BY <1>2, <1>3, <1>4, <1>5, MappingSteps DEF Forwarder

LEMMA UntouchedInput ==
  ASSUME TypeOK, HostInv, Next, NEW w \in Windows, Untouched(w)
  PROVE  /\ held' # w /\ pressed' # w
         /\ \A i \in DOMAIN work' : work'[i] # MouseDown(w)
<1>1. /\ work \in Seq(InputWork) /\ None \notin Windows /\ held # w /\ pressed # w
      /\ \A i \in DOMAIN work : work[i] # MouseDown(w)
  BY DataAssumption DEF TypeOK, InputTypeOK, Untouched
<1>2. ASSUME NEW item \in InputWork, item # MouseDown(w), work' = Append(work, item)
      PROVE  \A i \in DOMAIN work' : work'[i] # MouseDown(w)
  <2>1. /\ Len(work) \in Nat /\ DOMAIN work = 1..Len(work) /\ DOMAIN work' = 1..Len(work) + 1
        /\ work'[Len(work) + 1] = item /\ \A i \in 1..Len(work) : work'[i] = work[i]
    BY <1>1, <1>2, Appended
  <2>2. QED
    BY <1>1, <1>2, <2>1
<1>3. CASE Worker
  <2> DEFINE item == Head(work)
  <2>1. work # <<>> /\ work' = Tail(work) /\ Takes(item, live) /\ UNCHANGED pressed
    BY <1>3 DEF Worker, Work, Takes, userVars
  <2>2. /\ Len(work) \in Nat /\ Len(work) >= 1 /\ DOMAIN work = 1..Len(work)
        /\ item = work[1] /\ DOMAIN work' = 1..Len(work) - 1
        /\ \A i \in 1..Len(work) - 1 : work'[i] = work[i + 1]
    BY <1>1, <2>1, Taken
  <2>3. item # MouseDown(w) /\ item \in InputWork
    BY <1>1, <2>1, <2>2, HeadTailProperties
  <2>4. held' # w
    <3>1. held' = None \/ held' = held \/ (item.type = "MouseDown" /\ held' = item.window)
      BY <2>1 DEF Takes, Placed, Raise, Focuses
    <3>2. item.type = "MouseDown" => item.window # w
      BY <2>3, MouseItem
    <3>3. QED
      BY <1>1, <3>1, <3>2
  <2>5. ASSUME NEW i \in DOMAIN work' PROVE work'[i] # MouseDown(w)
    <3>1. i + 1 \in DOMAIN work /\ work'[i] = work[i + 1]
      BY <2>2
    <3>2. QED
      BY <1>1, <3>1
  <2>6. QED
    BY <1>1, <2>1, <2>4, <2>5
<1>4. CASE UserActs
  <2>1. UNCHANGED held
    BY <1>4 DEF UserActs, UserFocuses, UserTypes, UserPresses, UserReleases, MirrorLost, Relays,
       sinkVars
  <2>2. CASE MirrorLost
    BY <1>1, <2>1, <2>2 DEF MirrorLost
  <2>3. ASSUME NEW u \in Present(view.mirrors),
               UserFocuses(u) \/ UserTypes(u) \/ UserPresses(u) \/ UserReleases(u)
        PROVE  pressed' # w /\ \A i \in DOMAIN work' : work'[i] # MouseDown(w)
    <3>1. u \in Windows /\ u # w
      BY DEF Present, TypeOK, World, Untouched
    <3>2. PICK item \in InputWork : item # MouseDown(w) /\ work' = Append(work, item)
      BY <2>3, <3>1, ItemTypes, ItemNames
         DEF UserFocuses, UserTypes, UserPresses, UserReleases, Relays
    <3>3. pressed' # w
      BY <1>1, <2>3, <3>1 DEF UserFocuses, UserTypes, UserPresses, UserReleases, userVars
    <3>4. QED
      BY <1>2, <3>2, <3>3
  <2>4. QED
    BY <1>1, <1>4, <2>1, <2>2, <2>3 DEF UserActs
<1>5. ASSUME UNCHANGED <<held, pressed>>, NEW item \in InputWork,
             item.type \in {"UpdatePids", "Shutdown"}, work' = Append(work, item)
      PROVE  \A i \in DOMAIN work' : work'[i] # MouseDown(w)
  BY <1>2, <1>5, ItemNames
<1>6. QED
  BY <1>1, <1>3, <1>4, <1>5, WorkSteps

LEMMA SeenStep ==
  ASSUME TypeOK, HostInv, SeenInv, Next
  PROVE  SeenInv'
<1>1. SUFFICES ASSUME NEW w \in Windows, w \notin seen'
               PROVE  Untouched(w)'
  BY DEF SeenInv
<1>2. Untouched(w)
  BY <1>1, LiveSteps DEF SeenInv
<1>3. live'[w] = None
  BY <1>1, <1>2, LiveSteps DEF Untouched
<1>4. QED
  BY <1>2, <1>3, UntouchedLoop, UntouchedMapping, UntouchedInput DEF Untouched

LEMMA MappingInvStep ==
  ASSUME "reappear" \notin Faults, TypeOK, HostInv, SeenInv, MappingInv, Next
  PROVE  MappingInv'
<1>1. SUFFICES ASSUME NEW w \in Windows, live'[w] # None
               PROVE  MetaFits(w)' /\ ShownFits(w)'
  BY DEF MappingInv
<1>2. CASE live[w] # None
  BY <1>2, MetaStep, ShownStep DEF MappingInv
<1>3. CASE live[w] = None
  <2>1. Untouched(w) /\ UNCHANGED <<mappingVars, view>>
    BY <1>1, <1>3, LiveSteps DEF SeenInv
  <2>2. QED
    BY <2>1 DEF Untouched, MetaFits, ShownFits, ShownIn, Assumed, OrIdentity, mappingVars
<1>4. QED
  BY <1>2, <1>3

LEMMA ButtonInvStep ==
  ASSUME "reappear" \notin Faults, TypeOK, HostInv, SeenInv, ButtonInv, Next
  PROVE  ButtonInv'
<1>1. SUFFICES ASSUME NEW w \in Windows, live'[w] # None
               PROVE  ButtonFits(w)'
  BY DEF ButtonInv
<1>2. CASE live[w] # None
  BY <1>2, ButtonStep DEF ButtonInv
<1>3. CASE live[w] = None
  <2>1. Untouched(w) /\ UNCHANGED <<inputVars, view>>
    BY <1>1, <1>3, LiveSteps DEF SeenInv
  <2>2. QED
    BY <2>1 DEF Untouched, ButtonFits, PressesEnd, inputVars, sinkVars, userVars
<1>4. QED
  BY <1>2, <1>3

HistoryInv == SeenInv /\ MappingInv /\ ButtonInv

LEMMA HistoryStep ==
  ASSUME "reappear" \notin Faults, TypeOK, HostInv, HistoryInv, [Next]_vars
  PROVE  HistoryInv'
<1>1. CASE Next
  BY <1>1, SeenStep, MappingInvStep, ButtonInvStep DEF HistoryInv
<1>2. CASE UNCHANGED vars
  BY <1>2
     DEF vars, loopVars, besideVars, toldVars, mappingVars, inputVars, sinkVars, userVars,
         HistoryInv, SeenInv, MappingInv, ButtonInv, Untouched, MetaFits, MetaOf, Assumed,
         ShownFits, ShownIn, ButtonFits, ReleaseDue, PressesEnd
<1>3. QED
  BY <1>1, <1>2

LEMMA HistoryInit == Init => HistoryInv
<1>1. SUFFICES ASSUME Init PROVE HistoryInv
  OBVIOUS
<1>2. \A w \in Windows : live[w] = None
  BY <1>1 DEF Init
<1>3. ASSUME NEW w \in Windows PROVE Untouched(w)
  <2>1. None # w
    BY DataAssumption
  <2>2. QED
    BY <1>1, <2>1, EmptySeq DEF Init, MappingInit, InputInit, EmptyWorld, Untouched
<1>4. QED
  BY <1>2, <1>3 DEF HistoryInv, SeenInv, MappingInv, ButtonInv

LEMMA MappingAtRest == TypeOK /\ HostInv /\ HistoryInv => MappingFollows
<1>1. SUFFICES ASSUME TypeOK, HostInv, HistoryInv, AtRest, ~disconnected, meta = <<>>,
                      sending = None, NEW w \in Windows, runtimes[w] = "capturing",
                      last_meta[w] # None
               PROVE  view.mirrors[w].mapping = last_meta[w]
  BY DEF MappingFollows
<1>2. RuntimeFits(w) /\ ToldOrDue(w) /\ (\A type : ~Due(w, type)) /\ w \notin closing
      /\ ~Opening(w) /\ ~Closing(w)
  BY <1>1, NothingDue
<1>3. live[w] # None /\ Owner[w] \in pids
  BY <1>1, <1>2 DEF RuntimeFits, ToldOrDue, Mirrored
<1>4. view.mirrors[w] # None
  BY <1>1, <1>2, <1>3 DEF HostInv, MirrorsInv, MirrorFits, Mirrored, AtRest, Ended
<1>5. Assumed(w) = last_meta[w]
  <2>1. MetaOf(w) = {}
    BY <1>1, EmptySeq DEF MetaOf
  <2>2. QED
    BY <1>1, <1>3, <2>1 DEF HistoryInv, MappingInv, MetaFits
<1>6. ShownIn(view, w) = Assumed(w)
  BY <1>1, <1>3 DEF HistoryInv, MappingInv, ShownFits
<1>7. QED
  BY <1>4, <1>5, <1>6 DEF ShownIn

LEMMA ButtonAtRest == TypeOK /\ HistoryInv => ButtonReleased
<1>1. SUFFICES ASSUME TypeOK, HistoryInv, pressed = None, held # None, live[held] # None,
                      \A i \in DOMAIN work : work[i].type \notin {"MouseDown", "MouseUp"}
               PROVE  FALSE
  BY DEF ButtonReleased
<1>2. held \in Windows
  BY <1>1 DEF TypeOK, InputTypeOK, Option
<1>3. ReleaseDue(work, held)
  BY <1>1, <1>2, DataAssumption DEF HistoryInv, ButtonInv, ButtonFits
<1>4. QED
  BY <1>1, <1>3, ItemNames DEF ReleaseDue

LEMMA HistoryAlways ==
  ASSUME "reappear" \notin Faults
  PROVE  Spec => [](TypeOK /\ HostInv /\ HistoryInv)
<1>1. TypeOK /\ HostInv /\ HistoryInv /\ [Next]_vars => HistoryInv'
  BY HistoryStep
<1>2. QED
  BY <1>1, HostInvAlways, HistoryInit, PTL DEF Spec

(* As long as no window id comes back: when the forwarder has caught up, the *)
(* client's mapping of a captured window is the one its last frame had       *)
(* (MappingFollows; frame_sink, should_send and the forwarder task).         *)
THEOREM MappingAlwaysFollows ==
  ASSUME "reappear" \notin Faults
  PROVE  Spec => []MappingFollows
BY HistoryAlways, MappingAtRest, PTL

(* As long as no window id comes back: a button the user released is up once *)
(* the worker has caught up, unless its window closed in between             *)
(* (ButtonReleased; the input worker of session.rs, AxInput).                *)
THEOREM ButtonAlwaysReleased ==
  ASSUME "reappear" \notin Faults
  PROVE  Spec => []ButtonReleased
BY HistoryAlways, ButtonAtRest, PTL
=============================================================================
