------------------------ MODULE ClientFidelityProofs ------------------------
(* What the mirror helpers show is what the manager remembers: FidelityInv   *)
(* is inductive, for every value of the constants.  The first part is about  *)
(* the recursion of MirrorFrames: what draining does to one more frame at    *)
(* either end of a queue, and what a replay rebuilds.  The second has one    *)
(* lemma per group of steps.                                                 *)
EXTENDS ClientProofs, WellFoundedInduction

(* Induction over the numbers of a set: the form of the rule that the provers*)
(* can instantiate.                                                          *)
LEMMA SetInduction ==
  ASSUME NEW S, 0 \in S, \A n \in S \cap Nat : n + 1 \in S
  PROVE  Nat \subseteq S
<1> DEFINE T == {n \in Nat : n \notin S}
           R == {ss \in Nat \X Nat : ss[1] < ss[2]}
<1> SUFFICES ASSUME T # {} PROVE FALSE
  OBVIOUS
<1>1. IsWellFoundedOn(R, Nat)
  BY NatLessThanWellFounded DEF OpToRel
<1>2. T \subseteq Nat
  OBVIOUS
<1> HIDE DEF T, R
<1>3. PICK x \in T : \A y \in T : ~(<<y, x>> \in R)
  BY <1>1, <1>2, WFMin
<1> USE DEF T
<1>4. x \in Nat \ {0} /\ x \notin S /\ x - 1 \in Nat
  BY <1>3
<1>5. x - 1 \in S
  <2> SUFFICES ASSUME x - 1 \in T PROVE FALSE
    BY <1>4
  <2>1. <<x - 1, x>> \in R
    BY <1>4 DEF R
  <2>2. QED
    BY <1>3, <2>1
<1>6. (x - 1) + 1 \in S
  BY <1>4, <1>5
<1>7. QED
  BY <1>4, <1>6

----------------------------------------------------------------------------
(* Draining is defined by its recursion.                                     *)
LEMMA DrainingExists ==
  ASSUME NEW v, NEW fs, NEW N \in Nat
  PROVE  \E g : g = [n \in 0..N |-> IF n = 0 THEN v ELSE Deliver(g[n - 1], fs[n])]
<1> DEFINE G(g, k) == g = [n \in 0..k |-> IF n = 0 THEN v ELSE Deliver(g[n - 1], fs[n])]
           S == {k \in Nat : \E g : G(g, k)}
<1>1. 0 \in S
  <2>1. G([n \in 0..0 |-> v], 0)
    OBVIOUS
  <2>2. QED
    BY <2>1
<1>2. ASSUME NEW k \in S \cap Nat
      PROVE  k + 1 \in S
  <2>1. PICK g : G(g, k)
    BY DEF S
  <2> DEFINE h == [n \in 0..(k + 1) |->
                     IF n = k + 1 THEN Deliver(g[k], fs[k + 1]) ELSE g[n]]
  <2>2. ASSUME NEW n \in 0..(k + 1)
        PROVE  h[n] = IF n = 0 THEN v ELSE Deliver(h[n - 1], fs[n])
    <3>1. CASE n = k + 1
      <4>1. h[k] = g[k]
        OBVIOUS
      <4>2. QED
        BY <3>1, <4>1
    <3>2. CASE n # k + 1
      <4>1. n \in 0..k /\ (n # 0 => n - 1 \in 0..k)
        BY <3>2
      <4>2. h[n] = g[n] /\ (n # 0 => h[n - 1] = g[n - 1])
        BY <4>1
      <4>3. QED
        BY <2>1, <4>1, <4>2
    <3>3. QED
      BY <3>1, <3>2
  <2>3. G(h, k + 1)
    BY <2>2
  <2>4. \E f : G(f, k + 1)
    <3> HIDE DEF h, G
    <3>1. QED
      BY <2>3
  <2>5. QED
    BY <2>4
<1>3. Nat \subseteq S
  <2> HIDE DEF S
  <2>1. QED
    BY <1>1, <1>2, SetInduction
<1>4. QED
  BY <1>3

LEMMA DrainingAt ==
  ASSUME NEW v, NEW fs, Len(fs) \in Nat
  PROVE  /\ Draining(v, fs)[0] = v
         /\ \A n \in 1..Len(fs) : Draining(v, fs)[n] = Deliver(Draining(v, fs)[n - 1], fs[n])
<1>1. Draining(v, fs) =
        [n \in 0..Len(fs) |-> IF n = 0 THEN v ELSE Deliver(Draining(v, fs)[n - 1], fs[n])]
  BY DrainingExists DEF Draining
<1>2. QED
  BY <1>1

LEMMA DrainedEmpty == ASSUME NEW v PROVE Drained(v, <<>>) = v
<1>1. Len(<<>>) = 0
  OBVIOUS
<1>2. QED
  BY <1>1, DrainingAt DEF Drained

(* A common prefix leads through the same worlds.                            *)
LEMMA DrainedPrefix ==
  ASSUME NEW S, NEW fs \in Seq(S), NEW gs \in Seq(S), NEW v, NEW n \in Nat,
         n <= Len(fs), n <= Len(gs), \A i \in 1..n : fs[i] = gs[i]
  PROVE  Draining(v, fs)[n] = Draining(v, gs)[n]
<1> DEFINE T == {k \in Nat : k <= n => Draining(v, fs)[k] = Draining(v, gs)[k]}
<1>0. Len(fs) \in Nat /\ Len(gs) \in Nat
  OBVIOUS
<1>1. 0 \in T
  BY <1>0, DrainingAt
<1>2. ASSUME NEW k \in T \cap Nat
      PROVE  k + 1 \in T
  <2>1. SUFFICES ASSUME k + 1 <= n PROVE Draining(v, fs)[k + 1] = Draining(v, gs)[k + 1]
    OBVIOUS
  <2>2. /\ k + 1 \in 1..Len(fs) /\ k + 1 \in 1..Len(gs) /\ k + 1 \in 1..n
        /\ (k + 1) - 1 = k
    BY <1>0, <2>1
  <2>3. Draining(v, fs)[k + 1] = Deliver(Draining(v, fs)[k], fs[k + 1])
    BY <1>0, <2>2, DrainingAt
  <2>4. Draining(v, gs)[k + 1] = Deliver(Draining(v, gs)[k], gs[k + 1])
    BY <1>0, <2>2, DrainingAt
  <2>5. QED
    BY <2>1, <2>2, <2>3, <2>4
<1>3. Nat \subseteq T
  <2> HIDE DEF T
  <2>1. QED
    BY <1>1, <1>2, SetInduction
<1>4. QED
  BY <1>3

(* Two queues in a row are drained one after the other.                      *)
LEMMA DrainedConcat ==
  ASSUME NEW S, NEW fs \in Seq(S), NEW gs \in Seq(S), NEW v
  PROVE  Drained(v, fs \o gs) = Drained(Drained(v, fs), gs)
<1> DEFINE hs == fs \o gs
           u == Drained(v, fs)
           l == Len(fs)
           T == {k \in Nat : k <= Len(gs) => Draining(u, gs)[k] = Draining(v, hs)[l + k]}
<1>0. /\ hs \in Seq(S) /\ Len(hs) = l + Len(gs) /\ Len(gs) \in Nat /\ l \in Nat /\ Len(hs) \in Nat
      /\ \A i \in 1..l : hs[i] = fs[i]
      /\ \A i \in 1..Len(gs) : hs[l + i] = gs[i]
  <2>1. /\ hs \in Seq(S) /\ Len(hs) = l + Len(gs) /\ Len(gs) \in Nat /\ l \in Nat
        /\ \A i \in 1..(l + Len(gs)) : hs[i] = IF i <= l THEN fs[i] ELSE gs[i - l]
    BY ConcatProperties
  <2> HIDE DEF hs
  <2>2. QED
    BY <2>1
<1> HIDE DEF hs
<1>1. 0 \in T
  <2>1. Draining(v, hs)[l] = Draining(v, fs)[l]
    BY <1>0, DrainedPrefix
  <2>2. Draining(u, gs)[0] = u
    <3> HIDE DEF u
    <3>1. Len(gs) \in Nat
      OBVIOUS
    <3>2. QED
      BY <3>1, DrainingAt
  <2>3. u = Draining(v, fs)[l] /\ l + 0 = l
    BY <1>0 DEF Drained
  <2>4. QED
    BY <2>1, <2>2, <2>3
<1>2. ASSUME NEW k \in T \cap Nat
      PROVE  k + 1 \in T
  <2>1. SUFFICES ASSUME k + 1 <= Len(gs)
                 PROVE  Draining(u, gs)[k + 1] = Draining(v, hs)[l + (k + 1)]
    OBVIOUS
  <2>2. k + 1 \in 1..Len(gs) /\ (k + 1) - 1 = k
    BY <1>0, <2>1
  <2>3. Draining(u, gs)[k + 1] = Deliver(Draining(u, gs)[k], gs[k + 1])
    BY <1>0, <2>2, DrainingAt
  <2>4. PICK m \in 1..Len(hs) : m = l + (k + 1) /\ m - 1 = l + k
    BY <1>0, <2>2
  <2>5. Draining(v, hs)[m] = Deliver(Draining(v, hs)[m - 1], hs[m])
    <3>1. Len(hs) \in Nat
      BY <1>0
    <3>2. QED
      BY <3>1, DrainingAt
  <2>6. Draining(u, gs)[k] = Draining(v, hs)[l + k] /\ hs[l + (k + 1)] = gs[k + 1]
    BY <1>0, <2>1, <2>2
  <2>7. QED
    BY <2>3, <2>4, <2>5, <2>6
<1>3. Nat \subseteq T
  <2> HIDE DEF T
  <2>1. QED
    BY <1>1, <1>2, SetInduction
<1>4. Len(gs) \in T
  BY <1>0, <1>3
<1>5. Draining(u, gs)[Len(gs)] = Draining(v, hs)[Len(hs)]
  BY <1>0, <1>4
<1>6. QED
  BY <1>5 DEF Drained, hs

LEMMA DrainedOne == ASSUME NEW v, NEW f PROVE Drained(v, <<f>>) = Deliver(v, f)
<1>1. Len(<<f>>) = 1 /\ <<f>>[1] = f
  OBVIOUS
<1>2. 1 \in 1..Len(<<f>>) /\ 1 - 1 = 0
  BY <1>1
<1>3. Draining(v, <<f>>)[1] = Deliver(Draining(v, <<f>>)[0], <<f>>[1])
  BY <1>1, <1>2, DrainingAt
<1>4. QED
  BY <1>1, <1>3, DrainingAt DEF Drained

(* Draining the first frame changes nothing about where it ends.             *)
LEMMA DrainedHead ==
  ASSUME NEW S, NEW fs \in Seq(S), fs # <<>>, NEW v
  PROVE  Drained(v, fs) = Drained(Deliver(v, Head(fs)), Tail(fs))
<1>1. Head(fs) \in S /\ Tail(fs) \in Seq(S)
  BY HeadTailProperties
<1>2. fs = <<Head(fs)>> \o Tail(fs)
  OBVIOUS
<1>3. <<Head(fs)>> \in Seq(S)
  BY <1>1
<1>4. Drained(v, <<Head(fs)>> \o Tail(fs)) = Drained(Drained(v, <<Head(fs)>>), Tail(fs))
  BY <1>1, <1>3, DrainedConcat
<1>5. QED
  BY <1>2, <1>4, DrainedOne

----------------------------------------------------------------------------
(* What one frame makes of a world.                                          *)
Shape(v) == /\ v.mirrors \in [Windows -> Option(Mirror)]
            /\ v.buffered \in [Windows -> Option(Mappings)]
            /\ v.early \subseteq Windows /\ v.saw \in BOOLEAN /\ v.icons \in Nat

LEMMA WorldShape ==
  ASSUME NEW v \in World
  PROVE  /\ Shape(v)
         /\ v = [mirrors |-> v.mirrors, buffered |-> v.buffered, early |-> v.early,
                 saw |-> v.saw, icons |-> v.icons]
BY DEF World, Shape

LEMMA WorldRecord ==
  ASSUME NEW v \in World
  PROVE  \E mi \in [Windows -> Option(Mirror)], bu \in [Windows -> Option(Mappings)],
            ea \in SUBSET Windows, sa \in BOOLEAN, ic \in Nat :
           v = [mirrors |-> mi, buffered |-> bu, early |-> ea, saw |-> sa, icons |-> ic]
BY WorldShape DEF Shape

(* The mirror that an announcement makes.                                    *)
Announced(v, w, t, s) ==
  [title |-> t, size |-> s, minimized |-> FALSE,
   mapping |-> IF v.buffered[w] = None THEN Identity ELSE v.buffered[w]]

OpenedWorld(v, w, t, s, u) ==
  /\ u \in World /\ u.icons = v.icons /\ u.buffered = v.buffered
  /\ v.mirrors[w] = None =>
       /\ u.mirrors = [v.mirrors EXCEPT ![w] = Announced(v, w, t, s)]
       /\ u.early = v.early \ {w}
  /\ v.mirrors[w] # None => u.mirrors = v.mirrors /\ u.early = v.early

LEMMA DeliverOpened ==
  ASSUME NEW v \in World, NEW w \in Windows, NEW t \in Titles, NEW s \in Sizes
  PROVE  OpenedWorld(v, w, t, s, Deliver(v, WindowOpened(w, t, s)))
<1> DEFINE u == Deliver(v, WindowOpened(w, t, s))
<1>0. PICK mi \in [Windows -> Option(Mirror)], bu \in [Windows -> Option(Mappings)],
           ea \in SUBSET Windows, sa \in BOOLEAN, ic \in Nat :
             v = [mirrors |-> mi, buffered |-> bu, early |-> ea, saw |-> sa, icons |-> ic]
  BY WorldRecord
<1>1. u = CreateMirror([v EXCEPT !.saw = TRUE], WindowOpened(w, t, s))
  BY DEF Deliver, WindowOpened
<1>2. Announced(v, w, t, s) \in Mirror
  BY WorldShape, DataAssumption DEF Announced, Mirror, Shape, Option
<1>3. CASE v.mirrors[w] = None
  <2>1. u = [mirrors |-> [v.mirrors EXCEPT ![w] = Announced(v, w, t, s)],
             buffered |-> v.buffered, early |-> v.early \ {w}, saw |-> TRUE, icons |-> v.icons]
    BY <1>0, <1>1, <1>3 DEF CreateMirror, WindowOpened, Announced
  <2>2. [v.mirrors EXCEPT ![w] = Announced(v, w, t, s)] \in [Windows -> Option(Mirror)]
    BY <1>2, WorldShape DEF Shape, Option
  <2>3. QED
    BY <1>3, <2>1, <2>2, WorldShape DEF World, Shape, OpenedWorld
<1>4. CASE v.mirrors[w] # None
  <2>1. u = [mirrors |-> v.mirrors, buffered |-> v.buffered, early |-> v.early,
             saw |-> TRUE, icons |-> v.icons]
    BY <1>0, <1>1, <1>4 DEF CreateMirror, WindowOpened
  <2>2. QED
    BY <1>4, <2>1, WorldShape DEF World, Shape, OpenedWorld
<1>5. QED
  BY <1>3, <1>4

ClosedWorld(v, w, u) ==
  /\ u \in World /\ u.icons = v.icons
  /\ u.mirrors = [v.mirrors EXCEPT ![w] = None]
  /\ u.buffered = [v.buffered EXCEPT ![w] = None]
  /\ u.early = IF v.mirrors[w] # None THEN v.early \ {w} ELSE v.early

LEMMA DeliverClosed ==
  ASSUME NEW v \in World, NEW w \in Windows
  PROVE  ClosedWorld(v, w, Deliver(v, WindowClosed(w)))
<1> DEFINE u == Deliver(v, WindowClosed(w))
<1>0. PICK mi \in [Windows -> Option(Mirror)], bu \in [Windows -> Option(Mappings)],
           ea \in SUBSET Windows, sa \in BOOLEAN, ic \in Nat :
             v = [mirrors |-> mi, buffered |-> bu, early |-> ea, saw |-> sa, icons |-> ic]
  BY WorldRecord
<1>1. u = DestroyMirror(v, w)
  BY DEF Deliver, WindowClosed
<1>2. u = [mirrors |-> [v.mirrors EXCEPT ![w] = None], buffered |-> [v.buffered EXCEPT ![w] = None],
           early |-> IF v.mirrors[w] # None THEN v.early \ {w} ELSE v.early,
           saw |-> v.saw, icons |-> v.icons]
  BY <1>0, <1>1 DEF DestroyMirror
<1>3. QED
  BY <1>2, WorldShape DEF World, Shape, Option, ClosedWorld

ShownWorld(v, w, u) ==
  /\ u \in World /\ u.icons = v.icons /\ u.mirrors = v.mirrors /\ u.buffered = v.buffered
  /\ u.early = IF v.mirrors[w] = None THEN v.early \cup {w} ELSE v.early

LEMMA DeliverVideo ==
  ASSUME NEW v \in World, NEW w \in Windows
  PROVE  ShownWorld(v, w, Deliver(v, Video(w)))
<1> DEFINE u == Deliver(v, Video(w))
<1>1. u = IF v.mirrors[w] = None THEN [v EXCEPT !.early = @ \cup {w}] ELSE v
  BY DEF Deliver, Video
<1>2. u = [mirrors |-> v.mirrors, buffered |-> v.buffered,
           early |-> IF v.mirrors[w] = None THEN v.early \cup {w} ELSE v.early,
           saw |-> v.saw, icons |-> v.icons]
  BY <1>1, WorldShape
<1>3. QED
  BY <1>2, WorldShape DEF World, Shape, ShownWorld

LEMMA DeliverIcon ==
  ASSUME NEW v \in World
  PROVE  LET u == Deliver(v, Icon)
         IN  /\ u \in World /\ u.icons = v.icons + 1 /\ u.mirrors = v.mirrors
             /\ u.buffered = v.buffered /\ u.early = v.early
<1> DEFINE u == Deliver(v, Icon)
<1>1. u = [v EXCEPT !.icons = @ + 1]
  BY DEF Deliver, Icon
<1>2. u = [mirrors |-> v.mirrors, buffered |-> v.buffered, early |-> v.early,
           saw |-> v.saw, icons |-> v.icons + 1]
  BY <1>1, WorldShape
<1>3. QED
  BY <1>2, WorldShape DEF World, Shape

(* The frames that change a mirror, and the mirror m they make of it.        *)
LEMMA UpdateEffect ==
  ASSUME NEW v \in World, NEW w \in Windows, NEW m, v.mirrors[w] = None \/ m \in Mirror
  PROVE  LET u == UpdateMirror(v, w, m)
         IN  /\ u \in World /\ u.icons = v.icons /\ u.buffered = v.buffered /\ u.early = v.early
             /\ u.mirrors = IF v.mirrors[w] = None THEN v.mirrors ELSE [v.mirrors EXCEPT ![w] = m]
<1> DEFINE u == UpdateMirror(v, w, m)
<1>1. CASE v.mirrors[w] = None
  BY <1>1 DEF UpdateMirror
<1>2. CASE v.mirrors[w] # None
  <2>1. u = [mirrors |-> [v.mirrors EXCEPT ![w] = m], buffered |-> v.buffered, early |-> v.early,
             saw |-> v.saw, icons |-> v.icons]
    BY <1>2, WorldShape DEF UpdateMirror
  <2>2. [v.mirrors EXCEPT ![w] = m] \in [Windows -> Option(Mirror)]
    BY <1>2, WorldShape DEF Shape, Option
  <2>3. QED
    BY <1>2, <2>1, <2>2, WorldShape DEF World, Shape
<1>3. QED
  BY <1>1, <1>2

(* The mirror after the frame f about its window.                            *)
After(m, f) ==
  CASE f.type = "WindowResized"      -> [m EXCEPT !.size = f.size]
    [] f.type = "WindowTitleChanged" -> [m EXCEPT !.title = f.title]
    [] f.type = "WindowMinimized"    -> [m EXCEPT !.minimized = TRUE]
    [] f.type = "WindowRestored"     -> [m EXCEPT !.minimized = FALSE]
    [] f.type = "InputMapping"       -> [m EXCEPT !.mapping = f.mapping]

Updates(w) ==
       {WindowResized(w, s) : s \in Sizes} \cup {WindowTitleChanged(w, t) : t \in Titles}
  \cup {WindowMinimized(w), WindowRestored(w)}

LEMMA AfterMirror ==
  ASSUME NEW w \in Windows, NEW m \in Mirror,
         NEW f \in Updates(w) \cup {InputMapping(w, n) : n \in Mappings}
  PROVE  After(m, f) \in Mirror
<1>1. CASE f \in {WindowResized(w, s) : s \in Sizes}
  BY <1>1 DEF After, Mirror, WindowResized
<1>2. CASE f \in {WindowTitleChanged(w, t) : t \in Titles}
  BY <1>2 DEF After, Mirror, WindowTitleChanged
<1>3. CASE f = WindowMinimized(w)
  BY <1>3 DEF After, Mirror, WindowMinimized
<1>4. CASE f \in {InputMapping(w, n) : n \in Mappings}
  BY <1>4 DEF After, Mirror, InputMapping
<1>5. CASE f = WindowRestored(w)
  BY <1>5 DEF After, Mirror, WindowRestored
<1>6. QED
  BY <1>1, <1>2, <1>3, <1>4, <1>5 DEF Updates

UpdatedWorld(v, w, f, u) ==
  /\ u \in World /\ u.icons = v.icons /\ u.buffered = v.buffered /\ u.early = v.early
  /\ u.mirrors = IF v.mirrors[w] = None THEN v.mirrors
                 ELSE [v.mirrors EXCEPT ![w] = After(v.mirrors[w], f)]

LEMMA DeliverUpdate ==
  ASSUME NEW v \in World, NEW w \in Windows, NEW f \in Updates(w)
  PROVE  UpdatedWorld(v, w, f, Deliver(v, f))
<1> DEFINE u == Deliver(v, f)
           m == After(v.mirrors[w], f)
<1>1. u = UpdateMirror(v, w, m)
  <2>1. CASE f \in {WindowResized(w, s) : s \in Sizes}
    BY <2>1 DEF Deliver, After, WindowResized
  <2>2. CASE f \in {WindowTitleChanged(w, t) : t \in Titles}
    BY <2>2 DEF Deliver, After, WindowTitleChanged
  <2>3. CASE f = WindowMinimized(w)
    BY <2>3 DEF Deliver, After, WindowMinimized
  <2>4. CASE f = WindowRestored(w)
    BY <2>4 DEF Deliver, After, WindowRestored
  <2>5. QED
    BY <2>1, <2>2, <2>3, <2>4 DEF Updates
<1>2. v.mirrors[w] = None \/ m \in Mirror
  BY WorldShape, AfterMirror DEF Shape, Option
<1> HIDE DEF m
<1>3. /\ u \in World /\ u.icons = v.icons /\ u.buffered = v.buffered /\ u.early = v.early
      /\ u.mirrors = IF v.mirrors[w] = None THEN v.mirrors ELSE [v.mirrors EXCEPT ![w] = m]
  BY <1>1, <1>2, UpdateEffect
<1>4. QED
  BY <1>3 DEF m, UpdatedWorld

MappedWorld(v, w, n, u) ==
  /\ u \in World /\ u.icons = v.icons /\ u.early = v.early
  /\ u.buffered = [v.buffered EXCEPT ![w] = n]
  /\ u.mirrors = IF v.mirrors[w] = None THEN v.mirrors
                 ELSE [v.mirrors EXCEPT ![w] = [v.mirrors[w] EXCEPT !.mapping = n]]

LEMMA DeliverMapping ==
  ASSUME NEW v \in World, NEW w \in Windows, NEW n \in Mappings
  PROVE  MappedWorld(v, w, n, Deliver(v, InputMapping(w, n)))
<1> DEFINE u == Deliver(v, InputMapping(w, n))
           b == [v EXCEPT !.buffered[w] = n]
           m == [v.mirrors[w] EXCEPT !.mapping = n]
<1>1. u = UpdateMirror(b, w, m)
  BY DEF Deliver, InputMapping
<1>2. b = [mirrors |-> v.mirrors, buffered |-> [v.buffered EXCEPT ![w] = n], early |-> v.early,
           saw |-> v.saw, icons |-> v.icons]
  BY WorldShape
<1>3. b \in World
  BY <1>2, WorldShape DEF World, Shape, Option
<1>4. v.mirrors[w] # None => m \in Mirror
  BY WorldShape DEF Shape, Option, Mirror
<1>5. /\ b.mirrors = v.mirrors /\ b.buffered = [v.buffered EXCEPT ![w] = n]
      /\ b.early = v.early /\ b.icons = v.icons
  BY <1>2
<1> HIDE DEF b, m
<1>6. /\ u \in World /\ u.icons = b.icons /\ u.buffered = b.buffered /\ u.early = b.early
      /\ u.mirrors = IF b.mirrors[w] = None THEN b.mirrors ELSE [b.mirrors EXCEPT ![w] = m]
  <2>1. b.mirrors[w] = None \/ m \in Mirror
    BY <1>4, <1>5
  <2> DEFINE x == UpdateMirror(b, w, m)
  <2>2. /\ x \in World /\ x.icons = b.icons /\ x.buffered = b.buffered /\ x.early = b.early
        /\ x.mirrors = IF b.mirrors[w] = None THEN b.mirrors ELSE [b.mirrors EXCEPT ![w] = m]
    BY <1>3, <2>1, UpdateEffect
  <2>3. QED
    BY <1>1, <2>2
<1>7. QED
  BY <1>5, <1>6 DEF m, MappedWorld

(* A frame is one of these.                                                  *)
LEMMA FrameKinds ==
  ASSUME NEW f \in DownFrame
  PROVE  \/ f = Icon
         \/ \E w \in Windows :
              \/ \E t \in Titles, s \in Sizes : f = WindowOpened(w, t, s)
              \/ f = WindowClosed(w) \/ f = Video(w) \/ f \in Updates(w)
              \/ \E n \in Mappings : f = InputMapping(w, n)
BY DEF DownFrame, Updates

LEMMA DeliverWorld ==
  ASSUME NEW v \in World, NEW f \in DownFrame
  PROVE  Deliver(v, f) \in World
<1>1. Deliver(v, Icon) \in World
  BY DeliverIcon
<1>2. ASSUME NEW w \in Windows
      PROVE  /\ \A t \in Titles, s \in Sizes : Deliver(v, WindowOpened(w, t, s)) \in World
             /\ Deliver(v, WindowClosed(w)) \in World /\ Deliver(v, Video(w)) \in World
             /\ \A g \in Updates(w) : Deliver(v, g) \in World
             /\ \A n \in Mappings : Deliver(v, InputMapping(w, n)) \in World
  BY DeliverOpened, DeliverClosed, DeliverVideo, DeliverUpdate, DeliverMapping
     DEF OpenedWorld, ClosedWorld, ShownWorld, UpdatedWorld, MappedWorld
<1>3. QED
  BY <1>1, <1>2, FrameKinds

(* Icons are counted by the frames alone.                                    *)
LEMMA IconsCounted ==
  ASSUME NEW v \in World, NEW f \in DownFrame
  PROVE  Deliver(v, f).icons = IF f = Icon THEN v.icons + 1 ELSE v.icons
<1>1. Deliver(v, Icon).icons = v.icons + 1
  BY DeliverIcon
<1>2. ASSUME NEW w \in Windows
      PROVE  /\ \A t \in Titles, s \in Sizes : Deliver(v, WindowOpened(w, t, s)).icons = v.icons
             /\ Deliver(v, WindowClosed(w)).icons = v.icons
             /\ Deliver(v, Video(w)).icons = v.icons
             /\ \A g \in Updates(w) : Deliver(v, g).icons = v.icons
             /\ \A n \in Mappings : Deliver(v, InputMapping(w, n)).icons = v.icons
  <2>1. /\ \A t \in Titles, s \in Sizes : OpenedWorld(v, w, t, s, Deliver(v, WindowOpened(w, t, s)))
        /\ ClosedWorld(v, w, Deliver(v, WindowClosed(w)))
        /\ ShownWorld(v, w, Deliver(v, Video(w)))
        /\ \A g \in Updates(w) : UpdatedWorld(v, w, g, Deliver(v, g))
        /\ \A n \in Mappings : MappedWorld(v, w, n, Deliver(v, InputMapping(w, n)))
    BY DeliverOpened, DeliverClosed, DeliverVideo, DeliverUpdate, DeliverMapping
  <2>2. QED
    BY <2>1 DEF OpenedWorld, ClosedWorld, ShownWorld, UpdatedWorld, MappedWorld
<1>3. f # Icon => Deliver(v, f).icons = v.icons
  BY <1>2, FrameKinds
<1>4. QED
  BY <1>1, <1>3

(* Worlds that differ in early frames only, and keep doing so.               *)
Fewer(u, v) == u.mirrors = v.mirrors /\ u.buffered = v.buffered /\ u.early \subseteq v.early

LEMMA FewerStays ==
  ASSUME NEW u \in World, NEW v \in World, Fewer(u, v), NEW f \in DownFrame
  PROVE  Fewer(Deliver(u, f), Deliver(v, f))
<1>1. Fewer(Deliver(u, Icon), Deliver(v, Icon))
  BY DeliverIcon DEF Fewer
<1>2. ASSUME NEW w \in Windows, NEW t \in Titles, NEW s \in Sizes
      PROVE  Fewer(Deliver(u, WindowOpened(w, t, s)), Deliver(v, WindowOpened(w, t, s)))
  <2>1. Announced(u, w, t, s) = Announced(v, w, t, s)
    BY DEF Fewer, Announced
  <2>2. /\ OpenedWorld(u, w, t, s, Deliver(u, WindowOpened(w, t, s)))
        /\ OpenedWorld(v, w, t, s, Deliver(v, WindowOpened(w, t, s)))
    BY DeliverOpened
  <2>3. QED
    BY <2>1, <2>2 DEF Fewer, OpenedWorld
<1>3. ASSUME NEW w \in Windows
      PROVE  Fewer(Deliver(u, WindowClosed(w)), Deliver(v, WindowClosed(w)))
  <2>1. ClosedWorld(u, w, Deliver(u, WindowClosed(w))) /\ ClosedWorld(v, w, Deliver(v, WindowClosed(w)))
    BY DeliverClosed
  <2>2. QED
    BY <2>1 DEF Fewer, ClosedWorld
<1>4. ASSUME NEW w \in Windows
      PROVE  Fewer(Deliver(u, Video(w)), Deliver(v, Video(w)))
  <2>1. ShownWorld(u, w, Deliver(u, Video(w))) /\ ShownWorld(v, w, Deliver(v, Video(w)))
    BY DeliverVideo
  <2>2. QED
    BY <2>1 DEF Fewer, ShownWorld
<1>5. ASSUME NEW w \in Windows, NEW g \in Updates(w)
      PROVE  Fewer(Deliver(u, g), Deliver(v, g))
  <2>1. UpdatedWorld(u, w, g, Deliver(u, g)) /\ UpdatedWorld(v, w, g, Deliver(v, g))
    BY DeliverUpdate
  <2>2. QED
    BY <2>1 DEF Fewer, UpdatedWorld
<1>6. ASSUME NEW w \in Windows, NEW n \in Mappings
      PROVE  Fewer(Deliver(u, InputMapping(w, n)), Deliver(v, InputMapping(w, n)))
  <2>1. MappedWorld(u, w, n, Deliver(u, InputMapping(w, n))) /\ MappedWorld(v, w, n, Deliver(v, InputMapping(w, n)))
    BY DeliverMapping
  <2>2. QED
    BY <2>1 DEF Fewer, MappedWorld
<1>7. QED
  BY <1>1, <1>2, <1>3, <1>4, <1>5, <1>6, FrameKinds

(* The same along a whole queue.                                             *)
LEMMA QueueInWorld ==
  ASSUME NEW v \in World, NEW fs \in Seq(DownFrame)
  PROVE  \A k \in 0..Len(fs) : Draining(v, fs)[k] \in World
<1> DEFINE T == {k \in Nat : k <= Len(fs) => Draining(v, fs)[k] \in World}
<1>0. Len(fs) \in Nat
  OBVIOUS
<1>1. 0 \in T
  BY <1>0, DrainingAt
<1>2. ASSUME NEW k \in T \cap Nat
      PROVE  k + 1 \in T
  <2>1. SUFFICES ASSUME k + 1 <= Len(fs) PROVE Draining(v, fs)[k + 1] \in World
    OBVIOUS
  <2>2. k + 1 \in 1..Len(fs) /\ (k + 1) - 1 = k /\ fs[k + 1] \in DownFrame
    BY <1>0, <2>1
  <2>3. Draining(v, fs)[k + 1] = Deliver(Draining(v, fs)[k], fs[k + 1])
    BY <1>0, <2>2, DrainingAt
  <2>4. Draining(v, fs)[k] \in World
    BY <1>0, <2>1
  <2>5. QED
    BY <2>2, <2>3, <2>4, DeliverWorld
<1>3. Nat \subseteq T
  <2> HIDE DEF T
  <2>1. QED
    BY <1>1, <1>2, SetInduction
<1>4. QED
  BY <1>0, <1>3

LEMMA DrainedWorld ==
  ASSUME NEW v \in World, NEW fs \in Seq(DownFrame)
  PROVE  Drained(v, fs) \in World
<1>1. Len(fs) \in 0..Len(fs)
  OBVIOUS
<1>2. QED
  BY <1>1, QueueInWorld DEF Drained

LEMMA QueueAlike ==
  ASSUME NEW u \in World, NEW v \in World, NEW fs \in Seq(DownFrame)
  PROVE  /\ u.icons = v.icons => Drained(u, fs).icons = Drained(v, fs).icons
         /\ Fewer(u, v) => Fewer(Drained(u, fs), Drained(v, fs))
<1> DEFINE Alike(x, y) == /\ u.icons = v.icons => x.icons = y.icons
                          /\ Fewer(u, v) => Fewer(x, y)
           T == {k \in Nat : k <= Len(fs) => Alike(Draining(u, fs)[k], Draining(v, fs)[k])}
<1>0. Len(fs) \in Nat
  OBVIOUS
<1>1. 0 \in T
  BY <1>0, DrainingAt
<1>2. ASSUME NEW k \in T \cap Nat
      PROVE  k + 1 \in T
  <2>1. SUFFICES ASSUME k + 1 <= Len(fs)
                 PROVE  Alike(Draining(u, fs)[k + 1], Draining(v, fs)[k + 1])
    OBVIOUS
  <2>2. k + 1 \in 1..Len(fs) /\ (k + 1) - 1 = k /\ fs[k + 1] \in DownFrame /\ k \in 0..Len(fs)
    BY <1>0, <2>1
  <2>3. /\ Draining(u, fs)[k + 1] = Deliver(Draining(u, fs)[k], fs[k + 1])
        /\ Draining(v, fs)[k + 1] = Deliver(Draining(v, fs)[k], fs[k + 1])
    BY <1>0, <2>2, DrainingAt
  <2>4. Alike(Draining(u, fs)[k], Draining(v, fs)[k])
    BY <1>0, <2>1
  <2>5. Draining(u, fs)[k] \in World /\ Draining(v, fs)[k] \in World
    BY <2>2, QueueInWorld
  <2>6. QED
    BY <2>2, <2>3, <2>4, <2>5, IconsCounted, FewerStays
<1>3. Nat \subseteq T
  <2> HIDE DEF T
  <2>1. QED
    BY <1>1, <1>2, SetInduction
<1>4. Len(fs) \in T
  BY <1>0, <1>3
<1>5. QED
  BY <1>0, <1>4 DEF Drained

----------------------------------------------------------------------------
(* What a replay rebuilds.                                                   *)

(* The mirror that shows the record r.                                       *)
MirrorOf(r) ==
  [title |-> r.title, size |-> r.size, minimized |-> r.minimized,
   mapping |-> IF r.mapping = None THEN Identity ELSE r.mapping]

LEMMA MirrorOfRecord ==
  ASSUME NEW r \in WindowReplay
  PROVE  MirrorOf(r) \in Mirror /\ MirrorOf(r) # None
<1>1. MirrorOf(r) \in Mirror
  BY DataAssumption DEF MirrorOf, Mirror, WindowReplay, Option
<1>2. QED
  BY <1>1, MirrorAssumption

(* The world u is v with a mirror for the record r of w.                     *)
ReplayedWorld(v, w, r, u) ==
  /\ u \in World /\ u.icons = v.icons /\ u.early = v.early
  /\ u.mirrors = [v.mirrors EXCEPT ![w] = MirrorOf(r)]
  /\ u.buffered = [v.buffered EXCEPT ![w] = r.mapping]

LEMMA ReplayWindowFrames ==
  ASSUME NEW w \in Windows, NEW r \in WindowReplay
  PROVE  ReplayWindow(w, r) \in Seq(DownFrame)
<1>1. /\ <<WindowOpened(w, r.title, r.size)>> \in Seq(DownFrame)
      /\ (IF r.minimized THEN <<WindowMinimized(w)>> ELSE <<>>) \in Seq(DownFrame)
      /\ (IF r.mapping # None THEN <<InputMapping(w, r.mapping)>> ELSE <<>>) \in Seq(DownFrame)
  <2>1. /\ WindowOpened(w, r.title, r.size) \in DownFrame
        /\ WindowMinimized(w) \in DownFrame
        /\ r.mapping # None => InputMapping(w, r.mapping) \in DownFrame
    BY DEF DownFrame, WindowReplay, Option
  <2> HIDE DEF DownFrame
  <2>2. QED
    BY <2>1
<1>2. QED
  BY <1>1, ConcatProperties DEF ReplayWindow

LEMMA ReplayWindowDrained ==
  ASSUME NEW v \in World, NEW w \in Windows, NEW r \in WindowReplay,
         v.mirrors[w] = None, v.buffered[w] = None, v.early = {}
  PROVE  ReplayedWorld(v, w, r, Drained(v, ReplayWindow(w, r)))
<1> DEFINE o == WindowOpened(w, r.title, r.size)
           A == IF r.minimized THEN <<WindowMinimized(w)>> ELSE <<>>
           B == IF r.mapping # None THEN <<InputMapping(w, r.mapping)>> ELSE <<>>
           x == Deliver(v, o)
           y == IF r.minimized THEN Deliver(x, WindowMinimized(w)) ELSE x
           z == IF r.mapping # None THEN Deliver(y, InputMapping(w, r.mapping)) ELSE y
           m == [title |-> r.title, size |-> r.size, minimized |-> FALSE, mapping |-> Identity]
           n == [title |-> r.title, size |-> r.size, minimized |-> r.minimized, mapping |-> Identity]
<1>1. Drained(v, ReplayWindow(w, r)) = z
  <2>1. <<o>> \in Seq(DownFrame) /\ A \in Seq(DownFrame) /\ B \in Seq(DownFrame)
    <3>1. /\ o \in DownFrame /\ WindowMinimized(w) \in DownFrame
          /\ r.mapping # None => InputMapping(w, r.mapping) \in DownFrame
      BY DEF DownFrame, WindowReplay, Option
    <3> HIDE DEF o
    <3>2. QED
      BY <3>1
  <2>2. Drained(x, A) = y
    BY DrainedOne, DrainedEmpty
  <2>3. Drained(y, B) = z
    BY DrainedOne, DrainedEmpty
  <2>4. ReplayWindow(w, r) = (<<o>> \o A) \o B
    BY DEF ReplayWindow
  <2> HIDE DEF o, A, B, x, y, z
  <2>5. <<o>> \o A \in Seq(DownFrame)
    BY <2>1, ConcatProperties
  <2>6. Drained(v, <<o>> \o A) = Drained(Drained(v, <<o>>), A)
    BY <2>1, DrainedConcat
  <2>7. Drained(v, (<<o>> \o A) \o B) = Drained(Drained(v, <<o>> \o A), B)
    BY <2>1, <2>5, DrainedConcat
  <2>8. Drained(v, <<o>>) = x
    BY DrainedOne DEF x
  <2>9. QED
    BY <2>2, <2>3, <2>4, <2>6, <2>7, <2>8
<1>2. r.title \in Titles /\ r.size \in Sizes /\ r.minimized \in BOOLEAN /\ r.mapping \in Option(Mappings)
  BY DEF WindowReplay
<1>3. /\ x \in World /\ x.icons = v.icons /\ x.early = {} /\ x.buffered = v.buffered
      /\ x.mirrors = [v.mirrors EXCEPT ![w] = m]
  <2>1. OpenedWorld(v, w, r.title, r.size, x)
    BY <1>2, DeliverOpened
  <2>2. Announced(v, w, r.title, r.size) = m
    BY DEF Announced
  <2> HIDE DEF x, m
  <2>3. QED
    BY <2>1, <2>2 DEF OpenedWorld
<1>4. /\ v.mirrors \in [Windows -> Option(Mirror)] /\ v.buffered \in [Windows -> Option(Mappings)]
      /\ m # None /\ n # None
  <2>1. m \in Mirror /\ n \in Mirror
    BY <1>2, DataAssumption DEF Mirror
  <2> HIDE DEF m, n
  <2>2. QED
    BY <2>1, MirrorAssumption, WorldShape DEF Shape
<1>5. /\ y \in World /\ y.icons = v.icons /\ y.early = {} /\ y.buffered = v.buffered
      /\ y.mirrors = [v.mirrors EXCEPT ![w] = n]
  <2>1. CASE r.minimized
    <3>1. WindowMinimized(w) \in Updates(w)
      BY DEF Updates
    <3> HIDE DEF x
    <3>2. UpdatedWorld(x, w, WindowMinimized(w), Deliver(x, WindowMinimized(w)))
      BY <1>3, <3>1, DeliverUpdate
    <3>3. After(m, WindowMinimized(w)) = n
      BY <2>1 DEF After, WindowMinimized
    <3>4. x.mirrors[w] = m
      BY <1>3, <1>4
    <3>5. y = Deliver(x, WindowMinimized(w))
      BY <2>1
    <3> HIDE DEF y, m, n
    <3>6. QED
      BY <1>3, <1>4, <3>2, <3>3, <3>4, <3>5 DEF UpdatedWorld
  <2>2. CASE ~r.minimized
    <3>1. n = m
      BY <1>2, <2>2
    <3>2. y = x
      BY <2>2
    <3> HIDE DEF x, y, m, n
    <3>3. QED
      BY <1>3, <3>1, <3>2
  <2>3. QED
    BY <2>1, <2>2
<1>6. ReplayedWorld(v, w, r, z)
  <2>1. CASE r.mapping # None
    <3>1. r.mapping \in Mappings
      BY <1>2, <2>1 DEF Option
    <3>2. z = Deliver(y, InputMapping(w, r.mapping))
      BY <2>1
    <3>3. MirrorOf(r) = [n EXCEPT !.mapping = r.mapping]
      BY <2>1 DEF MirrorOf
    <3> HIDE DEF y, z, n, m
    <3>4. MappedWorld(y, w, r.mapping, Deliver(y, InputMapping(w, r.mapping)))
      BY <1>5, <3>1, DeliverMapping
    <3>5. y.mirrors[w] = n
      BY <1>4, <1>5
    <3>6. QED
      BY <1>4, <1>5, <3>2, <3>3, <3>4, <3>5 DEF MappedWorld, ReplayedWorld
  <2>2. CASE r.mapping = None
    <3>1. MirrorOf(r) = n
      BY <2>2 DEF MirrorOf
    <3>2. z = y
      BY <2>2
    <3>3. v.buffered = [v.buffered EXCEPT ![w] = r.mapping]
      BY <1>4, <2>2
    <3> HIDE DEF y, z, n, m
    <3>4. QED
      BY <1>5, <3>1, <3>2, <3>3 DEF ReplayedWorld
  <2>3. QED
    BY <2>1, <2>2
<1>7. QED
  BY <1>1, <1>6

(* The frames of a replay, one window identifier after the other.            *)
ReplayStep(g, ws, n) ==
  IF n - 1 \in Present(ws) THEN g[n - 1] \o ReplayWindow(n - 1, ws[n - 1]) ELSE g[n - 1]

LEMMA ReplayAt ==
  ASSUME NEW fs, NEW ws
  PROVE  \E g : /\ g[0] = fs
                /\ \A n \in 1..IdBound : g[n] = ReplayStep(g, ws, n)
                /\ ReplayFrom(fs, ws) = g[IdBound]
<1> DEFINE G(g, k) == g = [n \in 0..k |-> IF n = 0 THEN fs ELSE ReplayStep(g, ws, n)]
           S == {k \in Nat : \E g : G(g, k)}
<1>1. 0 \in S
  <2>1. G([n \in 0..0 |-> fs], 0)
    OBVIOUS
  <2>2. QED
    BY <2>1
<1>2. ASSUME NEW k \in S \cap Nat
      PROVE  k + 1 \in S
  <2>1. PICK g : G(g, k)
    BY DEF S
  <2> DEFINE h == [n \in 0..(k + 1) |-> IF n = k + 1 THEN ReplayStep(g, ws, n) ELSE g[n]]
  <2>2. ASSUME NEW n \in 0..(k + 1)
        PROVE  h[n] = IF n = 0 THEN fs ELSE ReplayStep(h, ws, n)
    <3>1. CASE n = k + 1
      <4>1. h[k] = g[k] /\ n - 1 = k
        BY <3>1
      <4>2. h[n] = ReplayStep(g, ws, n)
        BY <3>1
      <4> HIDE DEF h
      <4>3. QED
        BY <3>1, <4>1, <4>2 DEF ReplayStep
    <3>2. CASE n # k + 1
      <4>1. n \in 0..k /\ (n # 0 => n - 1 \in 0..k)
        BY <3>2
      <4>2. h[n] = g[n] /\ (n # 0 => h[n - 1] = g[n - 1])
        BY <4>1
      <4> HIDE DEF h
      <4>3. QED
        BY <2>1, <4>1, <4>2 DEF ReplayStep
    <3>3. QED
      BY <3>1, <3>2
  <2>3. G(h, k + 1)
    BY <2>2
  <2>4. \E f : G(f, k + 1)
    <3> HIDE DEF h, G
    <3>1. QED
      BY <2>3
  <2>5. QED
    BY <2>4
<1>3. Nat \subseteq S
  <2> HIDE DEF S
  <2>1. QED
    BY <1>1, <1>2, SetInduction
<1> DEFINE f == CHOOSE g : G(g, IdBound)
<1>4. IdBound \in Nat
  BY DataAssumption
<1>5. \E g : G(g, IdBound)
  <2> HIDE DEF G
  <2>1. QED
    BY <1>3, <1>4
<1>6. G(f, IdBound)
  <2> HIDE DEF G
  <2>1. QED
    BY <1>5
<1>7. ReplayFrom(fs, ws) = f[IdBound]
  BY DEF ReplayFrom, ReplayStep
<1> HIDE DEF f
<1>8. f[0] = fs /\ \A n \in 1..IdBound : f[n] = ReplayStep(f, ws, n)
  BY <1>4, <1>6
<1>9. QED
  BY <1>7, <1>8

(* The world that shows the records ws of the application a, and no more.    *)
MappingsOf(ws) == [w \in Windows |-> IF ws[w] = None THEN None ELSE ws[w].mapping]

Rebuilt(v, a, ws) ==
  /\ v \in World /\ v.mirrors = MirrorsOf(ws) /\ v.buffered = MappingsOf(ws)
  /\ v.early = {} /\ v.icons = Len(IconFrames(a))

LEMMA EmptyIsWorld ==
  /\ EmptyWorld \in World
  /\ EmptyWorld.mirrors = [w \in Windows |-> None] /\ EmptyWorld.buffered = [w \in Windows |-> None]
  /\ EmptyWorld.early = {} /\ EmptyWorld.icons = 0
BY DEF EmptyWorld, World, Option

LEMMA IconRebuilt ==
  ASSUME NEW a
  PROVE  /\ IconFrames(a) \in Seq(DownFrame)
         /\ Rebuilt(Drained(EmptyWorld, IconFrames(a)), a, [w \in Windows |-> None])
<1> DEFINE v == Drained(EmptyWorld, IconFrames(a))
<1>1. /\ MirrorsOf([w \in Windows |-> None]) = [w \in Windows |-> None]
      /\ MappingsOf([w \in Windows |-> None]) = [w \in Windows |-> None]
  BY DEF MirrorsOf, MappingsOf
<1>2. CASE a \in Iconic
  <2>1. IconFrames(a) = <<Icon>> /\ Len(IconFrames(a)) = 1
    BY <1>2 DEF IconFrames
  <2>2. <<Icon>> \in Seq(DownFrame)
    <3>1. Icon \in DownFrame
      BY DEF DownFrame
    <3>2. QED
      BY <3>1
  <2>3. v = Deliver(EmptyWorld, Icon)
    BY <2>1, DrainedOne
  <2>4. /\ v \in World /\ v.icons = 1 /\ v.mirrors = EmptyWorld.mirrors
        /\ v.buffered = EmptyWorld.buffered /\ v.early = EmptyWorld.early
    BY <2>3, EmptyIsWorld, DeliverIcon
  <2> HIDE DEF v
  <2>5. Rebuilt(v, a, [w \in Windows |-> None])
    BY <1>1, <2>1, <2>4, EmptyIsWorld DEF Rebuilt
  <2>6. QED
    BY <2>1, <2>2, <2>5 DEF v
<1>3. CASE a \notin Iconic
  <2>1. IconFrames(a) = <<>> /\ Len(IconFrames(a)) = 0
    BY <1>3 DEF IconFrames
  <2>2. v = EmptyWorld
    BY <2>1, DrainedEmpty
  <2>3. <<>> \in Seq(DownFrame)
    OBVIOUS
  <2> HIDE DEF v
  <2>4. Rebuilt(v, a, [w \in Windows |-> None])
    BY <1>1, <2>1, <2>2, EmptyIsWorld DEF Rebuilt
  <2>5. QED
    BY <2>1, <2>3, <2>4 DEF v
<1>4. QED
  BY <1>2, <1>3

LEMMA ReplayRebuilds ==
  ASSUME NEW a, NEW ws \in [Windows -> Option(WindowReplay)]
  PROVE  /\ ReplayFrames(a, ws) \in Seq(DownFrame)
         /\ Rebuilt(Drained(EmptyWorld, ReplayFrames(a, ws)), a, ws)
<1>0. IdBound \in Nat /\ \A w \in Windows : w \in Nat /\ w < IdBound
  BY DataAssumption
<1>1. PICK g : /\ g[0] = IconFrames(a)
               /\ \A n \in 1..IdBound : g[n] = ReplayStep(g, ws, n)
               /\ ReplayFrames(a, ws) = g[IdBound]
  BY ReplayAt DEF ReplayFrames
<1> DEFINE Below(k) == [w \in Windows |-> IF w < k THEN ws[w] ELSE None]
           Done(k) == /\ g[k] \in Seq(DownFrame)
                      /\ Rebuilt(Drained(EmptyWorld, g[k]), a, Below(k))
           T == {k \in Nat : k <= IdBound => Done(k)}
<1>2. 0 \in T
  <2>1. Below(0) = [w \in Windows |-> None]
    BY <1>0
  <2>2. Done(0)
    BY <1>1, <2>1, IconRebuilt
  <2>3. QED
    BY <2>2
<1>3. ASSUME NEW k \in T \cap Nat
      PROVE  k + 1 \in T
  <2>1. SUFFICES ASSUME k + 1 <= IdBound PROVE Done(k + 1)
    OBVIOUS
  <2>2. k + 1 \in 1..IdBound /\ (k + 1) - 1 = k
    BY <1>0, <2>1
  <2>3. g[k + 1] = IF k \in Present(ws) THEN g[k] \o ReplayWindow(k, ws[k]) ELSE g[k]
    <3>1. g[k + 1] = ReplayStep(g, ws, k + 1)
      BY <1>1, <2>2
    <3>2. QED
      BY <2>2, <3>1 DEF ReplayStep
  <2>4. Done(k)
    BY <1>0, <2>1
  <2>5. CASE k \notin Present(ws)
    <3>1. Below(k + 1) = Below(k)
      <4>1. ASSUME NEW w \in Windows
            PROVE  (IF w < k + 1 THEN ws[w] ELSE None) = (IF w < k THEN ws[w] ELSE None)
        BY <1>0, <2>5 DEF Present
      <4>2. QED
        BY <4>1
    <3> HIDE DEF Below
    <3>2. QED
      BY <2>3, <2>4, <2>5, <3>1
  <2>6. CASE k \in Present(ws)
    <3> DEFINE v == Drained(EmptyWorld, g[k])
               u == Drained(v, ReplayWindow(k, ws[k]))
    <3>1. k \in Windows /\ ws[k] # None /\ ws[k] \in WindowReplay
      BY <2>6 DEF Present, Option
    <3>2. ReplayWindow(k, ws[k]) \in Seq(DownFrame)
      BY <3>1, ReplayWindowFrames
    <3>3. g[k + 1] \in Seq(DownFrame) /\ Drained(EmptyWorld, g[k + 1]) = u
      <4>1. g[k + 1] = g[k] \o ReplayWindow(k, ws[k])
        BY <2>3, <2>6
      <4>2. QED
        BY <2>4, <3>2, <4>1, ConcatProperties, DrainedConcat
    <3>4. v \in World /\ v.mirrors = MirrorsOf(Below(k)) /\ v.buffered = MappingsOf(Below(k))
          /\ v.early = {} /\ v.icons = Len(IconFrames(a))
      BY <2>4 DEF Rebuilt
    <3>5. v.mirrors[k] = None /\ v.buffered[k] = None
      BY <3>1, <3>4 DEF MirrorsOf, MappingsOf
    <3>6. ReplayedWorld(v, k, ws[k], u)
      <4> HIDE DEF v
      <4>1. QED
        BY <3>1, <3>4, <3>5, ReplayWindowDrained
    <3>7. /\ [MirrorsOf(Below(k)) EXCEPT ![k] = MirrorOf(ws[k])] = MirrorsOf(Below(k + 1))
          /\ [MappingsOf(Below(k)) EXCEPT ![k] = ws[k].mapping] = MappingsOf(Below(k + 1))
      <4>1. ASSUME NEW w \in Windows
            PROVE  Below(k + 1)[w] = IF w = k THEN ws[k] ELSE Below(k)[w]
        BY <1>0, <4>1
      <4> HIDE DEF Below
      <4>2. MirrorsOf(Below(k + 1)) = [MirrorsOf(Below(k)) EXCEPT ![k] = MirrorOf(ws[k])]
        BY <3>1, <4>1 DEF MirrorsOf, MirrorOf
      <4>3. MappingsOf(Below(k + 1)) = [MappingsOf(Below(k)) EXCEPT ![k] = ws[k].mapping]
        BY <3>1, <4>1 DEF MappingsOf
      <4>4. QED
        BY <4>2, <4>3
    <3>8. Rebuilt(u, a, Below(k + 1))
      <4> HIDE DEF u, v, Below
      <4>1. QED
        BY <3>4, <3>6, <3>7 DEF Rebuilt, ReplayedWorld
    <3>9. QED
      BY <3>3, <3>8
  <2>7. QED
    BY <2>5, <2>6
<1>4. Nat \subseteq T
  <2> HIDE DEF T
  <2>1. QED
    BY <1>2, <1>3, SetInduction
<1>5. Done(IdBound)
  BY <1>0, <1>4
<1>6. Below(IdBound) = ws
  BY <1>0
<1>7. QED
  <2> HIDE DEF Below
  <2>1. QED
    BY <1>1, <1>5, <1>6

----------------------------------------------------------------------------
(* A world that shows the records ws: for each window, what is recorded.     *)
Follows(v, ws) == v.mirrors = MirrorsOf(ws) /\ v.buffered = MappingsOf(ws)

Agree(v, ws, w) ==
  /\ v.mirrors[w] = IF ws[w] = None THEN None ELSE MirrorOf(ws[w])
  /\ v.buffered[w] = IF ws[w] = None THEN None ELSE ws[w].mapping

LEMMA FollowsAt ==
  ASSUME NEW v \in World, NEW ws
  PROVE  Follows(v, ws) <=> \A w \in Windows : Agree(v, ws, w)
<1>1. /\ v.mirrors = [w \in Windows |-> v.mirrors[w]]
      /\ v.buffered = [w \in Windows |-> v.buffered[w]]
  BY WorldShape DEF Shape
<1>2. ASSUME Follows(v, ws), NEW w \in Windows
      PROVE  Agree(v, ws, w)
  BY <1>2 DEF Follows, Agree, MirrorsOf, MappingsOf, MirrorOf
<1>3. ASSUME \A w \in Windows : Agree(v, ws, w)
      PROVE  Follows(v, ws)
  <2>1. v.mirrors = MirrorsOf(ws)
    BY <1>1, <1>3 DEF Agree, MirrorsOf, MirrorOf
  <2>2. v.buffered = MappingsOf(ws)
    BY <1>1, <1>3 DEF Agree, MappingsOf
  <2>3. QED
    BY <2>1, <2>2 DEF Follows
<1>4. QED
  BY <1>2, <1>3

LEMMA FollowsPresent ==
  ASSUME NEW v \in World, NEW ws \in [Windows -> Option(WindowReplay)], Follows(v, ws),
         NEW w \in Windows
  PROVE  v.mirrors[w] = None <=> ws[w] = None
<1>1. ws[w] = None \/ ws[w] \in WindowReplay
  BY DEF Option
<1>2. Agree(v, ws, w)
  BY FollowsAt
<1>3. QED
  BY <1>1, <1>2, MirrorOfRecord DEF Agree

(* What the frames about one window make of such a world: the records us     *)
(* differ from ws in that window alone.                                      *)
LEMMA FollowsUpdate ==
  ASSUME NEW v \in World, NEW u, NEW ws \in [Windows -> Option(WindowReplay)], NEW us,
         NEW w \in Windows, NEW f, ws[w] # None, us[w] # None,
         Follows(v, ws), UpdatedWorld(v, w, f, u),
         \A x \in Windows : x # w => us[x] = ws[x],
         MirrorOf(us[w]) = After(MirrorOf(ws[w]), f), us[w].mapping = ws[w].mapping
  PROVE  Follows(u, us)
<1>1. u \in World /\ \A x \in Windows : Agree(v, ws, x)
  BY FollowsAt DEF UpdatedWorld
<1>2. v.mirrors[w] # None /\ v.mirrors[w] = MirrorOf(ws[w])
  BY <1>1, FollowsPresent DEF Agree
<1>3. /\ u.mirrors[w] = MirrorOf(us[w]) /\ u.buffered[w] = us[w].mapping
      /\ \A x \in Windows : x # w => u.mirrors[x] = v.mirrors[x] /\ u.buffered[x] = v.buffered[x]
  BY <1>1, <1>2, WorldShape DEF UpdatedWorld, Agree, Shape
<1>4. \A x \in Windows : Agree(u, us, x)
  BY <1>1, <1>3 DEF Agree
<1>5. QED
  BY <1>1, <1>4, FollowsAt

LEMMA FollowsMapping ==
  ASSUME NEW v \in World, NEW u, NEW ws \in [Windows -> Option(WindowReplay)], NEW us,
         NEW w \in Windows, NEW n \in Mappings, ws[w] # None,
         Follows(v, ws), MappedWorld(v, w, n, u),
         \A x \in Windows : x # w => us[x] = ws[x],
         us[w] = [ws[w] EXCEPT !.mapping = n]
  PROVE  Follows(u, us)
<1>1. u \in World /\ \A x \in Windows : Agree(v, ws, x)
  BY FollowsAt DEF MappedWorld
<1>2. v.mirrors[w] # None /\ v.mirrors[w] = MirrorOf(ws[w])
  BY <1>1, FollowsPresent DEF Agree
<1>3. us[w] # None /\ us[w].mapping = n /\ MirrorOf(us[w]) = [MirrorOf(ws[w]) EXCEPT !.mapping = n]
  <2>1. ws[w] \in WindowReplay /\ n # None
    BY DataAssumption DEF Option
  <2>2. us[w] \in WindowReplay /\ us[w].mapping = n
    BY <2>1 DEF WindowReplay, Option
  <2>3. MirrorOf(us[w]) = [MirrorOf(ws[w]) EXCEPT !.mapping = n]
    BY <2>1, <2>2 DEF WindowReplay, MirrorOf
  <2>4. QED
    BY <2>2, <2>3, ReplayAssumption
<1>4. /\ u.mirrors[w] = MirrorOf(us[w]) /\ u.buffered[w] = us[w].mapping
      /\ \A x \in Windows : x # w => u.mirrors[x] = v.mirrors[x] /\ u.buffered[x] = v.buffered[x]
  BY <1>2, <1>3, WorldShape DEF MappedWorld, Shape
<1>5. \A x \in Windows : Agree(u, us, x)
  BY <1>1, <1>3, <1>4 DEF Agree
<1>6. QED
  BY <1>1, <1>5, FollowsAt

LEMMA FollowsClose ==
  ASSUME NEW v \in World, NEW u, NEW ws, NEW us, NEW w \in Windows,
         Follows(v, ws), ClosedWorld(v, w, u),
         \A x \in Windows : x # w => us[x] = ws[x], us[w] = None
  PROVE  Follows(u, us)
<1>1. u \in World /\ \A x \in Windows : Agree(v, ws, x)
  BY FollowsAt DEF ClosedWorld
<1>2. /\ u.mirrors[w] = None /\ u.buffered[w] = None
      /\ \A x \in Windows : x # w => u.mirrors[x] = v.mirrors[x] /\ u.buffered[x] = v.buffered[x]
  BY WorldShape DEF ClosedWorld, Shape
<1>3. \A x \in Windows : Agree(u, us, x)
  BY <1>1, <1>2 DEF Agree
<1>4. QED
  BY <1>1, <1>3, FollowsAt

LEMMA FollowsOpen ==
  ASSUME NEW v \in World, NEW u, NEW ws, NEW us, NEW w \in Windows,
         us[w] \in WindowReplay, Follows(v, ws), ReplayedWorld(v, w, us[w], u),
         \A x \in Windows : x # w => us[x] = ws[x]
  PROVE  Follows(u, us)
<1>1. u \in World /\ \A x \in Windows : Agree(v, ws, x)
  BY FollowsAt DEF ReplayedWorld
<1>2. us[w] # None
  BY ReplayAssumption
<1>3. /\ u.mirrors[w] = MirrorOf(us[w]) /\ u.buffered[w] = us[w].mapping
      /\ \A x \in Windows : x # w => u.mirrors[x] = v.mirrors[x] /\ u.buffered[x] = v.buffered[x]
  BY WorldShape DEF ReplayedWorld, Shape
<1>4. \A x \in Windows : Agree(u, us, x)
  BY <1>1, <1>2, <1>3 DEF Agree
<1>5. QED
  BY <1>1, <1>4, FollowsAt

----------------------------------------------------------------------------
(* The world on which a helper settles after the step, and what the          *)
(* invariant asks of it.                                                     *)
Then(p) == Drained(world'[p], down'[p])

LEMMA NextPromises ==
  /\ (\A p \in Pids : phase'[p] # "gone" => Then(p).icons = Len(IconFrames(app_id'[p])))
       => IconOnce'
  /\ (\A p \in Pids : phase'[p] # "gone" => Then(p).early = {}) => NoOrphanFrames'
  /\ (\A a \in Apps : running'[a] # None /\ phase'[running'[a]] # "gone"
                        => Follows(Then(running'[a]), windows'[a])) => WorldsFollow'
  /\ (\A w \in Windows : routes'[w] # None /\ phase'[routes'[w]] # "gone"
                           => Then(routes'[w]).mirrors[w] # None) => RoutedShown'
BY DEF Then, IconOnce, NoOrphanFrames, WorldsFollow, RoutedShown, Settled, Follows, MappingsOf, Alive

LEMMA Promises ==
  /\ IconOnce => \A p \in Pids : phase[p] # "gone" => Settled(p).icons = Len(IconFrames(app_id[p]))
  /\ NoOrphanFrames => \A p \in Pids : phase[p] # "gone" => Settled(p).early = {}
  /\ WorldsFollow => \A a \in Apps : running[a] # None /\ phase[running[a]] # "gone"
                                       => Follows(Settled(running[a]), windows[a])
  /\ RoutedShown => \A w \in Windows : routes[w] # None /\ phase[routes[w]] # "gone"
                                         => Settled(routes[w]).mirrors[w] # None
BY DEF IconOnce, NoOrphanFrames, WorldsFollow, RoutedShown, Settled, Follows, MappingsOf, Alive

(* What is owed while the toolkit refuses no window.                         *)
Owed == WorldsFollow /\ RoutedShown /\ NoOrphanFrames

(* Steps after which every helper settles where it would have settled, early *)
(* frames apart.                                                             *)
LEMMA SettledIcons ==
  ASSUME IconOnce, app_id' = app_id,
         \A p \in Pids : phase'[p] # "gone" =>
           phase[p] # "gone" /\ Then(p).icons = Settled(p).icons
  PROVE  IconOnce'
BY NextPromises, Promises

LEMMA SettledOwed ==
  ASSUME TypeOK, TypeOK', Owed,
         \A p \in Pids : phase'[p] # "gone" =>
           phase[p] # "gone" /\ Fewer(Then(p), Settled(p)),
         \A a \in Apps : running'[a] # None => running'[a] = running[a] /\ windows'[a] = windows[a],
         \A w \in Windows : routes'[w] # None => routes'[w] = routes[w]
  PROVE  Owed'
<1>1. /\ \A a \in Apps : running'[a] # None => running'[a] \in Pids
      /\ \A w \in Windows : routes'[w] # None => routes'[w] \in Pids
  BY DEF TypeOK, ManagerTypeOK, Option
<1>2. WorldsFollow'
  <2>1. ASSUME NEW a \in Apps, running'[a] # None, phase'[running'[a]] # "gone"
        PROVE  Follows(Then(running'[a]), windows'[a])
    <3>1. Follows(Settled(running[a]), windows[a]) /\ Fewer(Then(running'[a]), Settled(running[a]))
      BY <1>1, <2>1, Promises DEF Owed
    <3>2. QED
      BY <2>1, <3>1 DEF Fewer, Follows
  <2>2. QED
    BY <2>1, NextPromises
<1>3. RoutedShown'
  <2>1. ASSUME NEW w \in Windows, routes'[w] # None, phase'[routes'[w]] # "gone"
        PROVE  Then(routes'[w]).mirrors[w] # None
    <3>1. Settled(routes[w]).mirrors[w] # None /\ Fewer(Then(routes'[w]), Settled(routes[w]))
      BY <1>1, <2>1, Promises DEF Owed
    <3>2. QED
      BY <2>1, <3>1 DEF Fewer
  <2>2. QED
    BY <2>1, NextPromises
<1>4. NoOrphanFrames'
  <2>1. ASSUME NEW p \in Pids, phase'[p] # "gone"
        PROVE  Then(p).early = {}
    <3>1. Settled(p).early = {} /\ Fewer(Then(p), Settled(p))
      BY <2>1, Promises DEF Owed
    <3>2. QED
      BY <3>1 DEF Fewer
  <2>2. QED
    BY <2>1, NextPromises
<1>5. QED
  BY <1>2, <1>3, <1>4 DEF Owed

(* Frames queued for a helper are drained after those that wait.             *)
LEMMA SentSettled ==
  ASSUME FramesTyped, NEW p, NEW frames \in Seq(DownFrame), SendDown(p, frames)
  PROVE  /\ FramesTyped'
         /\ \A q \in Pids : Settled(q) \in World
         /\ \A q \in Pids :
              Then(q) = IF q = p /\ phase[q] # "gone" THEN Drained(Settled(q), frames) ELSE Settled(q)
<1>1. /\ down' = [q \in Pids |-> IF q = p /\ Alive(q) THEN down[q] \o frames ELSE down[q]]
      /\ world' = world
  BY DEF SendDown
<1>2. \A q \in Pids : down[q] \in Seq(DownFrame) /\ world[q] \in World
  BY DEF FramesTyped
<1>3. FramesTyped'
  <2>1. ASSUME NEW q \in Pids PROVE down[q] \o frames \in Seq(DownFrame)
    BY <1>2, ConcatProperties
  <2>2. QED
    BY <1>1, <1>2, <2>1 DEF FramesTyped
<1>4. \A q \in Pids : Settled(q) \in World
  BY <1>2, DrainedWorld DEF Settled
<1>5. ASSUME NEW q \in Pids
      PROVE  Then(q) = IF q = p /\ phase[q] # "gone" THEN Drained(Settled(q), frames) ELSE Settled(q)
  <2>1. Then(q) = Drained(world[q], IF q = p /\ phase[q] # "gone" THEN down[q] \o frames ELSE down[q])
    BY <1>1 DEF Then, Alive
  <2>2. Drained(world[q], down[q] \o frames) = Drained(Settled(q), frames)
    BY <1>2, DrainedConcat DEF Settled
  <2>3. QED
    BY <2>1, <2>2 DEF Settled
<1>6. QED
  BY <1>3, <1>4, <1>5

(* Frames forwarded to the helper of the application a, of which only the    *)
(* records change.                                                           *)
LEMMA ForwardIcons ==
  ASSUME TypeOK, FramesTyped, IconOnce, NEW a \in Apps, NEW frames \in Seq(DownFrame),
         Forward(a, frames),
         running[a] # None /\ phase[running[a]] # "gone" =>
           Drained(Settled(running[a]), frames).icons = Settled(running[a]).icons
  PROVE  IconOnce'
<1>1. app_id' = app_id /\ phase' = phase /\ SendDown(running[a], frames)
  BY DEF Forward, SendDown
<1>2. ASSUME NEW p \in Pids, phase'[p] # "gone"
      PROVE  phase[p] # "gone" /\ Then(p).icons = Settled(p).icons
  <2>1. Then(p) = IF p = running[a] /\ phase[p] # "gone" THEN Drained(Settled(p), frames) ELSE Settled(p)
    BY <1>1, SentSettled
  <2>2. p # None
    BY ProcessAssumption
  <2>3. QED
    BY <1>1, <1>2, <2>1, <2>2
<1>3. QED
  BY <1>1, <1>2, SettledIcons

LEMMA ForwardOwed ==
  ASSUME TypeOK, TypeOK', FramesTyped, RunningNamed, Owed, NEW a \in Apps,
         NEW frames \in Seq(DownFrame), Forward(a, frames), running' = running,
         \A b \in Apps \ {a} : windows'[b] = windows[b],
         running[a] # None /\ phase[running[a]] # "gone" =>
           /\ Follows(Drained(Settled(running[a]), frames), windows'[a])
           /\ Drained(Settled(running[a]), frames).early = {},
         \A w \in Windows :
           \/ routes'[w] = None
           \/ routes'[w] = routes[w] /\ (windows[a][w] # None => windows'[a][w] # None)
  PROVE  Owed'
<1> DEFINE r == running[a]
           u == Drained(Settled(r), frames)
<1>1. phase' = phase /\ SendDown(r, frames)
  BY DEF Forward, SendDown
<1>2. \A p \in Pids : Then(p) = IF p = r /\ phase[p] # "gone" THEN u ELSE Settled(p)
  BY <1>1, SentSettled
<1>3. /\ \A b \in Apps : running[b] # None => running[b] \in Pids
      /\ \A w \in Windows : routes'[w] # None => routes'[w] \in Pids
      /\ \A b \in Apps : windows[b] \in [Windows -> Option(WindowReplay)]
      /\ \A b \in Apps : windows'[b] \in [Windows -> Option(WindowReplay)]
  BY DEF TypeOK, ManagerTypeOK, Option
<1>4. r # None /\ phase[r] # "gone" => Follows(u, windows'[a]) /\ u.early = {}
  OBVIOUS
<1>5. r # None /\ phase[r] # "gone" => Follows(Settled(r), windows[a])
  BY Promises DEF Owed
<1>6. \A b \in Apps \ {a} : running[b] # None => running[b] # r
  BY DEF RunningNamed
<1>w. r # None => Settled(r) \in World /\ u \in World
  BY <1>1, <1>3, SentSettled, DrainedWorld
<1> HIDE DEF u
<1>7. WorldsFollow'
  <2>1. ASSUME NEW b \in Apps, running'[b] # None, phase'[running'[b]] # "gone"
        PROVE  Follows(Then(running'[b]), windows'[b])
    <3>1. CASE b = a
      BY <1>1, <1>2, <1>3, <1>4, <2>1, <3>1
    <3>2. CASE b # a
      <4>1. Then(running[b]) = Settled(running[b])
        BY <1>2, <1>3, <1>6, <2>1, <3>2
      <4>2. Follows(Settled(running[b]), windows[b])
        BY <1>1, <2>1, Promises DEF Owed
      <4>3. QED
        BY <3>2, <4>1, <4>2
    <3>3. QED
      BY <3>1, <3>2
  <2>2. QED
    BY <2>1, NextPromises
<1>8. RoutedShown'
  <2>1. ASSUME NEW w \in Windows, routes'[w] # None, phase'[routes'[w]] # "gone"
        PROVE  Then(routes'[w]).mirrors[w] # None
    <3>1. routes'[w] \in Pids /\ phase[routes'[w]] # "gone"
      BY <1>1, <1>3, <2>1
    <3>2. CASE routes'[w] # r
      <4>1. routes'[w] = routes[w] /\ Then(routes'[w]) = Settled(routes'[w])
        BY <1>2, <2>1, <3>1, <3>2
      <4>2. QED
        BY <1>1, <2>1, <4>1, Promises DEF Owed
    <3>3. CASE routes'[w] = r
      <4>1. r # None /\ phase[r] # "gone" /\ Then(r) = u
        BY <1>2, <2>1, <3>1, <3>3
      <4>2. windows'[a][w] # None
        <5>1. routes'[w] = routes[w] /\ (windows[a][w] # None => windows'[a][w] # None)
          BY <2>1
        <5>2. Settled(r).mirrors[w] # None
          BY <3>3, <4>1, <5>1, Promises DEF Owed
        <5>3. QED
          BY <1>3, <1>5, <1>w, <4>1, <5>1, <5>2, FollowsPresent
      <4>3. u.mirrors[w] # None
        BY <1>3, <1>4, <1>w, <4>1, <4>2, FollowsPresent
      <4>4. QED
        BY <3>3, <4>1, <4>3
    <3>4. QED
      BY <3>2, <3>3
  <2>2. QED
    BY <2>1, NextPromises
<1>9. NoOrphanFrames'
  <2>1. ASSUME NEW p \in Pids, phase'[p] # "gone"
        PROVE  Then(p).early = {}
    <3>1. CASE p = r
      BY <1>1, <1>2, <1>4, <2>1, <3>1, ProcessAssumption
    <3>2. CASE p # r
      BY <1>1, <1>2, <2>1, <3>2, Promises DEF Owed
    <3>3. QED
      BY <3>1, <3>2
  <2>2. QED
    BY <2>1, NextPromises
<1>10. QED
  BY <1>7, <1>8, <1>9 DEF Owed

(* A fresh helper settles on what it is fed.                                 *)
LEMMA ForkSettled ==
  ASSUME FramesTyped, NEW p \in Pids, NEW a \in Apps, NEW frames \in Seq(DownFrame),
         Fork(p, a, frames)
  PROVE  /\ FramesTyped'
         /\ \A q \in Pids : Then(q) = IF q = p THEN Drained(EmptyWorld, frames) ELSE Settled(q)
<1>1. /\ down' = [down EXCEPT ![p] = frames]
      /\ world' = [world EXCEPT ![p] = EmptyWorld]
  BY DEF Fork
<1>2. FramesTyped'
  BY <1>1, EmptyIsWorld DEF FramesTyped
<1>3. ASSUME NEW q \in Pids
      PROVE  Then(q) = IF q = p THEN Drained(EmptyWorld, frames) ELSE Settled(q)
  BY <1>1 DEF FramesTyped, Then, Settled
<1>4. QED
  BY <1>1, <1>2, <1>3

LEMMA ForkPromises ==
  ASSUME TypeOK, TypeOK', FramesTyped, RunningNamed, NEW p \in Pids, NEW a \in Apps,
         NEW frames \in Seq(DownFrame), Unused(p), Fork(p, a, frames),
         running' = [running EXCEPT ![a] = p],
         \A b \in Apps \ {a} : windows'[b] = windows[b],
         Rebuilt(Drained(EmptyWorld, frames), a, windows'[a]), routes' = routes
  PROVE  (IconOnce => IconOnce') /\ (Owed => Owed')
<1> DEFINE u == Drained(EmptyWorld, frames)
<1>1. /\ \A q \in Pids : Then(q) = IF q = p THEN u ELSE Settled(q)
      /\ \A q \in Pids : q # p => phase'[q] = phase[q] /\ app_id'[q] = app_id[q]
      /\ app_id'[p] = a
  <2>1. \A q \in Pids : Then(q) = IF q = p THEN u ELSE Settled(q)
    BY ForkSettled
  <2>2. /\ \A q \in Pids : q # p => phase'[q] = phase[q] /\ app_id'[q] = app_id[q]
        /\ app_id'[p] = a
    BY DEF Fork, TypeOK, HelperTypeOK
  <2>3. QED
    BY <2>1, <2>2
<1>2. /\ u \in World /\ u.icons = Len(IconFrames(a)) /\ u.early = {} /\ Follows(u, windows'[a])
  BY DEF Rebuilt, Follows
<1>3. /\ running'[a] = p
      /\ \A b \in Apps \ {a} : running'[b] = running[b]
      /\ \A b \in Apps : running'[b] # None => running'[b] \in Pids
      /\ \A b \in Apps : windows'[b] \in [Windows -> Option(WindowReplay)]
      /\ \A w \in Windows : routes'[w] # None => routes'[w] \in Pids
  BY DEF TypeOK, ManagerTypeOK, Option
<1>4. \A b \in Apps \ {a} : running[b] # None => running[b] # p
  BY DEF RunningNamed, Unused, Free, Unreaped, Alive
<1>5. \A w \in Windows : routes[w] # p
  BY DEF Unused
<1> HIDE DEF u
<1>6. ASSUME IconOnce PROVE IconOnce'
  <2>1. ASSUME NEW q \in Pids, phase'[q] # "gone"
        PROVE  Then(q).icons = Len(IconFrames(app_id'[q]))
    <3>1. CASE q = p
      BY <1>1, <1>2, <3>1
    <3>2. CASE q # p
      BY <1>1, <1>6, <2>1, <3>2, Promises
    <3>3. QED
      BY <3>1, <3>2
  <2>2. QED
    BY <2>1, NextPromises
<1>7. ASSUME Owed PROVE WorldsFollow'
  <2>1. ASSUME NEW b \in Apps, running'[b] # None, phase'[running'[b]] # "gone"
        PROVE  Follows(Then(running'[b]), windows'[b])
    <3>1. CASE b = a
      BY <1>1, <1>2, <1>3, <3>1
    <3>2. CASE b # a
      <4>1. running'[b] = running[b] /\ running[b] \in Pids /\ running[b] # p
        BY <1>3, <1>4, <2>1, <3>2
      <4>2. Then(running[b]) = Settled(running[b]) /\ phase[running[b]] # "gone"
        BY <1>1, <2>1, <4>1
      <4>3. Follows(Settled(running[b]), windows[b])
        BY <1>7, <2>1, <4>1, <4>2, Promises DEF Owed
      <4>4. QED
        BY <3>2, <4>1, <4>2, <4>3
    <3>3. QED
      BY <3>1, <3>2
  <2>2. QED
    BY <2>1, NextPromises
<1>8. ASSUME Owed PROVE RoutedShown'
  <2>1. ASSUME NEW w \in Windows, routes'[w] # None, phase'[routes'[w]] # "gone"
        PROVE  Then(routes'[w]).mirrors[w] # None
    <3>1. routes'[w] = routes[w] /\ routes[w] \in Pids /\ routes[w] # p
      BY <1>3, <1>5, <2>1
    <3>2. Then(routes[w]) = Settled(routes[w]) /\ phase[routes[w]] # "gone"
      BY <1>1, <2>1, <3>1
    <3>3. QED
      BY <1>8, <2>1, <3>1, <3>2, Promises DEF Owed
  <2>2. QED
    BY <2>1, NextPromises
<1>9. ASSUME Owed PROVE NoOrphanFrames'
  <2>1. ASSUME NEW q \in Pids, phase'[q] # "gone"
        PROVE  Then(q).early = {}
    <3>1. CASE q = p
      BY <1>1, <1>2, <3>1
    <3>2. CASE q # p
      BY <1>1, <1>9, <2>1, <3>2, Promises DEF Owed
    <3>3. QED
      BY <3>1, <3>2
  <2>2. QED
    BY <2>1, NextPromises
<1>10. QED
  BY <1>6, <1>7, <1>8, <1>9 DEF Owed

----------------------------------------------------------------------------
(* The steps of one helper.  A frame taken from the queue is where it was    *)
(* going anyway; a picture that never came, or an announcement that the      *)
(* toolkit refuses, counts no icon.                                          *)
LEMMA FrameTaken ==
  ASSUME FramesTyped, NEW p \in Pids, down[p] # <<>>
  PROVE  /\ Head(down[p]) \in DownFrame /\ Tail(down[p]) \in Seq(DownFrame)
         /\ world[p] \in World /\ Deliver(world[p], Head(down[p])) \in World
         /\ Settled(p) = Drained(Deliver(world[p], Head(down[p])), Tail(down[p]))
<1>1. down[p] \in Seq(DownFrame) /\ world[p] \in World
  BY DEF FramesTyped
<1>2. Head(down[p]) \in DownFrame /\ Tail(down[p]) \in Seq(DownFrame)
  BY <1>1, HeadTailProperties
<1>3. QED
  BY <1>1, <1>2, DeliverWorld, DrainedHead DEF Settled

(* The helper p takes a frame and is left with the world v.                  *)
LEMMA TakenSettled ==
  ASSUME FramesTyped, NEW p \in Pids, down[p] # <<>>, NEW v \in World,
         world' = [world EXCEPT ![p] = v], down' = [down EXCEPT ![p] = Tail(@)]
  PROVE  /\ FramesTyped'
         /\ Then(p) = Drained(v, Tail(down[p]))
         /\ \A q \in Pids : q # p => Then(q) = Settled(q)
<1>1. Tail(down[p]) \in Seq(DownFrame)
  BY FrameTaken
<1>2. QED
  BY <1>1 DEF FramesTyped, Then, Settled

(* What every step that forks or feeds no helper owes to each of them.       *)
Steady(q) ==
  phase'[q] # "gone" =>
    /\ phase[q] # "gone"
    /\ Then(q).icons = Settled(q).icons
    /\ "create" \notin Faults => Fewer(Then(q), Settled(q))

LEMMA UntouchedSteady ==
  ASSUME FramesTyped, UNCHANGED <<world, down>>,
         \A q \in Pids : phase'[q] # "gone" => phase[q] # "gone"
  PROVE  FramesTyped' /\ \A q \in Pids : Steady(q)
<1>1. \A q \in Pids : Then(q) = Settled(q)
  BY DEF Then, Settled
<1>2. QED
  BY <1>1 DEF FramesTyped, Steady, Fewer

LEMMA DeadSteady ==
  ASSUME TypeOK, FramesTyped, NEW p \in Pids, Die(p)
  PROVE  FramesTyped' /\ \A q \in Pids : Steady(q)
<1>1. /\ phase' = [phase EXCEPT ![p] = "gone"]
      /\ down' = [down EXCEPT ![p] = <<>>]
      /\ world' = [world EXCEPT ![p] = EmptyWorld]
  BY DEF Die
<1>2. FramesTyped'
  <2>1. <<>> \in Seq(DownFrame)
    OBVIOUS
  <2>2. QED
    BY <1>1, <2>1, EmptyIsWorld DEF FramesTyped
<1>3. ASSUME NEW q \in Pids, phase'[q] # "gone"
      PROVE  phase[q] # "gone" /\ Then(q) = Settled(q)
  <2>1. q # p /\ phase'[q] = phase[q]
    BY <1>1, <1>3 DEF TypeOK, HelperTypeOK
  <2>2. down'[q] = down[q] /\ world'[q] = world[q]
    BY <1>1, <2>1 DEF FramesTyped
  <2>3. QED
    BY <1>3, <2>1, <2>2 DEF Then, Settled
<1>4. QED
  BY <1>2, <1>3 DEF Steady, Fewer

(* A helper left with the world v after it took a frame is steady when v is  *)
(* like the world that the frame makes.                                      *)
LEMMA TakenSteady ==
  ASSUME FramesTyped, NEW p \in Pids, down[p] # <<>>, NEW v \in World,
         world' = [world EXCEPT ![p] = v], down' = [down EXCEPT ![p] = Tail(@)],
         \A q \in Pids : phase'[q] # "gone" => phase[q] # "gone",
         v.icons = Deliver(world[p], Head(down[p])).icons,
         "create" \notin Faults => Fewer(v, Deliver(world[p], Head(down[p])))
  PROVE  FramesTyped' /\ \A q \in Pids : Steady(q)
<1> DEFINE u == Deliver(world[p], Head(down[p]))
           fs == Tail(down[p])
<1>1. u \in World /\ fs \in Seq(DownFrame) /\ Settled(p) = Drained(u, fs)
  BY FrameTaken
<1>2. FramesTyped' /\ Then(p) = Drained(v, fs) /\ \A q \in Pids : q # p => Then(q) = Settled(q)
  BY TakenSettled
<1>3. v.icons = u.icons /\ ("create" \notin Faults => Fewer(v, u))
  OBVIOUS
<1> HIDE DEF u, fs
<1>4. /\ Drained(v, fs).icons = Drained(u, fs).icons
      /\ "create" \notin Faults => Fewer(Drained(v, fs), Drained(u, fs))
  BY <1>1, <1>3, QueueAlike
<1>5. ASSUME NEW q \in Pids PROVE Steady(q)
  <2>1. CASE q = p
    BY <1>1, <1>2, <1>4, <2>1 DEF Steady
  <2>2. CASE q # p
    BY <1>2, <2>2 DEF Steady, Fewer
  <2>3. QED
    BY <2>1, <2>2
<1>6. QED
  BY <1>2, <1>5

LEMMA SawWindow ==
  ASSUME NEW v \in World
  PROVE  [v EXCEPT !.saw = TRUE] \in World /\ [v EXCEPT !.saw = TRUE].icons = v.icons
BY DEF World

LEMMA HelperSteady ==
  ASSUME TypeOK, FramesTyped, NEW p \in Pids,
         HelperReads(p) \/ HelperLeaves(p) \/ UserActs(p) \/ HelperCrashes(p)
  PROVE  FramesTyped' /\ \A q \in Pids : Steady(q)
<1>0. phase \in [Pids -> {"gone", "live", "exiting"}]
  BY DEF TypeOK, HelperTypeOK
<1>1. CASE HelperLeaves(p) \/ HelperCrashes(p)
  BY <1>1, DeadSteady DEF HelperLeaves, LeaveLoop, HelperCrashes, Crash
<1>2. CASE UserActs(p)
  <2>1. UNCHANGED <<world, down>> /\ \A q \in Pids : phase'[q] # "gone" => phase[q] # "gone"
    BY <1>0, <1>2 DEF UserActs, UserQuits, UserInput, RequestExit
  <2>2. QED
    BY <2>1, UntouchedSteady
<1>3. CASE DecoderPanics(p) \/ ReadEof(p, ~ChannelHeld(p))
  <2>1. UNCHANGED <<world, down>> /\ \A q \in Pids : phase'[q] # "gone" => phase[q] # "gone"
    BY <1>0, <1>3 DEF DecoderPanics, ReadEof, RequestExit, Alive
  <2>2. QED
    BY <2>1, UntouchedSteady
<1> DEFINE f == Head(down[p])
           u == Deliver(world[p], f)
<1>4. CASE DrainControl(p)
  <2>1. /\ down[p] # <<>> /\ world' = [world EXCEPT ![p] = u] /\ down' = [down EXCEPT ![p] = Tail(@)]
        /\ phase' = phase \/ phase' = [phase EXCEPT ![p] = "exiting"]
        /\ phase[p] # "gone"
    BY <1>4 DEF DrainControl, RequestExit, Alive
  <2>2. \A q \in Pids : phase'[q] # "gone" => phase[q] # "gone"
    BY <1>0, <2>1
  <2>3. u \in World
    BY <2>1, FrameTaken
  <2>4. Fewer(u, u)
    BY DEF Fewer
  <2> HIDE DEF u
  <2>5. QED
    BY <2>1, <2>2, <2>3, <2>4, TakenSteady DEF u
<1>5. CASE CreateWindowFails(p)
  <2> DEFINE v == [world[p] EXCEPT !.saw = TRUE]
  <2>1. /\ down[p] # <<>> /\ world' = [world EXCEPT ![p].saw = TRUE]
        /\ down' = [down EXCEPT ![p] = Tail(@)] /\ f.type = "WindowOpened"
        /\ phase' = phase /\ "create" \in Faults
    BY <1>5 DEF CreateWindowFails
  <2>2. world' = [world EXCEPT ![p] = v]
    BY <2>1 DEF FramesTyped
  <2>3. f \in DownFrame /\ world[p] \in World
    BY <2>1, FrameTaken
  <2>4. v \in World /\ v.icons = world[p].icons
    <3> HIDE DEF f
    <3>1. QED
      BY <2>3, SawWindow
  <2>5. u.icons = world[p].icons
    <3>1. f # Icon
      BY <2>1 DEF Icon
    <3> HIDE DEF f
    <3>2. QED
      BY <2>3, <3>1, IconsCounted
  <2> HIDE DEF u, v
  <2>6. QED
    BY <2>1, <2>2, <2>4, <2>5, TakenSteady DEF u
<1>6. CASE DecodeVideo(p)
  <2>1. PICK w \in Windows :
          /\ f = Video(w)
          /\ \/ world' = [world EXCEPT ![p] = Deliver(@, Video(w))]
             \/ UNCHANGED world
    BY <1>6 DEF DecodeVideo
  <2>2. down[p] # <<>> /\ down' = [down EXCEPT ![p] = Tail(@)] /\ phase' = phase
    BY <1>6 DEF DecodeVideo
  <2>3. u \in World /\ world[p] \in World
    BY <2>2, FrameTaken
  <2>4. u.icons = world[p].icons /\ Fewer(world[p], u) /\ Fewer(u, u)
    <3>1. ShownWorld(world[p], w, u)
      BY <2>1, <2>3, DeliverVideo
    <3> HIDE DEF u
    <3>2. QED
      BY <3>1 DEF ShownWorld, Fewer
  <2>5. CASE world' = [world EXCEPT ![p] = Deliver(@, Video(w))]
    <3>1. world' = [world EXCEPT ![p] = u]
      BY <2>1, <2>5
    <3> HIDE DEF u
    <3>2. QED
      BY <2>2, <2>3, <2>4, <3>1, TakenSteady DEF u
  <2>6. CASE UNCHANGED world
    <3>1. world' = [world EXCEPT ![p] = world[p]]
      BY <2>6 DEF FramesTyped
    <3> HIDE DEF u
    <3>2. QED
      BY <2>2, <2>3, <2>4, <3>1, TakenSteady DEF u
  <2>7. QED
    BY <2>1, <2>5, <2>6
<1>7. QED
  BY <1>1, <1>2, <1>3, <1>4, <1>5, <1>6 DEF HelperReads

----------------------------------------------------------------------------
(* The promises about worlds, step by step.                                  *)
Promised == FramesTyped /\ IconOnce /\ ("create" \notin Faults => Owed)

LEMMA SteadyPromised ==
  ASSUME TypeOK, TypeOK', Promised, FramesTyped', app_id' = app_id,
         \A q \in Pids : Steady(q),
         \A a \in Apps : running'[a] # None => running'[a] = running[a] /\ windows'[a] = windows[a],
         \A w \in Windows : routes'[w] # None => routes'[w] = routes[w]
  PROVE  Promised'
<1>1. IconOnce'
  BY SettledIcons DEF Promised, Steady
<1>2. ASSUME "create" \notin Faults PROVE Owed'
  BY <1>2, SettledOwed DEF Promised, Steady
<1>3. QED
  BY <1>1, <1>2 DEF Promised

(* Steps that touch no process, but for letting go of it.                    *)
LEMMA QuietPromised ==
  ASSUME TypeOK, TypeOK', Promised, UNCHANGED <<app_id, phase, world, down>>,
         \A a \in Apps : running'[a] # None => running'[a] = running[a] /\ windows'[a] = windows[a],
         \A w \in Windows : routes'[w] # None => routes'[w] = routes[w]
  PROVE  Promised'
<1>1. FramesTyped' /\ \A q \in Pids : Steady(q)
  BY UntouchedSteady DEF Promised
<1>2. QED
  BY <1>1, SteadyPromised

LEMMA HelperStepPromised ==
  ASSUME TypeOK, TypeOK', ClientInv, Promised, NEW p \in Pids,
         HelperReads(p) \/ HelperLeaves(p) \/ UserActs(p) \/ HelperCrashes(p)
  PROVE  Promised'
<1>1. FramesTyped' /\ \A q \in Pids : Steady(q)
  BY HelperSteady DEF Promised
<1>2. app_id' = app_id
  BY HelperTable
<1>3. running' = running /\ windows' = windows /\ routes' = routes
  BY DEF HelperReads, HelperLeaves, UserActs, HelperCrashes, managerVars, routerVars
<1>4. QED
  BY <1>1, <1>2, <1>3, SteadyPromised

(* One frame for a helper.                                                   *)
LEMMA OneFrame ==
  ASSUME FramesTyped, NEW p \in Pids, NEW f \in DownFrame
  PROVE  /\ Settled(p) \in World /\ <<f>> \in Seq(DownFrame)
         /\ Drained(Settled(p), <<f>>) = Deliver(Settled(p), f)
BY DrainedWorld, DrainedOne DEF FramesTyped, Settled

(* Video goes where a mirror will be.                                        *)
LEMMA VideoPromised ==
  ASSUME TypeOK, TypeOK', Promised, NEW w \in Windows, ForwardVideo(w)
  PROVE  Promised'
<1> DEFINE p == routes[w]
<1>1. p \in Pids /\ SendDown(p, <<Video(w)>>) /\ UNCHANGED <<app_id, phase, running, windows, routes>>
  BY DEF ForwardVideo, SendDown, managerVars, routerVars, TypeOK, ManagerTypeOK, Option
<1>2. Video(w) \in DownFrame
  BY DEF DownFrame
<1>3. /\ Settled(p) \in World /\ <<Video(w)>> \in Seq(DownFrame)
      /\ Drained(Settled(p), <<Video(w)>>) = Deliver(Settled(p), Video(w))
  BY <1>1, <1>2, OneFrame DEF Promised
<1>4. /\ FramesTyped'
      /\ \A q \in Pids : Then(q) = IF q = p /\ phase[q] # "gone"
                                   THEN Drained(Settled(q), <<Video(w)>>) ELSE Settled(q)
  BY <1>1, <1>3, SentSettled DEF Promised
<1>5. ASSUME NEW q \in Pids PROVE Steady(q)
  <2>1. CASE q = p /\ phase[q] # "gone"
    <3>1. ShownWorld(Settled(p), w, Then(p))
      BY <1>1, <1>3, <1>4, <2>1, DeliverVideo
    <3>2. "create" \notin Faults => Settled(p).mirrors[w] # None
      BY <1>1, <2>1, Promises, ProcessAssumption DEF Promised, Owed
    <3>3. QED
      BY <2>1, <3>1, <3>2 DEF Steady, Fewer, ShownWorld
  <2>2. CASE ~(q = p /\ phase[q] # "gone")
    BY <1>1, <1>4, <2>2 DEF Steady, Fewer
  <2>3. QED
    BY <2>1, <2>2
<1>6. QED
  BY <1>1, <1>4, <1>5, SteadyPromised

(* Frames forwarded to the helper of the application a.                      *)
LEMMA ForwardPromised ==
  ASSUME TypeOK, TypeOK', Promised, RunningNamed, NEW a \in Apps,
         NEW frames \in Seq(DownFrame), Forward(a, frames), running' = running,
         \A b \in Apps \ {a} : windows'[b] = windows[b],
         \A p \in Pids : p = running[a] /\ phase[p] # "gone" =>
           /\ Drained(Settled(p), frames).icons = Settled(p).icons
           /\ Follows(Settled(p), windows[a]) /\ Settled(p).early = {} =>
                /\ Follows(Drained(Settled(p), frames), windows'[a])
                /\ Drained(Settled(p), frames).early = {},
         \A w \in Windows :
           \/ routes'[w] = None
           \/ routes'[w] = routes[w] /\ (windows[a][w] # None => windows'[a][w] # None)
  PROVE  Promised'
<1>1. running[a] # None => running[a] \in Pids
  BY DEF TypeOK, ManagerTypeOK, Option
<1>2. FramesTyped'
  BY SentSettled DEF Forward, Promised
<1>3. IconOnce'
  BY <1>1, ForwardIcons DEF Promised
<1>4. ASSUME "create" \notin Faults PROVE Owed'
  <2>1. Owed
    BY <1>4 DEF Promised
  <2>2. running[a] # None /\ phase[running[a]] # "gone" =>
          /\ Follows(Drained(Settled(running[a]), frames), windows'[a])
          /\ Drained(Settled(running[a]), frames).early = {}
    BY <1>1, <2>1, Promises DEF Owed
  <2>3. QED
    BY <2>1, <2>2, ForwardOwed DEF Promised
<1>5. QED
  BY <1>2, <1>3, <1>4 DEF Promised

(* A window that is known is recorded under its application.                 *)
LEMMA KnownWindow ==
  ASSUME TypeOK, ClientInv, NEW w \in Windows, app_of_window[w] # None
  PROVE  /\ app_of_window[w] = Owner[w] /\ Owner[w] \in Apps
         /\ windows[Owner[w]] \in [Windows -> Option(WindowReplay)]
         /\ windows[Owner[w]][w] \in WindowReplay /\ windows[Owner[w]][w] # None
<1>1. Owner[w] \in Apps
  BY DataAssumption
<1>2. app_of_window[w] = Owner[w] /\ windows[Owner[w]][w] # None
  BY DEF ClientInv, WindowTables
<1>3. QED
  BY <1>1, <1>2 DEF TypeOK, ManagerTypeOK, Option

(* An update, recorded and forwarded.                                        *)
LEMMA UpdateShape ==
  ASSUME TypeOK, ClientInv, NEW w \in Windows, NEW rec, NEW frame, UpdateWindow(w, rec, frame)
  PROVE  /\ app_of_window[w] # None
         /\ Forward(Owner[w], <<frame>>)
         /\ UNCHANGED <<app_id, phase, running, routes>>
         /\ Recorded(w) = windows[Owner[w]][w]
         /\ windows'[Owner[w]][w] = rec
         /\ \A x \in Windows : x # w => windows'[Owner[w]][x] = windows[Owner[w]][x]
         /\ \A b \in Apps \ {Owner[w]} : windows'[b] = windows[b]
<1>1. app_of_window[w] # None
  BY DEF UpdateWindow
<1>2. /\ app_of_window[w] = Owner[w] /\ Owner[w] \in Apps
      /\ windows[Owner[w]] \in [Windows -> Option(WindowReplay)]
      /\ windows[Owner[w]][w] # None
  BY <1>1, KnownWindow
<1>3. /\ windows' = [windows EXCEPT ![Owner[w]][w] = rec] /\ Forward(Owner[w], <<frame>>)
      /\ Recorded(w) = windows[Owner[w]][w]
  BY <1>2 DEF UpdateWindow, Recorded
<1>4. UNCHANGED <<app_id, phase, running, routes>>
  BY DEF UpdateWindow, Forward, SendDown, routerVars
<1>5. windows \in [Apps -> [Windows -> Option(WindowReplay)]]
  BY DEF TypeOK, ManagerTypeOK
<1>6. QED
  BY <1>1, <1>2, <1>3, <1>4, <1>5

LEMMA UpdatePromised ==
  ASSUME TypeOK, TypeOK', ClientInv, Promised, RunningNamed, NEW w \in Windows, NEW rec \in WindowReplay,
         NEW f \in Updates(w), UpdateWindow(w, rec, f),
         MirrorOf(rec) = After(MirrorOf(Recorded(w)), f), rec.mapping = Recorded(w).mapping
  PROVE  Promised'
<1> DEFINE a == Owner[w]
<1>1. /\ Forward(a, <<f>>) /\ UNCHANGED <<app_id, phase, running, routes>>
      /\ Recorded(w) = windows[a][w] /\ windows'[a][w] = rec /\ app_of_window[w] # None
      /\ \A x \in Windows : x # w => windows'[a][x] = windows[a][x]
      /\ \A b \in Apps \ {a} : windows'[b] = windows[b]
  BY UpdateShape
<1>2. /\ a \in Apps /\ windows[a] \in [Windows -> Option(WindowReplay)]
      /\ windows[a][w] # None /\ rec # None
  BY <1>1, KnownWindow, ReplayAssumption
<1>3. f \in DownFrame
  BY DEF Updates, DownFrame
<1>4. <<f>> \in Seq(DownFrame)
  BY <1>3
<1> HIDE DEF a
<1>5. ASSUME NEW p \in Pids
      PROVE  /\ Drained(Settled(p), <<f>>).icons = Settled(p).icons
             /\ Follows(Settled(p), windows[a]) /\ Settled(p).early = {} =>
                  /\ Follows(Drained(Settled(p), <<f>>), windows'[a])
                  /\ Drained(Settled(p), <<f>>).early = {}
  <2> DEFINE v == Settled(p)
             u == Drained(v, <<f>>)
  <2>1. v \in World /\ u = Deliver(v, f)
    BY <1>3, OneFrame DEF Promised
  <2>2. UpdatedWorld(v, w, f, u)
    BY <2>1, DeliverUpdate
  <2> HIDE DEF u, v
  <2>3. Follows(v, windows[a]) => Follows(u, windows'[a])
    BY <1>1, <1>2, <2>1, <2>2, FollowsUpdate
  <2>4. u.icons = v.icons /\ u.early = v.early
    BY <2>2 DEF UpdatedWorld
  <2>5. QED
    BY <2>3, <2>4 DEF u, v
<1>6. \A x \in Windows : routes'[x] = routes[x] /\ (windows[a][x] # None => windows'[a][x] # None)
  BY <1>1, <1>2
<1>7. QED
  BY <1>1, <1>2, <1>4, <1>5, <1>6, ForwardPromised

LEMMA MappingPromised ==
  ASSUME TypeOK, TypeOK', ClientInv, Promised, RunningNamed, NEW w \in Windows, NEW m \in Mappings,
         InputMappingKnown(w, m)
  PROVE  Promised'
<1> DEFINE a == Owner[w]
           f == InputMapping(w, m)
           rec == [Recorded(w) EXCEPT !.mapping = m]
<1>0. UpdateWindow(w, rec, f)
  BY DEF InputMappingKnown
<1>1. /\ Forward(a, <<f>>) /\ UNCHANGED <<app_id, phase, running, routes>>
      /\ Recorded(w) = windows[a][w] /\ windows'[a][w] = rec /\ app_of_window[w] # None
      /\ \A x \in Windows : x # w => windows'[a][x] = windows[a][x]
      /\ \A b \in Apps \ {a} : windows'[b] = windows[b]
  <2> HIDE DEF rec, f
  <2>1. QED
    BY <1>0, UpdateShape
<1>2. /\ a \in Apps /\ windows[a] \in [Windows -> Option(WindowReplay)]
      /\ windows[a][w] # None /\ windows[a][w] \in WindowReplay
  BY <1>1, KnownWindow
<1>3. windows'[a][w] = [windows[a][w] EXCEPT !.mapping = m] /\ windows'[a][w] # None
  <2>1. windows'[a][w] = [windows[a][w] EXCEPT !.mapping = m]
    BY <1>1
  <2>2. [windows[a][w] EXCEPT !.mapping = m] \in WindowReplay
    BY <1>2 DEF WindowReplay, Option
  <2>3. QED
    BY <2>1, <2>2, ReplayAssumption
<1>4. f \in DownFrame
  BY DEF DownFrame
<1>5. <<f>> \in Seq(DownFrame)
  BY <1>4
<1> HIDE DEF a, rec
<1>6. ASSUME NEW p \in Pids
      PROVE  /\ Drained(Settled(p), <<f>>).icons = Settled(p).icons
             /\ Follows(Settled(p), windows[a]) /\ Settled(p).early = {} =>
                  /\ Follows(Drained(Settled(p), <<f>>), windows'[a])
                  /\ Drained(Settled(p), <<f>>).early = {}
  <2> DEFINE v == Settled(p)
             u == Drained(v, <<f>>)
  <2>1. v \in World /\ u = Deliver(v, f)
    BY <1>4, OneFrame DEF Promised
  <2>2. MappedWorld(v, w, m, u)
    BY <2>1, DeliverMapping
  <2> HIDE DEF u, v
  <2>3. ASSUME Follows(v, windows[a]) PROVE Follows(u, windows'[a])
    <3>1. windows[a] \in [Windows -> Option(WindowReplay)] /\ windows[a][w] # None
      BY <1>2
    <3>2. /\ \A x \in Windows : x # w => windows'[a][x] = windows[a][x]
          /\ windows'[a][w] = [windows[a][w] EXCEPT !.mapping = m]
      BY <1>1, <1>3
    <3>3. QED
      BY <2>1, <2>2, <2>3, <3>1, <3>2, FollowsMapping
  <2>4. u.icons = v.icons /\ u.early = v.early
    BY <2>2 DEF MappedWorld
  <2>5. QED
    BY <2>3, <2>4 DEF u, v
<1>7. \A x \in Windows : routes'[x] = routes[x] /\ (windows[a][x] # None => windows'[a][x] # None)
  BY <1>1, <1>3
<1> HIDE DEF f
<1>8. QED
  BY <1>1, <1>2, <1>5, <1>6, <1>7, ForwardPromised

(* The route of a window about to close is taken, or a mapping that came     *)
(* ahead is forgotten.                                                       *)
LEMMA UnroutePromised ==
  ASSUME TypeOK, TypeOK', Promised, NEW w \in Windows, OnWindowClosed(w)
  PROVE  Promised'
<1>1. /\ UNCHANGED <<app_id, phase, world, down, running, windows>>
      /\ routes' = routes \/ routes' = [routes EXCEPT ![w] = None]
  BY DEF OnWindowClosed, CloseCall, CloseOrder, helperVars, routerVars
<1>2. \A x \in Windows : routes'[x] # None => routes'[x] = routes[x]
  BY <1>1 DEF TypeOK, ManagerTypeOK
<1>3. QED
  BY <1>1, <1>2, QuietPromised

(* A close, recorded and forwarded.                                          *)
LEMMA ClosePromised ==
  ASSUME TypeOK, TypeOK', ClientInv, Promised, RunningNamed, NEW w \in Windows, FinishClose(w)
  PROVE  Promised'
<1> DEFINE a == Owner[w]
           f == WindowClosed(w)
<1>1. app_of_window[w] # None /\ routes[w] = None
  BY DataAssumption DEF FinishClose, ClientInv, HandlerUnderWay, WindowTables
<1>2. CASE app_of_window[w] # None
  <2>1. /\ app_of_window[w] = a /\ a \in Apps
        /\ windows[a] \in [Windows -> Option(WindowReplay)] /\ windows[a][w] # None
    BY <1>2, KnownWindow
  <2>2. /\ windows' = [windows EXCEPT ![a][w] = None]
        /\ routes' = routes
        /\ Forward(a, <<f>>) /\ running' = running
    BY <2>1 DEF FinishClose, CloseCall, CloseOrder, routerVars
  <2>3. /\ windows'[a][w] = None
        /\ \A x \in Windows : x # w => windows'[a][x] = windows[a][x]
        /\ \A b \in Apps \ {a} : windows'[b] = windows[b]
    BY <2>1, <2>2 DEF TypeOK, ManagerTypeOK
  <2>4. f \in DownFrame
    BY DEF DownFrame
  <2>5. <<f>> \in Seq(DownFrame)
    BY <2>4
  <2> HIDE DEF a
  <2>6. ASSUME NEW p \in Pids
        PROVE  /\ Drained(Settled(p), <<f>>).icons = Settled(p).icons
               /\ Follows(Settled(p), windows[a]) /\ Settled(p).early = {} =>
                    /\ Follows(Drained(Settled(p), <<f>>), windows'[a])
                    /\ Drained(Settled(p), <<f>>).early = {}
    <3> DEFINE v == Settled(p)
               u == Drained(v, <<f>>)
    <3>1. v \in World /\ u = Deliver(v, f)
      BY <2>4, OneFrame DEF Promised
    <3>2. ClosedWorld(v, w, u)
      BY <3>1, DeliverClosed
    <3> HIDE DEF u, v
    <3>3. ASSUME Follows(v, windows[a]) PROVE Follows(u, windows'[a])
      <4>1. windows'[a][w] = None /\ \A x \in Windows : x # w => windows'[a][x] = windows[a][x]
        BY <2>3
      <4>2. QED
        BY <3>1, <3>2, <3>3, <4>1, FollowsClose
    <3>4. u.icons = v.icons /\ u.early \subseteq v.early
      BY <3>2 DEF ClosedWorld
    <3>5. QED
      BY <3>3, <3>4 DEF u, v
  <2>7. \A x \in Windows :
          \/ routes'[x] = None
          \/ routes'[x] = routes[x] /\ (windows[a][x] # None => windows'[a][x] # None)
    BY <1>1, <2>2, <2>3
  <2>8. a \in Apps /\ Forward(a, <<f>>) /\ running' = running /\ \A b \in Apps \ {a} : windows'[b] = windows[b]
    BY <2>1, <2>2, <2>3
  <2> HIDE DEF f
  <2>9. QED
    BY <2>5, <2>6, <2>7, <2>8, ForwardPromised
<1>3. QED
  BY <1>1, <1>2

(* An announcement forwarded is the replay of the window it records: the     *)
(* helper knows neither the window nor a mapping for it yet.                 *)
LEMMA OpenPromised ==
  ASSUME TypeOK, TypeOK', ClientInv, Promised, RunningNamed, NEW w \in Windows, NEW t \in Titles,
         NEW s \in Sizes, WindowOpenedRunning(w, t, s), windows[Owner[w]][w] = None
  PROVE  Promised'
<1> DEFINE a == Owner[w]
           r == NewRecord(w, t, s)
           m == pending_mappings[w]
           f == WindowOpened(w, t, s)
           B == IF m # None THEN <<InputMapping(w, m)>> ELSE <<>>
           frames == <<f>> \o B
<1>1. /\ a \in Apps /\ r \in WindowReplay /\ m \in Option(Mappings)
      /\ windows[a] \in [Windows -> Option(WindowReplay)]
  BY DataAssumption DEF NewRecord, OpenedReplay, WindowReplay, TypeOK, ManagerTypeOK
<1>2. /\ Forward(a, frames) /\ running' = running
      /\ windows' = [windows EXCEPT ![a][w] = r]
      /\ routes' = routes
  <2>1. r.title = t /\ r.size = s /\ r.mapping = m
    BY DEF NewRecord, OpenedReplay
  <2> HIDE DEF m
  <2>2. QED
    BY <2>1 DEF WindowOpenedRunning, RecordWindow, OpenCall, OpenOrder
<1>3. /\ windows'[a][w] = r
      /\ \A x \in Windows : x # w => windows'[a][x] = windows[a][x]
      /\ \A b \in Apps \ {a} : windows'[b] = windows[b]
  <2> HIDE DEF r, a
  <2>1. QED
    BY <1>1, <1>2 DEF TypeOK, ManagerTypeOK
<1>4. ReplayWindow(w, r) = frames
  <2>1. r.title = t /\ r.size = s /\ r.minimized = FALSE /\ r.mapping = m
    BY DEF NewRecord, OpenedReplay
  <2>2. <<f>> \o <<>> = <<f>>
    BY DEF WindowOpened
  <2> HIDE DEF r, m
  <2>3. QED
    BY <2>1, <2>2 DEF ReplayWindow
<1>5. <<f>> \in Seq(DownFrame) /\ B \in Seq(DownFrame) /\ f \in DownFrame /\ f # Icon
  <2>1. f \in DownFrame /\ f # Icon /\ (m # None => InputMapping(w, m) \in DownFrame)
    BY <1>1 DEF DownFrame, Option, WindowOpened, Icon
  <2> HIDE DEF f, m
  <2>2. QED
    BY <2>1
<1>6. frames \in Seq(DownFrame)
  BY <1>5, ConcatProperties
<1>7. ASSUME NEW v \in World
      PROVE  Drained(v, frames).icons = v.icons
  <2> DEFINE u == Deliver(v, f)
  <2>1. Drained(v, frames) = Drained(u, B)
    <3>1. Drained(v, <<f>>) = u
      BY DrainedOne
    <3> HIDE DEF f, B, u
    <3>2. Drained(v, <<f>> \o B) = Drained(Drained(v, <<f>>), B)
      BY <1>5, DrainedConcat
    <3>3. QED
      BY <3>1, <3>2
  <2>2. u \in World /\ u.icons = v.icons
    BY <1>5, DeliverWorld, IconsCounted
  <2> HIDE DEF u
  <2>3. Drained(u, B).icons = u.icons
    <3>1. CASE m = None
      BY <3>1, DrainedEmpty
    <3>2. CASE m # None
      <4>1. InputMapping(w, m) \in DownFrame /\ InputMapping(w, m) # Icon
        BY <1>1, <3>2 DEF DownFrame, Option, InputMapping, Icon
      <4>2. Drained(u, B) = Deliver(u, InputMapping(w, m))
        BY <3>2, DrainedOne
      <4>3. QED
        BY <2>2, <4>1, <4>2, IconsCounted
    <3>3. QED
      BY <3>1, <3>2
  <2>4. QED
    BY <2>1, <2>2, <2>3
<1>8. windows[a][w] = None /\ r # None
  BY <1>1, ReplayAssumption
<1> HIDE DEF a, r, frames
<1>9. ASSUME NEW p \in Pids
      PROVE  /\ Drained(Settled(p), frames).icons = Settled(p).icons
             /\ Follows(Settled(p), windows[a]) /\ Settled(p).early = {} =>
                  /\ Follows(Drained(Settled(p), frames), windows'[a])
                  /\ Drained(Settled(p), frames).early = {}
  <2> DEFINE v == Settled(p)
             u == Drained(v, frames)
  <2>1. v \in World
    BY <1>5, OneFrame DEF Promised
  <2> HIDE DEF v
  <2>2. ASSUME Follows(v, windows[a]), v.early = {}
        PROVE  Follows(u, windows'[a]) /\ u.early = {}
    <3>1. v.mirrors[w] = None /\ v.buffered[w] = None
      <4>1. Agree(v, windows[a], w)
        BY <2>1, <2>2, FollowsAt
      <4>2. QED
        BY <1>8, <4>1 DEF Agree
    <3>2. ReplayedWorld(v, w, r, u)
      BY <1>1, <1>4, <2>1, <2>2, <3>1, ReplayWindowDrained
    <3> HIDE DEF u
    <3>3. \A x \in Windows : x # w => windows'[a][x] = windows[a][x]
      BY <1>3
    <3>4. ReplayedWorld(v, w, windows'[a][w], u) /\ windows'[a][w] \in WindowReplay
      BY <1>1, <1>3, <3>2
    <3>5. Follows(u, windows'[a])
      BY <2>1, <2>2, <3>3, <3>4, FollowsOpen
    <3>6. QED
      BY <2>2, <3>2, <3>5 DEF ReplayedWorld
  <2>3. u.icons = v.icons
    BY <1>7, <2>1
  <2>4. QED
    BY <2>2, <2>3 DEF v
<1>10. \A x \in Windows :
         \/ routes'[x] = None
         \/ routes'[x] = routes[x] /\ (windows[a][x] # None => windows'[a][x] # None)
  BY <1>2, <1>3, <1>8
<1>11. /\ a \in Apps /\ Forward(a, frames) /\ running' = running
       /\ \A b \in Apps \ {a} : windows'[b] = windows[b]
  BY <1>1, <1>2, <1>3
<1>12. QED
  BY <1>6, <1>9, <1>10, <1>11, ForwardPromised

(* A spawn that replays what is recorded, or fails.                          *)
LEMMA SpawnPromised ==
  ASSUME TypeOK, TypeOK', Promised, RunningNamed, NEW a \in Apps, SpawnAndReplay(a, windows'[a]),
         \A b \in Apps \ {a} : windows'[b] = windows[b]
  PROVE  Promised'
<1> DEFINE frames == ReplayFrames(a, windows'[a])
<1>1. windows'[a] \in [Windows -> Option(WindowReplay)]
  BY DEF TypeOK, ManagerTypeOK
<1>2. frames \in Seq(DownFrame) /\ Rebuilt(Drained(EmptyWorld, frames), a, windows'[a])
  BY <1>1, ReplayRebuilds
<1>3. routes' = routes
  BY DEF SpawnAndReplay, routerVars
<1>4. ASSUME NEW p \in Pids, Unused(p), Fork(p, a, frames), running' = [running EXCEPT ![a] = p]
      PROVE  Promised'
  <2> HIDE DEF frames
  <2>1. FramesTyped'
    BY <1>2, <1>4, ForkSettled DEF Promised
  <2>2. (IconOnce => IconOnce') /\ (Owed => Owed')
    BY <1>2, <1>3, <1>4, ForkPromises DEF Promised
  <2>3. QED
    BY <2>1, <2>2 DEF Promised
<1>5. CASE /\ running' = [running EXCEPT ![a] = None]
           /\ UNCHANGED <<app_id, phase, exit_reason, reader, down, up, world, quit>>
  <2>1. \A b \in Apps : running'[b] # None => running'[b] = running[b] /\ windows'[b] = windows[b]
    BY <1>5 DEF TypeOK, ManagerTypeOK
  <2>2. QED
    BY <1>3, <1>5, <2>1, QuietPromised
<1>6. QED
  BY <1>4, <1>5 DEF SpawnAndReplay

(* The second half of opening or replaying: a track is routed to the helper  *)
(* that is on its way to a mirror for it.                                    *)
LEMMA RoutePromised ==
  ASSUME TypeOK, TypeOK', ClientInv, Promised, FinishReplay \/ \E w \in Windows : FinishOpen(w)
  PROVE  Promised'
<1>1. RouteTracks(about) /\ UNCHANGED <<app_id, phase, world, down, running, windows>>
  BY FinishRoutes DEF helperVars
<1>2. FramesTyped' /\ \A q \in Pids : Then(q) = Settled(q)
  BY <1>1 DEF Promised, FramesTyped, Then, Settled
<1>3. /\ \A b \in Apps : running[b] # None => running[b] \in Pids
      /\ \A b \in Apps : windows[b] \in [Windows -> Option(WindowReplay)]
      /\ \A w \in Windows : routes[w] # None => routes[w] \in Pids
      /\ \A w \in Windows : Owner[w] \in Apps
  BY DataAssumption DEF TypeOK, ManagerTypeOK, Option
<1>4. IconOnce'
  BY <1>1, <1>2, NextPromises, Promises DEF Promised
<1>5. ASSUME Owed PROVE WorldsFollow' /\ NoOrphanFrames'
  BY <1>1, <1>2, <1>3, <1>5, NextPromises, Promises DEF Owed
<1>6. ASSUME Owed PROVE RoutedShown'
  <2>1. ASSUME NEW w \in Windows, routes'[w] # None, phase'[routes'[w]] # "gone"
        PROVE  Then(routes'[w]).mirrors[w] # None
    <3> DEFINE p == running[Owner[w]]
    <3>1. CASE w \in about /\ p # None
      <4>1. routes'[w] = p /\ p \in Pids /\ phase[p] # "gone" /\ Then(p) = Settled(p)
        BY <1>1, <1>2, <1>3, <2>1, <3>1 DEF RouteTracks
      <4>2. Follows(Settled(p), windows[Owner[w]]) /\ windows[Owner[w]][w] # None
        BY <1>3, <1>6, <3>1, <4>1, Promises DEF Owed, ClientInv, HandlerUnderWay
      <4>3. Settled(p) \in World
        BY <4>1, DrainedWorld DEF Promised, FramesTyped, Settled
      <4>4. QED
        BY <1>3, <4>1, <4>2, <4>3, FollowsPresent
    <3>2. CASE ~(w \in about /\ p # None)
      <4>1. routes'[w] = routes[w] /\ routes[w] \in Pids
        BY <1>1, <1>3, <2>1, <3>2 DEF RouteTracks
      <4>2. QED
        BY <1>1, <1>2, <1>6, <2>1, <4>1, Promises DEF Owed
    <3>3. QED
      BY <3>1, <3>2
  <2>2. QED
    BY <2>1, NextPromises
<1>7. QED
  BY <1>2, <1>4, <1>5, <1>6 DEF Promised, Owed

(* The first helper of an application has no window to show.                 *)
LEMMA AnnouncePromised ==
  ASSUME TypeOK, TypeOK', Promised, RunningNamed, NEW a \in Apps, AppAnnounced(a)
  PROVE  Promised'
<1> DEFINE frames == IconFrames(a)
<1>1. a \notin known /\ windows' = windows /\ routes' = routes
  BY DEF AppAnnounced, routerVars
<1>2. windows'[a] = [w \in Windows |-> None]
  <2>1. windows[a] \in [Windows -> Option(WindowReplay)] /\ \A w \in Windows : windows[a][w] = None
    BY <1>1 DEF RunningNamed, TypeOK, ManagerTypeOK
  <2>2. QED
    BY <1>1, <2>1
<1>3. frames \in Seq(DownFrame) /\ Rebuilt(Drained(EmptyWorld, frames), a, windows'[a])
  BY <1>2, IconRebuilt
<1>4. ASSUME NEW p \in Pids, Unused(p), Fork(p, a, frames), running' = [running EXCEPT ![a] = p]
      PROVE  Promised'
  <2> HIDE DEF frames
  <2>1. FramesTyped'
    BY <1>3, <1>4, ForkSettled DEF Promised
  <2>2. (IconOnce => IconOnce') /\ (Owed => Owed')
    BY <1>1, <1>3, <1>4, ForkPromises DEF Promised
  <2>3. QED
    BY <2>1, <2>2 DEF Promised
<1>5. CASE UNCHANGED <<app_id, phase, exit_reason, reader, down, up, world, quit, running>>
  BY <1>1, <1>5, QuietPromised
<1>6. QED
  BY <1>4, <1>5 DEF AppAnnounced

(* What an update makes of a record is what its frame makes of the mirror.   *)
Matches(q, r, f) ==
  q \in WindowReplay /\ MirrorOf(q) = After(MirrorOf(r), f) /\ q.mapping = r.mapping

LEMMA RecordUpdates ==
  ASSUME NEW r \in WindowReplay, NEW w \in Windows
  PROVE  /\ \A s \in Sizes : Matches([r EXCEPT !.size = s], r, WindowResized(w, s))
         /\ \A t \in Titles : Matches([r EXCEPT !.title = t], r, WindowTitleChanged(w, t))
         /\ Matches([r EXCEPT !.minimized = TRUE], r, WindowMinimized(w))
         /\ Matches([r EXCEPT !.minimized = FALSE], r, WindowRestored(w))
<1>0. PICK ti \in Titles, si \in Sizes, mi \in BOOLEAN, ma \in Option(Mappings) :
        r = [title |-> ti, size |-> si, minimized |-> mi, mapping |-> ma]
  BY DEF WindowReplay
<1>1. ASSUME NEW s \in Sizes PROVE Matches([r EXCEPT !.size = s], r, WindowResized(w, s))
  BY <1>0 DEF Matches, WindowReplay, MirrorOf, After, WindowResized
<1>2. ASSUME NEW t \in Titles PROVE Matches([r EXCEPT !.title = t], r, WindowTitleChanged(w, t))
  BY <1>0 DEF Matches, WindowReplay, MirrorOf, After, WindowTitleChanged
<1>3. Matches([r EXCEPT !.minimized = TRUE], r, WindowMinimized(w))
  BY <1>0 DEF Matches, WindowReplay, MirrorOf, After, WindowMinimized
<1>4. Matches([r EXCEPT !.minimized = FALSE], r, WindowRestored(w))
  BY <1>0 DEF Matches, WindowReplay, MirrorOf, After, WindowRestored
<1>5. QED
  BY <1>1, <1>2, <1>3, <1>4

LEMMA UpdatesPromised ==
  ASSUME TypeOK, TypeOK', ClientInv, Promised, RunningNamed, NEW w \in Windows,
         \/ \E s \in Sizes : OnWindowResized(w, s)
         \/ \E t \in Titles : OnWindowTitleChanged(w, t)
         \/ OnWindowMinimized(w) \/ OnWindowRestored(w)
  PROVE  Promised'
<1>1. ASSUME NEW rec, NEW f \in Updates(w), UpdateWindow(w, rec, f),
             Recorded(w) \in WindowReplay => Matches(rec, Recorded(w), f)
      PROVE  Promised'
  <2>1. Recorded(w) \in WindowReplay
    BY <1>1, UpdateShape, KnownWindow
  <2>2. QED
    BY <1>1, <2>1, UpdatePromised DEF Matches
<1>2. ASSUME NEW s \in Sizes, OnWindowResized(w, s) PROVE Promised'
  <2>1. WindowResized(w, s) \in Updates(w)
    BY DEF Updates
  <2>2. QED
    BY <1>1, <1>2, <2>1, RecordUpdates DEF OnWindowResized
<1>3. ASSUME NEW t \in Titles, OnWindowTitleChanged(w, t) PROVE Promised'
  <2>1. WindowTitleChanged(w, t) \in Updates(w)
    BY DEF Updates
  <2>2. QED
    BY <1>1, <1>3, <2>1, RecordUpdates DEF OnWindowTitleChanged
<1>4. ASSUME OnWindowMinimized(w) PROVE Promised'
  <2>1. WindowMinimized(w) \in Updates(w)
    BY DEF Updates
  <2>2. QED
    BY <1>1, <1>4, <2>1, RecordUpdates DEF OnWindowMinimized
<1>5. ASSUME OnWindowRestored(w) PROVE Promised'
  <2>1. WindowRestored(w) \in Updates(w)
    BY DEF Updates
  <2>2. QED
    BY <1>1, <1>5, <2>1, RecordUpdates DEF OnWindowRestored
<1>6. QED
  BY <1>2, <1>3, <1>4, <1>5

LEMMA HostStepPromised ==
  ASSUME TypeOK, TypeOK', ClientInv, Promised, RunningNamed, OpensAnew, HostStep
  PROVE  Promised'
<1>1. ASSUME UNCHANGED clientVars PROVE Promised'
  <2>1. UNCHANGED <<app_id, phase, world, down, running, windows, routes>>
    BY <1>1 DEF clientVars, helperVars, managerVars, routerVars
  <2>2. QED
    BY <2>1, QuietPromised
<1>2. ASSUME NEW a \in Apps, HostAnnounces(a) PROVE Promised'
  BY <1>1, <1>2, AnnouncePromised DEF HostAnnounces
<1>3. ASSUME NEW w \in Windows, HostOpens(w) PROVE Promised'
  <2>1. Owner[w] \in Apps /\ (Handling => windows[Owner[w]][w] = None)
    BY <1>3, DataAssumption, HandlerIdle
       DEF HostOpens, Opens, OpenFails, Shared, OpensAnew, Forgotten
  <2>2. ASSUME NEW t \in Titles, NEW s \in Sizes, WindowOpenedDormant(w, t, s) PROVE Promised'
    <3>1. /\ RecordWindow(w, t, s)
          /\ SpawnAndReplay(Owner[w], [windows[Owner[w]] EXCEPT ![w] = NewRecord(w, t, s)])
      BY <2>2 DEF WindowOpenedDormant
    <3>2. /\ windows'[Owner[w]] = [windows[Owner[w]] EXCEPT ![w] = NewRecord(w, t, s)]
          /\ \A b \in Apps \ {Owner[w]} : windows'[b] = windows[b]
      BY <3>1, RecordWindowTables
    <3>3. SpawnAndReplay(Owner[w], windows'[Owner[w]])
      BY <3>1, <3>2
    <3>4. QED
      BY <2>1, <3>2, <3>3, SpawnPromised
  <2>3. ASSUME NEW t \in Titles, NEW s \in Sizes, WindowOpenedRunning(w, t, s) PROVE Promised'
    BY <2>1, <2>3, OpenPromised DEF WindowOpenedRunning, AcceptsWindows
  <2>4. QED
    BY <1>1, <1>3, <2>2, <2>3 DEF HostOpens, WindowOpenedDropped
<1>4. ASSUME NEW w \in Windows,
             HostResizes(w) \/ HostRetitles(w) \/ HostMinimizes(w) \/ HostRestores(w)
      PROVE  Promised'
  BY <1>1, <1>4, UpdatesPromised
     DEF HostResizes, HostRetitles, HostMinimizes, HostRestores, UpdateIgnored
<1>5. ASSUME NEW w \in Windows, HostCloses(w) PROVE Promised'
  BY <1>5, UnroutePromised DEF HostCloses
<1>6. ASSUME NEW w \in Windows, HostMaps(w) PROVE Promised'
  <2>1. PICK m \in Mappings : InputMappingKnown(w, m) \/ InputMappingEarly(w, m)
    BY <1>6 DEF HostMaps, OnInputMapping
  <2>2. CASE InputMappingEarly(w, m)
    <3>1. UNCHANGED <<app_id, phase, world, down, running, windows, routes>>
      BY <2>2 DEF InputMappingEarly, helperVars, routerVars
    <3>2. QED
      BY <3>1, QuietPromised
  <2>3. QED
    BY <2>1, <2>2, MappingPromised
<1>7. ASSUME NEW w \in Windows, HostOpenFails(w) PROVE Promised'
  BY <1>1, <1>7 DEF HostOpenFails
<1>8. QED
  BY <1>2, <1>3, <1>4, <1>5, <1>6, <1>7 DEF HostStep

(* The exit of a helper: its application is dropped, dormant or replayed.    *)
LEMMA ExitPromised ==
  ASSUME TypeOK, TypeOK', Promised, RunningNamed, NEW p \in Pids, OnHelperExited(p)
  PROVE  Promised'
<1> DEFINE a == app_id[p]
<1>1. p \in exits
  BY DEF OnHelperExited, HelperDropped, HelperReaped, HelperRevived, HelperRespawned, ExitOf
<1>2. a \in Apps
  BY <1>1 DEF TypeOK, HelperTypeOK, Unreaped
<1>3. CASE HelperDropped(p)
  <2>1. UNCHANGED <<app_id, phase, world, down>> /\ GiveUpApp(a)
    BY <1>3 DEF HelperDropped
  <2>2. \A b \in Apps : running'[b] # None => running'[b] = running[b] /\ windows'[b] = windows[b]
    BY <1>2, <2>1 DEF GiveUpApp, DropAppWindows, TypeOK, ManagerTypeOK
  <2>3. \A w \in Windows : routes'[w] # None => routes'[w] = routes[w]
    BY <2>1 DEF GiveUpApp, DropAppWindows
  <2>4. QED
    BY <2>1, <2>2, <2>3, QuietPromised
<1>4. CASE HelperReaped(p)
  <2>1. UNCHANGED <<app_id, phase, world, down, windows, routes>> /\ running' = [running EXCEPT ![a] = None]
    BY <1>4 DEF HelperReaped, routerVars
  <2>2. \A b \in Apps : running'[b] # None => running'[b] = running[b] /\ windows'[b] = windows[b]
    BY <1>2, <2>1 DEF TypeOK, ManagerTypeOK
  <2>3. QED
    BY <2>1, <2>2, QuietPromised
<1>5. CASE HelperRevived(p) \/ HelperRespawned(p)
  <2>1. SpawnAndReplay(a, windows'[a]) /\ windows' = windows
    BY <1>5 DEF HelperRevived, HelperRespawned
  <2>2. QED
    BY <1>2, <2>1, SpawnPromised
<1>6. QED
  BY <1>3, <1>4, <1>5 DEF OnHelperExited

LEMMA PromisedStep ==
  ASSUME TypeOK, TypeOK', ClientInv, Promised, RunningNamed, OpensAnew, [Next]_vars
  PROVE  Promised'
<1>1. ASSUME UNCHANGED <<app_id, phase, world, down, running, windows, routes>> PROVE Promised'
  BY <1>1, QuietPromised
<1>2. CASE UNCHANGED vars
  BY <1>1, <1>2 DEF vars, clientVars, helperVars, managerVars, routerVars
<1>3. CASE HostStep
  BY <1>3, HostStepPromised
<1>4. CASE HostReceives
  BY <1>1, <1>4 DEF HostReceives, helperVars, managerVars, routerVars
<1>5. CASE SessionEnds
  <2>1. /\ UNCHANGED <<app_id, phase, world, down, windows, routes>>
        /\ \A a \in Apps : running'[a] # None => running'[a] = running[a]
    BY <1>5 DEF SessionEnds, Disconnected, CoordinatorExits, helperVars, routerVars
  <2>2. QED
    BY <2>1, QuietPromised
<1>6. ASSUME NEW p \in Pids,
             HelperReads(p) \/ HelperLeaves(p) \/ UserActs(p) \/ HelperCrashes(p)
      PROVE  Promised'
  BY <1>6, HelperStepPromised
<1>7. ASSUME NEW p \in Pids, ManagerHears(p) PROVE Promised'
  BY <1>1, <1>7 DEF ManagerHears, OnHelperUp, managerVars
<1>8. ASSUME NEW p \in Pids, ManagerReaps(p) PROVE Promised'
  BY <1>8, ExitPromised DEF ManagerReaps
<1>9. ASSUME NEW w \in Windows, VideoArrives(w) PROVE Promised'
  BY <1>9, VideoPromised DEF VideoArrives
<1>10. CASE ManagerFinishes
  BY <1>10, RoutePromised, ClosePromised DEF ManagerFinishes
<1>11. QED
  BY <1>2, <1>3, <1>4, <1>5, <1>6, <1>7, <1>8, <1>9, <1>10 DEF Next

----------------------------------------------------------------------------
(* What `running` names, and which applications have windows.                *)
LEMMA QuietNamed ==
  ASSUME RunningNamed, UNCHANGED <<app_id, phase, exits>>, known \subseteq known',
         \A b \in Apps : running'[b] # None => running'[b] = running[b],
         \A b \in Apps, w \in Windows : windows'[b][w] # None => windows[b][w] # None
  PROVE  RunningNamed'
<1>1. ASSUME NEW b \in Apps
      PROVE  (running[b] # None => Unreaped(running[b]) /\ app_id[running[b]] = b)'
  BY DEF RunningNamed, Unreaped, Alive
<1>2. ASSUME NEW b \in Apps, b \notin known', NEW w \in Windows
      PROVE  windows'[b][w] = None
  BY <1>2 DEF RunningNamed
<1>3. QED
  BY <1>1, <1>2 DEF RunningNamed

(* A spawn for an application of which no process is left but those just     *)
(* handled.                                                                  *)
LEMMA SpawnNamed ==
  ASSUME TypeOK, RunningNamed, NEW a \in Apps, NEW frames,
         (\E p \in Pids : Spawned(a, p, frames)) \/ NotSpawned(a),
         exits' \subseteq exits, \A p \in exits \ exits' : app_id[p] = a, known \subseteq known',
         \A b \in Apps, w \in Windows :
           windows'[b][w] # None => windows[b][w] # None \/ b \in known'
  PROVE  RunningNamed'
<1>1. /\ running \in [Apps -> Option(Pids)] /\ app_id \in [Pids -> Option(Apps)]
      /\ phase \in [Pids -> {"gone", "live", "exiting"}]
  BY DEF TypeOK, ManagerTypeOK, HelperTypeOK
<1>2. ASSUME NEW b \in Apps, b # a, running'[b] = running[b],
             \A q \in Pids : app_id[q] = b /\ Unreaped(q) =>
               app_id'[q] = b /\ (phase'[q] = phase[q])
      PROVE  (running[b] # None => Unreaped(running[b]) /\ app_id[running[b]] = b)'
  <2>1. SUFFICES ASSUME running[b] # None
                 PROVE  (Unreaped(running[b]) /\ app_id[running[b]] = b)'
    BY <1>2
  <2>2. running[b] \in Pids /\ Unreaped(running[b]) /\ app_id[running[b]] = b
    BY <1>1, <2>1 DEF RunningNamed, Option
  <2>3. QED
    BY <1>2, <2>2 DEF Unreaped, Alive
<1>3. ASSUME NEW b \in Apps
      PROVE  (running[b] # None => Unreaped(running[b]) /\ app_id[running[b]] = b)'
  <2>1. ASSUME NEW p \in Pids, Spawned(a, p, frames)
        PROVE  (running[b] # None => Unreaped(running[b]) /\ app_id[running[b]] = b)'
    <3>1. /\ running' = [running EXCEPT ![a] = p] /\ Free(p)
          /\ app_id' = [app_id EXCEPT ![p] = a] /\ phase' = [phase EXCEPT ![p] = "live"]
      BY <2>1 DEF Spawned, Fork
    <3>2. CASE b = a
      BY <1>1, <3>1, <3>2 DEF Unreaped, Alive
    <3>3. CASE b # a
      BY <1>1, <1>2, <3>1, <3>3 DEF Unreaped, Alive, Free
    <3>4. QED
      BY <3>2, <3>3
  <2>2. CASE NotSpawned(a)
    BY <1>1, <1>2, <2>2 DEF NotSpawned
  <2>3. QED
    BY <2>1, <2>2
<1>4. ASSUME NEW b \in Apps, b \notin known', NEW w \in Windows
      PROVE  windows'[b][w] = None
  BY <1>4 DEF RunningNamed
<1>5. QED
  BY <1>3, <1>4 DEF RunningNamed

LEMMA UpdateNamed ==
  ASSUME TypeOK, ClientInv, RunningNamed, NEW w \in Windows, NEW rec, NEW frame,
         UpdateWindow(w, rec, frame)
  PROVE  RunningNamed'
<1>1. /\ UNCHANGED <<app_id, phase, exits, known, running>>
  BY DEF UpdateWindow, Forward, SendDown
<1>2. /\ \A x \in Windows : x # w => windows'[Owner[w]][x] = windows[Owner[w]][x]
      /\ \A b \in Apps \ {Owner[w]} : windows'[b] = windows[b]
      /\ windows[Owner[w]][w] # None
  BY UpdateShape, KnownWindow
<1>3. QED
  BY <1>1, <1>2, QuietNamed

LEMMA HostStepNamed ==
  ASSUME TypeOK, ClientInv, RunningNamed, HostStep
  PROVE  RunningNamed'
<1>1. ASSUME UNCHANGED clientVars PROVE RunningNamed'
  BY <1>1, QuietNamed DEF clientVars, helperVars, managerVars
<1>2. ASSUME NEW a \in Apps, AppAnnounced(a) PROVE RunningNamed'
  <2>1. exits' = exits /\ windows' = windows /\ known \subseteq known'
    BY <1>2 DEF AppAnnounced
  <2>2. CASE UNCHANGED <<app_id, phase, running>>
    BY <2>1, <2>2, QuietNamed
  <2>3. CASE \E p \in Pids : Spawned(a, p, IconFrames(a))
    BY <2>1, <2>3, SpawnNamed
  <2>4. QED
    BY <1>2, <2>2, <2>3 DEF AppAnnounced, Spawned
<1>3. ASSUME NEW w \in Windows, NEW t \in Titles, NEW s \in Sizes,
             WindowOpenedDormant(w, t, s) \/ WindowOpenedRunning(w, t, s)
      PROVE  RunningNamed'
  <2>1. /\ RecordWindow(w, t, s) /\ UNCHANGED <<exits, known>> /\ Owner[w] \in known
    BY <1>3 DEF WindowOpenedDormant, WindowOpenedRunning, AcceptsWindows, OpenCall, OpenOrder,
                helperVars
  <2>2. Owner[w] \in Apps
    BY DataAssumption
  <2>3. ASSUME NEW b \in Apps, NEW x \in Windows, windows'[b][x] # None
        PROVE  windows[b][x] # None \/ b \in known'
    BY <2>1, <2>3, RecordWindowTables
  <2>4. CASE WindowOpenedDormant(w, t, s)
    <3>1. \E ws : SpawnAndReplay(Owner[w], ws)
      BY <2>4 DEF WindowOpenedDormant
    <3>2. QED
      BY <2>1, <2>2, <2>3, <3>1, SpawnAndReplaySpawns, SpawnNamed
  <2>5. CASE WindowOpenedRunning(w, t, s)
    <3>1. UNCHANGED <<app_id, phase, running>>
      BY <2>5 DEF WindowOpenedRunning, OpenCall, OpenOrder, Forward, SendDown
    <3>2. QED
      BY <2>1, <2>3, <3>1 DEF RunningNamed, Unreaped, Alive
  <2>6. QED
    BY <1>3, <2>4, <2>5
<1>4. ASSUME NEW w \in Windows, OnWindowClosed(w) PROVE RunningNamed'
  BY <1>4, QuietNamed DEF OnWindowClosed, CloseCall, CloseOrder, helperVars
<1>5. ASSUME NEW w \in Windows, NEW m, OnInputMapping(w, m) PROVE RunningNamed'
  <2>1. CASE InputMappingKnown(w, m)
    BY <2>1, UpdateNamed DEF InputMappingKnown
  <2>2. CASE InputMappingEarly(w, m)
    BY <2>2, QuietNamed DEF InputMappingEarly, helperVars
  <2>3. QED
    BY <1>5, <2>1, <2>2 DEF OnInputMapping
<1>6. ASSUME NEW w \in Windows,
             HostResizes(w) \/ HostRetitles(w) \/ HostMinimizes(w) \/ HostRestores(w)
      PROVE  RunningNamed'
  <2>1. UNCHANGED clientVars \/ \E rec, frame : UpdateWindow(w, rec, frame)
    BY <1>6 DEF HostResizes, HostRetitles, HostMinimizes, HostRestores, OnWindowResized,
                OnWindowTitleChanged, OnWindowMinimized, OnWindowRestored, UpdateIgnored
  <2>2. QED
    BY <1>1, <2>1, UpdateNamed
<1>7. QED
  BY <1>1, <1>2, <1>3, <1>4, <1>5, <1>6
     DEF HostStep, HostAnnounces, HostOpens, WindowOpenedDropped, HostOpenFails, HostCloses, HostMaps

LEMMA ExitNamed ==
  ASSUME TypeOK, RunningNamed, NEW p \in Pids, OnHelperExited(p)
  PROVE  RunningNamed'
<1> DEFINE a == app_id[p]
<1>1. p \in exits /\ exits' = exits \ {p} /\ known' = known
  BY DEF OnHelperExited, HelperDropped, HelperReaped, HelperRevived, HelperRespawned, ExitOf
<1>2. a \in Apps /\ running \in [Apps -> Option(Pids)] /\ phase \in [Pids -> {"gone", "live", "exiting"}]
      /\ windows \in [Apps -> [Windows -> Option(WindowReplay)]]
  BY <1>1 DEF TypeOK, HelperTypeOK, ManagerTypeOK, Unreaped
<1>3. CASE HelperDropped(p) \/ HelperReaped(p)
  <2>1. /\ UNCHANGED <<app_id, phase>> /\ running' = [running EXCEPT ![a] = None]
        /\ windows' = windows \/ windows' = [windows EXCEPT ![a] = [w \in Windows |-> None]]
    BY <1>3 DEF HelperDropped, GiveUpApp, DropAppWindows, HelperReaped
  <2>2. ASSUME NEW b \in Apps
        PROVE  (running[b] # None => Unreaped(running[b]) /\ app_id[running[b]] = b)'
    <3>1. CASE b = a
      BY <1>2, <2>1, <3>1
    <3>2. CASE b # a
      BY <1>1, <1>2, <2>1, <3>2 DEF RunningNamed, Unreaped, Alive
    <3>3. QED
      BY <3>1, <3>2
  <2>3. \A b \in Apps, w \in Windows : windows'[b][w] # None => windows[b][w] # None
    BY <1>2, <2>1
  <2>4. QED
    BY <1>1, <2>2, <2>3 DEF RunningNamed
<1>4. CASE HelperRevived(p) \/ HelperRespawned(p)
  <2>1. SpawnAndReplay(a, windows[a]) /\ windows' = windows
    BY <1>4 DEF HelperRevived, HelperRespawned
  <2>2. (\E q \in Pids : Spawned(a, q, ReplayFrames(a, windows[a]))) \/ NotSpawned(a)
    BY <2>1, SpawnAndReplaySpawns
  <2>3. exits' \subseteq exits /\ \A q \in exits \ exits' : app_id[q] = a
    BY <1>1
  <2>4. QED
    BY <1>1, <1>2, <2>1, <2>2, <2>3, SpawnNamed
<1>5. QED
  BY <1>3, <1>4 DEF OnHelperExited

LEMMA FinishNamed ==
  ASSUME TypeOK, ClientInv, RunningNamed, ManagerFinishes
  PROVE  RunningNamed'
<1>1. CASE FinishReplay \/ \E w \in Windows : FinishOpen(w)
  BY <1>1, FinishRoutes, QuietNamed DEF helperVars
<1>2. ASSUME NEW w \in Windows, FinishClose(w) PROVE RunningNamed'
  <2>1. /\ UNCHANGED <<app_id, phase, exits, known, running>>
        /\ windows' = [windows EXCEPT ![app_of_window[w]][w] = None]
    BY <1>2 DEF FinishClose, CloseCall, CloseOrder, Forward, SendDown
  <2>2. windows \in [Apps -> [Windows -> Option(WindowReplay)]]
    BY DEF TypeOK, ManagerTypeOK
  <2>3. \A b \in Apps, x \in Windows : windows'[b][x] # None => windows[b][x] # None
    BY <2>1, <2>2
  <2>4. QED
    BY <2>1, <2>3, QuietNamed
<1>3. QED
  BY <1>1, <1>2 DEF ManagerFinishes

LEMMA RunningNamedStep ==
  ASSUME TypeOK, ClientInv, RunningNamed, [Next]_vars
  PROVE  RunningNamed'
<1>1. CASE UNCHANGED vars
  BY <1>1, QuietNamed DEF vars, clientVars, helperVars, managerVars
<1>2. CASE HostStep
  BY <1>2, HostStepNamed
<1>3. CASE HostReceives
  BY <1>3, QuietNamed DEF HostReceives, helperVars, managerVars
<1>4. CASE SessionEnds
  <2>1. /\ UNCHANGED <<app_id, phase, exits, known, windows>>
        /\ \A b \in Apps : running'[b] # None => running'[b] = running[b]
    BY <1>4 DEF SessionEnds, Disconnected, CoordinatorExits, helperVars
  <2>2. QED
    BY <2>1, QuietNamed
<1>5. ASSUME NEW p \in Pids,
             HelperReads(p) \/ HelperLeaves(p) \/ UserActs(p) \/ HelperCrashes(p)
      PROVE  RunningNamed'
  <2>1. UNCHANGED <<known, running, windows>>
    BY <1>5 DEF HelperReads, HelperLeaves, UserActs, HelperCrashes, managerVars
  <2>2. app_id' = app_id /\ \A q \in Pids : Unreaped(q)' <=> Unreaped(q)
    BY <1>5, HelperTable
  <2>3. running \in [Apps -> Option(Pids)]
    BY DEF TypeOK, ManagerTypeOK
  <2>4. ASSUME NEW b \in Apps
        PROVE  (running[b] # None => Unreaped(running[b]) /\ app_id[running[b]] = b)'
    <3>1. SUFFICES ASSUME running[b] # None PROVE Unreaped(running[b])' /\ app_id[running[b]] = b
      BY <2>1, <2>2 DEF Unreaped, Alive
    <3>2. running[b] \in Pids /\ Unreaped(running[b]) /\ app_id[running[b]] = b
      BY <2>3, <3>1 DEF RunningNamed, Option
    <3>3. QED
      BY <2>1, <2>2, <3>2 DEF Unreaped, Alive
  <2>5. QED
    BY <2>1, <2>4 DEF RunningNamed
<1>6. ASSUME NEW p \in Pids, ManagerHears(p) PROVE RunningNamed'
  BY <1>6, QuietNamed DEF ManagerHears, OnHelperUp, managerVars
<1>7. ASSUME NEW p \in Pids, ManagerReaps(p) PROVE RunningNamed'
  BY <1>7, ExitNamed DEF ManagerReaps
<1>8. ASSUME NEW w \in Windows, VideoArrives(w) PROVE RunningNamed'
  BY <1>8, QuietNamed DEF VideoArrives, ForwardVideo, SendDown, managerVars
<1>9. QED
  BY <1>1, <1>2, <1>3, <1>4, <1>5, <1>6, <1>7, <1>8, FinishNamed DEF Next

----------------------------------------------------------------------------
(* A window is recorded only while it is open at the host, or was opened     *)
(* before its application was dropped.                                       *)
LEMMA AnewStays ==
  ASSUME OpensAnew, subscribed' \subseteq subscribed,
         about = {} \/ UNCHANGED <<handler, about>>,
         \A w \in Windows : windows[Owner[w]][w] = None =>
           windows'[Owner[w]][w] = None \/ host_windows'[w] # "absent",
         \A w \in Windows : host_windows'[w] = "absent" /\ Owner[w] \in subscribed' =>
           host_windows[w] = "absent" \/ Forgotten(w)'
  PROVE  OpensAnew'
BY DEF OpensAnew, Forgotten

(* A message of the host finds the manager between two handlers, or does not *)
(* reach it.                                                                 *)
LEMMA HostStepIdle ==
  ASSUME ClientInv, HostStep
  PROVE  about = {} \/ UNCHANGED <<handler, about>>
<1>1. UNCHANGED clientVars => UNCHANGED <<handler, about>>
  BY DEF clientVars, managerVars
<1>2. \A w, rec, frame : UpdateWindow(w, rec, frame) => Handling
  BY DEF UpdateWindow
<1>3. ASSUME NEW a \in Apps, HostAnnounces(a) PROVE Handling
  BY <1>3 DEF HostAnnounces, AppAnnounced
<1>4. ASSUME NEW w \in Windows, HostOpens(w) PROVE Handling
  BY <1>4 DEF HostOpens, WindowOpenedDropped, WindowOpenedDormant, WindowOpenedRunning,
              AcceptsWindows
<1>5. ASSUME NEW w \in Windows, HostResizes(w) \/ HostRetitles(w) PROVE Handling
  BY <1>2, <1>5
     DEF HostResizes, HostRetitles, OnWindowResized, OnWindowTitleChanged, UpdateIgnored
<1>6. ASSUME NEW w \in Windows, HostMinimizes(w) \/ HostRestores(w) PROVE Handling
  BY <1>2, <1>6
     DEF HostMinimizes, HostRestores, OnWindowMinimized, OnWindowRestored, UpdateIgnored
<1>7. ASSUME NEW w \in Windows, HostCloses(w) \/ HostMaps(w) PROVE Handling
  BY <1>2, <1>7 DEF HostCloses, OnWindowClosed, HostMaps, OnInputMapping, InputMappingKnown,
                    InputMappingEarly
<1>8. ASSUME NEW w \in Windows, HostOpenFails(w) PROVE UNCHANGED <<handler, about>>
  BY <1>1, <1>8 DEF HostOpenFails
<1>9. QED
  BY <1>3, <1>4, <1>5, <1>6, <1>7, <1>8, HandlerIdle DEF HostStep

LEMMA HostStepAnew ==
  ASSUME TypeOK, ClientInv, OpensAnew, HostStep
  PROVE  OpensAnew'
<1>0. about = {} \/ UNCHANGED <<handler, about>>
  BY HostStepIdle
<1>1. host_windows \in [Windows -> WindowStates] /\ \A w \in Windows : Owner[w] \in Apps
  BY DataAssumption DEF TypeOK
<1>2. ASSUME UNCHANGED windows, subscribed' = subscribed,
             \A w \in Windows : host_windows'[w] = "absent" => host_windows[w] = "absent"
      PROVE  OpensAnew'
  BY <1>0, <1>2, AnewStays
<1>3. ASSUME NEW a \in Apps, HostAnnounces(a) PROVE OpensAnew'
  BY <1>2, <1>3 DEF HostAnnounces, Announces, AppAnnounced, clientVars, managerVars
<1>4. ASSUME NEW w \in Windows, HostOpens(w) PROVE OpensAnew'
  <2>1. host_windows' = [host_windows EXCEPT ![w] = "normal"] /\ subscribed' = subscribed
    BY <1>4 DEF HostOpens, Opens, OpenFails, Becomes
  <2>2. CASE UNCHANGED windows
    BY <1>1, <1>2, <2>1, <2>2
  <2>3. ASSUME NEW t \in Titles, NEW s \in Sizes, RecordWindow(w, t, s) PROVE OpensAnew'
    <3>1. /\ \A b \in Apps : b # Owner[w] => windows'[b] = windows[b]
          /\ windows'[Owner[w]] = [windows[Owner[w]] EXCEPT ![w] = NewRecord(w, t, s)]
      BY <2>3, RecordWindowTables
    <3>2. windows[Owner[w]] \in [Windows -> Option(WindowReplay)]
      BY <1>1 DEF TypeOK, ManagerTypeOK
    <3>3. \A x \in Windows : x # w => windows'[Owner[x]][x] = windows[Owner[x]][x]
      BY <1>1, <3>1, <3>2
    <3>4. host_windows'[w] = "normal" /\ \A x \in Windows : x # w => host_windows'[x] = host_windows[x]
      BY <1>1, <2>1
    <3>5. QED
      BY <1>0, <2>1, <3>3, <3>4, AnewStays
  <2>4. QED
    BY <1>4, <2>2, <2>3 DEF HostOpens, WindowOpenedDormant, WindowOpenedRunning,
                            WindowOpenedDropped, clientVars, managerVars
<1>5. ASSUME NEW w \in Windows, NEW rec, NEW frame, UpdateWindow(w, rec, frame),
             subscribed' = subscribed,
             \A x \in Windows : host_windows'[x] = "absent" => host_windows[x] = "absent"
      PROVE  OpensAnew'
  <2>1. /\ \A x \in Windows : x # w => windows'[Owner[w]][x] = windows[Owner[w]][x]
        /\ \A b \in Apps \ {Owner[w]} : windows'[b] = windows[b]
        /\ windows[Owner[w]][w] # None
    BY <1>5, UpdateShape, KnownWindow
  <2>2. \A x \in Windows : windows[Owner[x]][x] = None => windows'[Owner[x]][x] = None
    BY <1>1, <2>1
  <2>3. QED
    BY <1>0, <1>5, <2>2, AnewStays
<1>6. ASSUME NEW w \in Windows,
             HostResizes(w) \/ HostRetitles(w) \/ HostMinimizes(w) \/ HostRestores(w)
      PROVE  OpensAnew'
  <2>1. /\ subscribed' = subscribed
        /\ \A x \in Windows : host_windows'[x] = "absent" => host_windows[x] = "absent"
    BY <1>1, <1>6 DEF HostResizes, HostRetitles, HostMinimizes, HostRestores, Resizes, Retitles,
                      Minimizes, Restores, Becomes, streamVars
  <2>2. UNCHANGED windows \/ \E rec, frame : UpdateWindow(w, rec, frame)
    BY <1>6 DEF HostResizes, HostRetitles, HostMinimizes, HostRestores, OnWindowResized,
                OnWindowTitleChanged, OnWindowMinimized, OnWindowRestored, UpdateIgnored,
                clientVars, managerVars
  <2>3. QED
    BY <1>2, <1>5, <2>1, <2>2
<1>7. ASSUME NEW w \in Windows, HostCloses(w) PROVE OpensAnew'
  <2>1. /\ host_windows' = [host_windows EXCEPT ![w] = "absent"] /\ subscribed' = subscribed
        /\ OnWindowClosed(w)
    BY <1>7 DEF HostCloses, Closes, Becomes
  <2>2. windows' = windows
    BY <2>1 DEF OnWindowClosed, CloseCall, CloseOrder
  <2>3. Forgotten(w)'
    <3>1. CASE app_of_window[w] = None
      BY <1>1, <2>2, <3>1, DataAssumption DEF ClientInv, WindowTables, Forgotten
    <3>2. CASE app_of_window[w] # None
      BY <2>1, <3>2 DEF OnWindowClosed, Forgotten
    <3>3. QED
      BY <3>1, <3>2
  <2>4. QED
    BY <1>0, <1>1, <2>1, <2>2, <2>3, AnewStays
<1>8. ASSUME NEW w \in Windows, HostMaps(w) PROVE OpensAnew'
  <2>1. UNCHANGED streamVars /\ \E m \in Mappings : OnInputMapping(w, m)
    BY <1>8 DEF HostMaps, Maps
  <2>2. UNCHANGED windows \/ \E rec, frame : UpdateWindow(w, rec, frame)
    BY <2>1 DEF OnInputMapping, InputMappingKnown, InputMappingEarly
  <2>3. QED
    BY <1>2, <1>5, <2>1, <2>2 DEF streamVars
<1>9. ASSUME NEW w \in Windows, HostOpenFails(w) PROVE OpensAnew'
  <2>1. /\ host_windows' = [host_windows EXCEPT ![w] = "normal"] /\ subscribed' = subscribed
        /\ UNCHANGED windows
    BY <1>9 DEF HostOpenFails, OpenFails, Becomes, clientVars, managerVars
  <2>2. QED
    BY <1>1, <1>2, <2>1
<1>10. QED
  BY <1>3, <1>4, <1>6, <1>7, <1>8, <1>9 DEF HostStep

LEMMA OpensAnewStep ==
  ASSUME TypeOK, ClientInv, OpensAnew, [Next]_vars
  PROVE  OpensAnew'
<1>1. ASSUME UNCHANGED <<windows, streamVars>>, about = {} \/ UNCHANGED <<handler, about>>
      PROVE  OpensAnew'
  BY <1>1 DEF OpensAnew, Forgotten, streamVars
<1>2. CASE UNCHANGED vars
  BY <1>1, <1>2 DEF vars, clientVars, managerVars
<1>3. CASE HostStep
  BY <1>3, HostStepAnew
<1>4. CASE HostReceives
  <2>1. UNCHANGED <<windows, handler, about>>
    BY <1>4 DEF HostReceives, managerVars
  <2>2. ASSUME NEW a, Drops(a) PROVE OpensAnew'
    <3>1. /\ subscribed' = subscribed \ {a}
          /\ \A w \in Windows : Owner[w] # a => host_windows'[w] = host_windows[w]
      BY <2>2 DEF Drops
    <3>2. QED
      BY <2>1, <3>1, AnewStays
  <2>3. QED
    BY <1>1, <1>4, <2>1, <2>2 DEF HostReceives
<1>5. CASE SessionEnds
  BY <1>1, <1>5 DEF SessionEnds, Disconnected, CoordinatorExits
<1>6. ASSUME NEW p \in Pids,
             \/ HelperReads(p) \/ HelperLeaves(p) \/ UserActs(p) \/ HelperCrashes(p)
             \/ ManagerHears(p)
      PROVE  OpensAnew'
  BY <1>1, <1>6 DEF HelperReads, HelperLeaves, UserActs, HelperCrashes, ManagerHears,
                    OnHelperUp, managerVars
<1>7. ASSUME NEW p \in Pids, ManagerReaps(p) PROVE OpensAnew'
  <2>0. about = {}
    BY <1>7, HandlerIdle DEF ManagerReaps, OnHelperExited, HelperDropped, HelperReaped,
       HelperRevived, HelperRespawned, ExitOf
  <2>1. UNCHANGED streamVars /\ OnHelperExited(p)
    BY <1>7 DEF ManagerReaps
  <2>2. CASE HelperDropped(p)
    <3>1. windows' = [windows EXCEPT ![app_id[p]] = [w \in Windows |-> None]]
      BY <2>2 DEF HelperDropped, GiveUpApp, DropAppWindows
    <3>2. windows \in [Apps -> [Windows -> Option(WindowReplay)]] /\ Owner \in [Windows -> Apps]
      BY DataAssumption DEF TypeOK, ManagerTypeOK
    <3>3. \A w \in Windows : windows[Owner[w]][w] = None => windows'[Owner[w]][w] = None
      BY <3>1, <3>2
    <3>4. QED
      BY <2>0, <2>1, <3>3, AnewStays DEF streamVars
  <2>3. CASE HelperReaped(p) \/ HelperRevived(p) \/ HelperRespawned(p)
    BY <1>1, <2>0, <2>1, <2>3 DEF HelperReaped, HelperRevived, HelperRespawned
  <2>4. QED
    BY <2>1, <2>2, <2>3 DEF OnHelperExited
<1>8. ASSUME NEW w \in Windows, VideoArrives(w) PROVE OpensAnew'
  BY <1>1, <1>8 DEF VideoArrives, ForwardVideo, managerVars
<1>9. CASE ManagerFinishes
  <2>1. CASE FinishReplay \/ \E w \in Windows : FinishOpen(w)
    <3>1. windows' = windows /\ handler # "closing" /\ UNCHANGED streamVars
      BY <1>9, <2>1, FinishRoutes DEF ManagerFinishes, FinishReplay, FinishOpen
    <3>2. QED
      BY <3>1 DEF OpensAnew, Forgotten, streamVars
  <2>2. ASSUME NEW w \in Windows, FinishClose(w) PROVE OpensAnew'
    <3>1. about = {w} /\ app_of_window[w] = Owner[w] /\ UNCHANGED streamVars
      BY <1>9, <2>2 DEF ManagerFinishes, FinishClose, ClientInv, HandlerUnderWay, WindowTables
    <3>2. windows' = [windows EXCEPT ![Owner[w]][w] = None]
      BY <2>2, <3>1 DEF FinishClose, CloseCall, CloseOrder
    <3>3. windows \in [Apps -> [Windows -> Option(WindowReplay)]] /\ Owner \in [Windows -> Apps]
      BY DataAssumption DEF TypeOK, ManagerTypeOK
    <3>4. \A x \in Windows : Forgotten(x) => windows'[Owner[x]][x] = None
      BY <3>1, <3>2, <3>3 DEF Forgotten
    <3>5. QED
      BY <3>1, <3>4 DEF OpensAnew, Forgotten, streamVars
  <2>3. QED
    BY <1>9, <2>1, <2>2 DEF ManagerFinishes
<1>10. QED
  BY <1>2, <1>3, <1>4, <1>5, <1>6, <1>7, <1>8, <1>9 DEF Next

----------------------------------------------------------------------------
(* The invariant and what it gives.                                          *)
LEMMA FidelityParts == FidelityInv <=> RunningNamed /\ OpensAnew /\ Promised
BY DEF FidelityInv, Promised, Owed

LEMMA FidelityInit == Init => FidelityInv
<1> SUFFICES ASSUME Init PROVE FidelityInv
  OBVIOUS
<1>1. /\ \A a \in Apps : running[a] = None /\ \A w \in Windows : windows[a][w] = None
      /\ \A w \in Windows : routes[w] = None /\ windows[Owner[w]][w] = None
      /\ \A p \in Pids : phase[p] = "gone"
  BY DataAssumption DEF Init, HelperInit, ManagerInit
<1>2. FramesTyped
  <2>1. <<>> \in Seq(DownFrame) /\ EmptyWorld \in World
    BY EmptyIsWorld
  <2>2. QED
    BY <2>1 DEF Init, HelperInit, FramesTyped
<1>3. RunningNamed /\ OpensAnew /\ WorldsFollow /\ RoutedShown
  BY <1>1 DEF RunningNamed, OpensAnew, Forgotten, WorldsFollow, RoutedShown
<1>4. IconOnce /\ NoOrphanFrames
  BY <1>1 DEF IconOnce, NoOrphanFrames, Alive
<1>5. QED
  BY <1>2, <1>3, <1>4 DEF FidelityInv

LEMMA FidelityStep ==
  TypeOK /\ ClientInv /\ FidelityInv /\ [Next]_vars => FidelityInv'
<1> SUFFICES ASSUME TypeOK, ClientInv, FidelityInv, [Next]_vars PROVE FidelityInv'
  OBVIOUS
<1>1. TypeOK'
  BY TypeOKStep
<1>2. RunningNamed' /\ OpensAnew'
  BY FidelityParts, RunningNamedStep, OpensAnewStep
<1>3. Promised'
  BY <1>1, FidelityParts, PromisedStep
<1>4. QED
  BY <1>2, <1>3, PTL, FidelityParts

(* The worlds of the helpers and the records of the manager keep agreeing:   *)
(* whatever the host sends, the user does and fails, in any order of events. *)
THEOREM WorldsAgree == Spec => []FidelityInv
BY TypeOKInit, TypeOKStep, ClientInvInit, ClientInvStep, FidelityInit, FidelityStep, PTL DEF Spec

(* A helper is sent its application's icon exactly once per (re)spawn        *)
(* (initial_icon_frame), and the frames after it never bring another.        *)
THEOREM IconsComeOnce == Spec => []IconOnce
<1>1. FidelityInv => IconOnce
  BY DEF FidelityInv
<1>2. QED
  BY <1>1, WorldsAgree, PTL

(* Where the toolkit refuses no window, what a running helper will show once *)
(* it has drained its queue is what the manager remembers, whatever was      *)
(* opened, closed, updated, mapped, idled out and respawned, in which order  *)
(* (replay_frames, forward, pending_mappings).                               *)
THEOREM ReplaysAreFaithful ==
  ASSUME "create" \notin Faults
  PROVE  Spec => []ReplayFidelity
<1>1. FidelityInv => ReplayFidelity
  BY DEF FidelityInv, WorldsFollow, ReplayFidelity, Settled
<1>2. QED
  BY <1>1, WorldsAgree, PTL

(* Where the toolkit refuses no window, video never reaches a helper outside *)
(* the life of its mirror: routes are set after the announcement and cleared *)
(* before the close.                                                         *)
THEOREM VideoFindsMirrors ==
  ASSUME "create" \notin Faults
  PROVE  Spec => []NoOrphanFrames
<1>1. FidelityInv => NoOrphanFrames
  BY DEF FidelityInv
<1>2. QED
  BY <1>1, WorldsAgree, PTL
=============================================================================
