------------------------------ MODULE ChunkProofs ------------------------------
(* The assembler never splices, and yields whatever was sent to the end, in  *)
(* order, whatever the messages, their sizes and the capacity of the channel.*)
EXTENDS ChunkChannel, SequenceTheorems, WellFoundedInduction, TLAPS

(* The parts held so far, and the one that comes next.                       *)
LEMMA PartsGrow ==
  ASSUME NEW m, NEW s \in Nat
  PROVE  Append(Parts(m, s), <<m, s>>) = Parts(m, s + 1)
BY DEF Parts

(* A complete sequence of parts is read as its message.                      *)
LEMMA PartsRead ==
  ASSUME ChunkAssumption, NEW m \in Message
  PROVE  Read(Parts(m, Chunks[m])) = m
<1> DEFINE parts == Parts(m, Chunks[m])
           read == {x \in {parts[i][1] : i \in DOMAIN parts} :
                      parts = [i \in 1..Chunks[x] |-> <<x, i - 1>>]}
<1>1. Chunks[m] \in Nat \ {0}
  BY DEF ChunkAssumption
<1>2. DOMAIN parts = 1..Chunks[m] /\ \A i \in 1..Chunks[m] : parts[i][1] = m
  BY DEF Parts
<1>3. read = {m}
  <2>1. 1 \in DOMAIN parts
    BY <1>1, <1>2
  <2>2. {parts[i][1] : i \in DOMAIN parts} = {m}
    BY <1>2, <2>1
  <2>3. parts = [i \in 1..Chunks[m] |-> <<m, i - 1>>]
    BY DEF Parts
  <2> QED BY <2>2, <2>3
<1> QED BY <1>3 DEF Read

LEMMA LinkInit ==
  ASSUME ChunkAssumption, Init
  PROVE  LinkInv
BY DEF Init, LinkInv, Orderly, LinkType, HeldPrefix, WireInOrder, SenderInOrder

----------------------------------------------------------------------------
(* The sender's steps append a frame.                                        *)

(* l goes on as n: one more frame, the assembler as it was.                  *)
Appended(l, n, frame) ==
  /\ n.wire = Append(l.wire, frame)
  /\ n.buf = l.buf /\ n.next_seq = l.next_seq

LEMMA AppendedWire ==
  ASSUME NEW l, NEW n, NEW frame \in Frames, LinkType(l), Appended(l, n, frame)
  PROVE  /\ n.wire \in Seq(Frames)
         /\ Len(l.wire) \in Nat /\ Len(n.wire) = Len(l.wire) + 1
         /\ DOMAIN l.wire = 1..Len(l.wire)
         /\ DOMAIN n.wire = 1..Len(l.wire) + 1
         /\ \A k \in 1..Len(l.wire) : n.wire[k] = l.wire[k]
         /\ n.wire[Len(l.wire) + 1] = frame
BY AppendProperties DEF LinkType, Appended

(* A frame at the end changes nothing about the positions before it.         *)
LEMMA PrecededStays ==
  ASSUME NEW l, NEW n, NEW frame \in Frames, LinkType(l), Appended(l, n, frame),
         NEW i \in 1..Len(l.wire) + 1, NEW m, NEW s, Preceded(l, i, m, s)
  PROVE  Preceded(n, i, m, s)
<1>0. Len(l.wire) \in Nat /\ i \in Nat \ {0}
  BY AppendedWire
<1>1. \A k \in 1..i - 1 : n.wire[k] = l.wire[k]
  BY <1>0, AppendedWire
<1>2. n.buf = l.buf /\ n.next_seq = l.next_seq
  BY DEF Appended
<1>3. ASSUME NEW j \in 0..i - 1, WholeBetween(l.wire, j, i)
      PROVE  WholeBetween(n.wire, j, i)
  BY <1>0, <1>1, <1>3 DEF WholeBetween
<1>4. CASE WholeBetween(l.wire, 0, i) /\ l.buf = Parts(m, s) /\ l.next_seq = s
  BY <1>0, <1>2, <1>3, <1>4 DEF Preceded
<1>5. CASE \E j \in 1..i - 1 : l.wire[j] = Chunk(m, s - 1) /\ WholeBetween(l.wire, j, i)
  BY <1>0, <1>1, <1>3, <1>5 DEF Preceded
<1> QED BY <1>4, <1>5 DEF Preceded

(* The wire stays in order if the new frame has its predecessor.             *)
LEMMA AppendInOrder ==
  ASSUME NEW l, NEW n, NEW frame \in Frames, Orderly(l), Appended(l, n, frame),
         frame.kind = "chunk" /\ frame.seq # 0 =>
           Preceded(l, Len(l.wire) + 1, frame.msg, frame.seq)
  PROVE  HeldPrefix(n) /\ WireInOrder(n)
<1>1. LinkType(l) /\ HeldPrefix(l) /\ WireInOrder(l)
  BY DEF Orderly
<1>2. HeldPrefix(n)
  BY <1>1 DEF HeldPrefix, Appended
<1>3. ASSUME NEW i \in DOMAIN n.wire, n.wire[i].kind = "chunk", n.wire[i].seq # 0
      PROVE  Preceded(n, i, n.wire[i].msg, n.wire[i].seq)
  <2>1. Preceded(l, i, n.wire[i].msg, n.wire[i].seq)
    <3>1. CASE i = Len(l.wire) + 1
      BY <1>1, <1>3, <3>1, AppendedWire
    <3>2. CASE i \in 1..Len(l.wire)
      BY <1>1, <1>3, <3>2, AppendedWire DEF WireInOrder
    <3> QED BY <1>1, <3>1, <3>2, AppendedWire
  <2>2. i \in 1..Len(l.wire) + 1
    BY <1>1, AppendedWire
  <2> QED BY <1>1, <2>1, <2>2, PrecededStays
<1> QED BY <1>2, <1>3 DEF WireInOrder

LEMMA SendWholeKeeps ==
  ASSUME ChunkAssumption, LinkInv, NEW m \in Message, SendWhole(m)
  PROVE  LinkInv'
<1>0. Orderly(link) /\ LinkType(link)
  BY DEF LinkInv, Orderly
<1>1. /\ Appended(link, link', Whole(m))
      /\ link'.sending = link.sending
      /\ link' = [sending |-> link'.sending, wire |-> link'.wire, buf |-> link'.buf,
                  next_seq |-> link'.next_seq]
  BY <1>0 DEF SendWhole, LinkType, Appended
<1>2. Whole(m) \in Frames /\ Whole(m).kind = "whole"
  BY DEF Frames, Whole
<1>3. HeldPrefix(link') /\ WireInOrder(link')
  BY <1>0, <1>1, <1>2, AppendInOrder
<1>4. LinkType(link')
  BY <1>0, <1>1, <1>2, AppendedWire DEF LinkType
<1>5. ASSUME link.sending # None
      PROVE  Preceded(link', Len(link'.wire) + 1, link.sending.msg, link.sending.seq)
  <2>1. Preceded(link, Len(link.wire) + 1, link.sending.msg, link.sending.seq)
    BY <1>0, <1>5 DEF Orderly, SenderInOrder
  <2>2. Preceded(link', Len(link.wire) + 1, link.sending.msg, link.sending.seq)
    <3>1. Len(link.wire) + 1 \in 1..Len(link.wire) + 1
      BY <1>0, <1>1, <1>2, AppendedWire
    <3> QED BY <1>0, <1>1, <1>2, <2>1, <3>1, PrecededStays
  <2> QED
    BY <1>0, <1>1, <1>2, <2>2, AppendedWire DEF Preceded, WholeBetween
<1> QED BY <1>1, <1>3, <1>4, <1>5 DEF LinkInv, Orderly, SenderInOrder

(* A chunk follows, as the first of its message or after the one before it,  *)
(* and is what the sender's next one follows.                                *)
LEMMA ChunkKeeps ==
  ASSUME ChunkAssumption, LinkInv, NEW m \in Message, NEW s \in 0..Chunks[m] - 1,
         s # 0 => Preceded(link, Len(link.wire) + 1, m, s),
         Appended(link, link', Chunk(m, s)),
         link' = [sending |-> link'.sending, wire |-> link'.wire, buf |-> link'.buf,
                  next_seq |-> link'.next_seq],
         link'.sending = IF s = Chunks[m] - 1 THEN None
                         ELSE [msg |-> m, seq |-> s + 1]
  PROVE  LinkInv'
<1>0. Orderly(link) /\ LinkType(link) /\ Chunks[m] \in Nat \ {0}
  BY DEF LinkInv, Orderly, ChunkAssumption
<1>1. /\ Chunk(m, s) \in Frames
      /\ Chunk(m, s).msg = m /\ Chunk(m, s).seq = s
  BY DEF Frames, Chunk
<1>2. HeldPrefix(link') /\ WireInOrder(link')
  BY <1>0, <1>1, AppendInOrder
<1>3. LinkType(link')
  <2>1. link'.sending # None =>
          \E x \in Message : \E t \in 1..Chunks[x] - 1 :
            link'.sending = [msg |-> x, seq |-> t]
    <3>1. CASE s = Chunks[m] - 1
      BY <3>1
    <3>2. CASE s # Chunks[m] - 1
      <4>1. s + 1 \in 1..Chunks[m] - 1
        BY <1>0, <3>2
      <4> QED BY <3>2, <4>1
    <3> QED BY <3>1, <3>2
  <2> QED BY <1>0, <1>1, <2>1, AppendedWire DEF LinkType
<1>4. ASSUME link'.sending # None
      PROVE  Preceded(link', Len(link'.wire) + 1, link'.sending.msg, link'.sending.seq)
  <2>1. link'.sending.msg = m /\ link'.sending.seq = s + 1
    BY <1>4
  <2>2. /\ Len(link.wire) \in Nat /\ Len(link'.wire) = Len(link.wire) + 1
        /\ link'.wire[Len(link.wire) + 1] = Chunk(m, s)
    BY <1>0, <1>1, AppendedWire
  <2>3. WholeBetween(link'.wire, Len(link.wire) + 1, Len(link'.wire) + 1)
    BY <2>2 DEF WholeBetween
  <2>4. s + 1 - 1 = s
    BY <1>0
  <2> QED BY <2>1, <2>2, <2>3, <2>4 DEF Preceded
<1> QED BY <1>2, <1>3, <1>4 DEF LinkInv, Orderly, SenderInOrder

LEMMA StartChunksKeeps ==
  ASSUME ChunkAssumption, LinkInv, NEW m \in Message, StartChunks(m)
  PROVE  LinkInv'
<1>1. LinkType(link) /\ Chunks[m] \in Nat \ {0} /\ Chunks[m] > 1
  BY DEF LinkInv, Orderly, ChunkAssumption, StartChunks
<1>2. /\ Appended(link, link', Chunk(m, 0))
      /\ link'.sending = [msg |-> m, seq |-> 1]
      /\ link' = [sending |-> link'.sending, wire |-> link'.wire, buf |-> link'.buf,
                  next_seq |-> link'.next_seq]
  BY <1>1 DEF StartChunks, LinkType, Appended
<1>3. /\ 0 \in 0..Chunks[m] - 1
      /\ link'.sending = IF 0 = Chunks[m] - 1 THEN None ELSE [msg |-> m, seq |-> 0 + 1]
  BY <1>1, <1>2
<1> QED BY <1>2, <1>3, ChunkKeeps

LEMMA SendChunkKeeps ==
  ASSUME ChunkAssumption, LinkInv, SendChunk
  PROVE  LinkInv'
<1>1. LinkType(link) /\ link.sending # None
  BY DEF LinkInv, Orderly, SendChunk
<1>2. PICK m \in Message : \E s \in 1..Chunks[m] - 1 : link.sending = [msg |-> m, seq |-> s]
  BY <1>1 DEF LinkType
<1>6. PICK s \in 1..Chunks[m] - 1 : link.sending = [msg |-> m, seq |-> s]
  BY <1>2
<1>3. Preceded(link, Len(link.wire) + 1, m, s)
  BY <1>1, <1>6 DEF LinkInv, Orderly, SenderInOrder
<1>4. /\ Appended(link, link', Chunk(m, s))
      /\ link'.sending = IF s = Chunks[m] - 1 THEN None ELSE [msg |-> m, seq |-> s + 1]
      /\ link' = [sending |-> link'.sending, wire |-> link'.wire, buf |-> link'.buf,
                  next_seq |-> link'.next_seq]
  <2>1. link.sending.msg = m /\ link.sending.seq = s
    BY <1>6
  <2>2. link' = [link EXCEPT
                   !.wire = Append(link.wire, Chunk(m, s)),
                   !.sending = IF s = Chunks[m] - 1
                               THEN None ELSE [msg |-> m, seq |-> s + 1]]
    BY <2>1 DEF SendChunk
  <2>3. link = [sending |-> link.sending, wire |-> link.wire, buf |-> link.buf,
                next_seq |-> link.next_seq]
    BY <1>1 DEF LinkType
  <2> QED BY <2>2, <2>3 DEF Appended
<1>5. s \in 0..Chunks[m] - 1
  BY DEF ChunkAssumption
<1> QED BY <1>3, <1>4, <1>5, ChunkKeeps

LEMMA BreakOffKeeps ==
  ASSUME LinkInv, BreakOff
  PROVE  LinkInv'
BY DEF BreakOff, LinkInv, Orderly, LinkType, HeldPrefix, WireInOrder, SenderInOrder,
       Preceded, WholeBetween

----------------------------------------------------------------------------
(* The receiver takes the first frame.                                       *)

LEMMA FirstFrame ==
  ASSUME ChunkAssumption, LinkType(link), link.wire # <<>>
  PROVE  /\ Head(link.wire) = link.wire[1] /\ 1 \in DOMAIN link.wire
         /\ Tail(link.wire) \in Seq(Frames)
         /\ Len(link.wire) \in Nat \ {0}
         /\ Len(Tail(link.wire)) = Len(link.wire) - 1
         /\ \A k \in 1..Len(link.wire) - 1 : Tail(link.wire)[k] = link.wire[k + 1]
         /\ \/ \E m \in Message : Head(link.wire) = Whole(m)
            \/ \E m \in Message : \E s \in 0..Chunks[m] - 1 :
                 Head(link.wire) = Chunk(m, s)
<1>1. link.wire \in Seq(Frames)
  BY DEF LinkType
<1>2. /\ Head(link.wire) = link.wire[1] /\ 1 \in DOMAIN link.wire
      /\ Tail(link.wire) \in Seq(Frames)
      /\ Len(link.wire) \in Nat \ {0}
      /\ Len(Tail(link.wire)) = Len(link.wire) - 1
      /\ \A k \in 1..Len(link.wire) - 1 : Tail(link.wire)[k] = link.wire[k + 1]
  BY <1>1, HeadTailProperties
<1>3. Head(link.wire) \in Frames
  BY <1>1, <1>2
<1> QED BY <1>2, <1>3 DEF Frames

LEMMA WholePushed ==
  ASSUME NEW m \in Message, Head(link.wire) = Whole(m)
  PROVE  Pushed.buf = link.buf /\ Pushed.next_seq = link.next_seq /\ Pushed.out = m
BY DEF Pushed, Push, Assembler, Whole

LEMMA PartTaken ==
  ASSUME ChunkAssumption, NEW m \in Message, NEW s \in 0..Chunks[m] - 1
  PROVE  Taken(Parts(m, s), Chunk(m, s)) =
           IF s = Chunks[m] - 1
           THEN [buf |-> <<>>, next_seq |-> 0, out |-> m]
           ELSE [buf |-> Parts(m, s + 1), next_seq |-> s + 1, out |-> None]
<1>1. Chunks[m] \in Nat /\ s \in Nat
  BY DEF ChunkAssumption
<1>2. Append(Parts(m, s), Part(Chunk(m, s))) = Parts(m, s + 1)
  BY <1>1, PartsGrow DEF Part, Chunk
<1>3. CASE s = Chunks[m] - 1
  <2>1. Chunk(m, s).last
    BY <1>3 DEF Chunk
  <2>2. Read(Parts(m, s + 1)) = m
    BY <1>1, <1>3, PartsRead
  <2> QED BY <1>2, <1>3, <2>1, <2>2 DEF Taken
<1>4. CASE s # Chunks[m] - 1
  <2>1. ~Chunk(m, s).last /\ Chunk(m, s).seq = s
    BY <1>4 DEF Chunk
  <2> QED BY <1>2, <1>4, <2>1 DEF Taken
<1> QED BY <1>3, <1>4

(* A chunk that arrives in order is added to the parts before it.            *)
LEMMA ChunkPushed ==
  ASSUME ChunkAssumption, Orderly(link), link.wire # <<>>,
         NEW m \in Message, NEW s \in 0..Chunks[m] - 1, Head(link.wire) = Chunk(m, s)
  PROVE  Pushed = IF s = Chunks[m] - 1
                  THEN [buf |-> <<>>, next_seq |-> 0, out |-> m]
                  ELSE [buf |-> Parts(m, s + 1), next_seq |-> s + 1, out |-> None]
<1> DEFINE frame == Chunk(m, s)
<1>0. /\ LinkType(link) /\ HeldPrefix(link) /\ WireInOrder(link)
      /\ Chunks[m] \in Nat \ {0} /\ s \in Nat
  BY DEF Orderly, ChunkAssumption
<1>1. frame.kind = "chunk" /\ frame.seq = s /\ frame.msg = m
  BY DEF Chunk
<1>2. CASE s = 0
  <2>1. Held(Assembler, frame) = Parts(m, s)
    <3>1. Parts(m, 0) = <<>>
      BY DEF Parts
    <3>2. link.next_seq = 0 => link.buf = <<>>
      BY <1>0 DEF HeldPrefix, Parts
    <3> QED BY <1>1, <1>2, <3>1, <3>2 DEF Held, Assembler
  <2>2. Pushed = Taken(Held(Assembler, frame), frame)
    BY <1>1, <1>2 DEF Pushed, Push
  <2> QED BY <2>1, <2>2, PartTaken
<1>3. CASE s # 0
  <2>1. Preceded(link, 1, m, s)
    <3>1. 1 \in DOMAIN link.wire /\ link.wire[1] = frame
      BY <1>0, FirstFrame
    <3> HIDE DEF frame
    <3> QED BY <1>0, <1>1, <1>3, <3>1 DEF WireInOrder
  <2>2. link.buf = Parts(m, s) /\ link.next_seq = s
    BY <2>1 DEF Preceded
  <2>3. Held(Assembler, frame) = Parts(m, s)
    BY <1>1, <2>2 DEF Held, Assembler
  <2>4. Pushed = Taken(Held(Assembler, frame), frame)
    BY <1>1, <2>2 DEF Pushed, Push, Assembler
  <2> QED BY <2>3, <2>4, PartTaken
<1> QED BY <1>2, <1>3

(* What the predecessors of a chunk are when the first frame is gone.        *)
LEMMA PrecededShifts ==
  ASSUME ChunkAssumption, Orderly(link), Receive,
         NEW i \in 2..Len(link.wire) + 1,
         NEW m \in Message, NEW s \in 1..Chunks[m] - 1, Preceded(link, i, m, s)
  PROVE  Preceded(link', i - 1, m, s)
<1>0. LinkType(link) /\ link.wire # <<>> /\ Chunks[m] \in Nat /\ s \in Nat \ {0}
  BY DEF Orderly, ChunkAssumption, Receive
<1>1. /\ link'.wire = Tail(link.wire)
      /\ link'.buf = Pushed.buf /\ link'.next_seq = Pushed.next_seq
  BY <1>0 DEF Receive, LinkType
<1>2. /\ Len(link.wire) \in Nat \ {0} /\ i \in Nat /\ i > 1
      /\ \A k \in 1..i - 2 : link'.wire[k] = link.wire[k + 1]
  BY <1>0, <1>1, FirstFrame
<1>3. ASSUME NEW j \in 1..i - 1, WholeBetween(link.wire, j, i)
      PROVE  WholeBetween(link'.wire, j - 1, i - 1)
  <2>1. ASSUME NEW k \in j..i - 2
        PROVE  link'.wire[k].kind = "whole"
    <3>1. k \in 1..i - 2 /\ k + 1 \in j + 1..i - 1
      BY <1>2
    <3> QED BY <1>2, <1>3, <3>1 DEF WholeBetween
  <2>2. j - 1 + 1 = j /\ i - 1 - 1 = i - 2
    BY <1>2
  <2> QED BY <2>1, <2>2 DEF WholeBetween
<1>4. ASSUME NEW j \in 2..i - 1, link.wire[j] = Chunk(m, s - 1),
             WholeBetween(link.wire, j, i)
      PROVE  Preceded(link', i - 1, m, s)
  <2>1. j - 1 \in 1..i - 1 - 1 /\ link'.wire[j - 1] = Chunk(m, s - 1)
    BY <1>2, <1>4
  <2>2. WholeBetween(link'.wire, j - 1, i - 1)
    BY <1>2, <1>3, <1>4
  <2> QED BY <2>1, <2>2 DEF Preceded
<1>5. CASE \E x \in Message : Head(link.wire) = Whole(x)
  <2>0. PICK x \in Message : Head(link.wire) = Whole(x)
    BY <1>5
  <2>1. link'.buf = link.buf /\ link'.next_seq = link.next_seq
    BY <1>1, <2>0, WholePushed
  <2>2. link.wire[1].kind = "whole"
    BY <1>0, <2>0, FirstFrame DEF Whole
  <2>3. CASE WholeBetween(link.wire, 0, i) /\ link.buf = Parts(m, s) /\ link.next_seq = s
    <3>1. WholeBetween(link.wire, 1, i)
      BY <1>2, <2>3 DEF WholeBetween
    <3>2. WholeBetween(link'.wire, 0, i - 1)
      BY <1>2, <1>3, <3>1
    <3> QED BY <2>1, <2>3, <3>2 DEF Preceded
  <2>4. CASE \E j \in 1..i - 1 : /\ link.wire[j] = Chunk(m, s - 1)
                                 /\ WholeBetween(link.wire, j, i)
    <3>1. Chunk(m, s - 1).kind # "whole"
      BY DEF Chunk
    <3> QED BY <1>2, <1>4, <2>2, <2>4, <3>1
  <2> QED BY <2>3, <2>4 DEF Preceded
<1>6. CASE \E x \in Message : \E t \in 0..Chunks[x] - 1 : Head(link.wire) = Chunk(x, t)
  <2>0. PICK x \in Message : \E t \in 0..Chunks[x] - 1 : Head(link.wire) = Chunk(x, t)
    BY <1>6
  <2>1. PICK t \in 0..Chunks[x] - 1 : Head(link.wire) = Chunk(x, t)
    BY <2>0
  <2>2. link.wire[1] = Chunk(x, t) /\ link.wire[1].kind # "whole"
    BY <1>0, <2>1, FirstFrame DEF Chunk
  <2>3. ~WholeBetween(link.wire, 0, i)
    BY <1>2, <2>2 DEF WholeBetween
  <2>4. PICK j \in 1..i - 1 : link.wire[j] = Chunk(m, s - 1) /\ WholeBetween(link.wire, j, i)
    BY <2>3 DEF Preceded
  <2>5. CASE j = 1
    <3>1. x = m /\ t = s - 1
      BY <2>2, <2>4, <2>5 DEF Chunk
    <3>2. t + 1 = s /\ t # Chunks[x] - 1
      BY <1>0, <3>1
    <3>3. link'.buf = Parts(m, s) /\ link'.next_seq = s
      BY <1>0, <1>1, <2>1, <3>1, <3>2, ChunkPushed
    <3>4. WholeBetween(link'.wire, 0, i - 1)
      BY <1>2, <1>3, <2>4, <2>5
    <3> QED BY <3>3, <3>4 DEF Preceded
  <2>6. CASE j # 1
    BY <1>2, <1>4, <2>4, <2>6
  <2> QED BY <2>5, <2>6
<1> QED BY <1>0, <1>5, <1>6, FirstFrame

LEMMA ReceiveKeeps ==
  ASSUME ChunkAssumption, LinkInv, Receive
  PROVE  LinkInv'
<1>0. /\ Orderly(link) /\ LinkType(link) /\ HeldPrefix(link) /\ WireInOrder(link)
      /\ SenderInOrder(link) /\ link.wire # <<>>
  BY DEF LinkInv, Orderly, Receive
<1>1. /\ link' = [sending |-> link'.sending, wire |-> link'.wire, buf |-> link'.buf,
                  next_seq |-> link'.next_seq]
      /\ link'.wire = Tail(link.wire) /\ link'.sending = link.sending
      /\ link'.buf = Pushed.buf /\ link'.next_seq = Pushed.next_seq
  BY <1>0 DEF Receive, LinkType
<1>2. /\ link'.wire \in Seq(Frames)
      /\ Len(link.wire) \in Nat \ {0} /\ Len(link'.wire) = Len(link.wire) - 1
      /\ \A k \in 1..Len(link'.wire) : link'.wire[k] = link.wire[k + 1]
  BY <1>0, <1>1, FirstFrame
<1>3. LinkType(link')
  BY <1>0, <1>1, <1>2 DEF LinkType
<1>4. HeldPrefix(link')
  <2>1. CASE \E x \in Message : Head(link.wire) = Whole(x)
    <3>1. link'.buf = link.buf /\ link'.next_seq = link.next_seq
      BY <1>1, <2>1, WholePushed
    <3> QED BY <1>0, <3>1 DEF HeldPrefix
  <2>2. CASE \E x \in Message : \E t \in 0..Chunks[x] - 1 : Head(link.wire) = Chunk(x, t)
    <3>1. PICK x \in Message : \E t \in 0..Chunks[x] - 1 : Head(link.wire) = Chunk(x, t)
      BY <2>2
    <3>2. PICK t \in 0..Chunks[x] - 1 : Head(link.wire) = Chunk(x, t)
      BY <3>1
    <3>3. \/ link'.buf = <<>> /\ link'.next_seq = 0
          \/ /\ link'.buf = Parts(x, t + 1) /\ link'.next_seq = t + 1
             /\ t # Chunks[x] - 1
      BY <1>0, <1>1, <3>2, ChunkPushed
    <3>4. t # Chunks[x] - 1 => t + 1 \in 0..Chunks[x] - 1
      BY DEF ChunkAssumption
    <3> QED BY <3>3, <3>4 DEF HeldPrefix
  <2> QED BY <1>0, <2>1, <2>2, FirstFrame
<1>5. ASSUME NEW i \in DOMAIN link'.wire,
             link'.wire[i].kind = "chunk", link'.wire[i].seq # 0
      PROVE  Preceded(link', i, link'.wire[i].msg, link'.wire[i].seq)
  <2>1. /\ i \in 1..Len(link'.wire) /\ i + 1 \in DOMAIN link.wire
        /\ link'.wire[i] = link.wire[i + 1] /\ i + 1 \in 2..Len(link.wire) + 1
    BY <1>0, <1>2 DEF LinkType
  <2>2. PICK m \in Message : \E s \in 0..Chunks[m] - 1 : link'.wire[i] = Chunk(m, s)
    <3>1. link'.wire[i] \in Frames
      BY <1>2
    <3> QED BY <1>5, <3>1 DEF Frames, Whole
  <2>3. PICK s \in 0..Chunks[m] - 1 : link'.wire[i] = Chunk(m, s)
    BY <2>2
  <2>4. link'.wire[i].msg = m /\ link'.wire[i].seq = s /\ s \in 1..Chunks[m] - 1
    BY <1>5, <2>3 DEF Chunk
  <2>5. Preceded(link, i + 1, m, s)
    BY <1>0, <1>5, <2>1, <2>4 DEF WireInOrder
  <2>6. Preceded(link', i + 1 - 1, m, s)
    BY <1>0, <2>1, <2>4, <2>5, PrecededShifts
  <2> QED BY <2>1, <2>4, <2>6
<1>6. SenderInOrder(link')
  <2> SUFFICES ASSUME link.sending # None
               PROVE  Preceded(link', Len(link'.wire) + 1,
                               link.sending.msg, link.sending.seq)
    BY <1>1 DEF SenderInOrder
  <2>1. PICK m \in Message : \E s \in 1..Chunks[m] - 1 : link.sending = [msg |-> m, seq |-> s]
    BY <1>0 DEF LinkType
  <2>2. PICK s \in 1..Chunks[m] - 1 : link.sending = [msg |-> m, seq |-> s]
    BY <2>1
  <2>3. Preceded(link, Len(link.wire) + 1, m, s)
    BY <1>0, <2>2 DEF SenderInOrder
  <2>4. /\ Len(link.wire) + 1 \in 2..Len(link.wire) + 1
        /\ Len(link.wire) + 1 - 1 = Len(link'.wire) + 1
    BY <1>2
  <2>5. Preceded(link', Len(link.wire) + 1 - 1, m, s)
    BY <1>0, <2>3, <2>4, PrecededShifts
  <2> QED BY <2>2, <2>4, <2>5
<1> QED BY <1>3, <1>4, <1>5, <1>6 DEF LinkInv, Orderly, WireInOrder

----------------------------------------------------------------------------
(* Every step of either end keeps the order (ChunkChannel!Next).             *)
THEOREM LinkStep ==
  ASSUME ChunkAssumption, LinkInv, [Next]_link
  PROVE  LinkInv'
<1>1. CASE UNCHANGED link
  BY <1>1 DEF LinkInv
<1>2. CASE Next
  BY <1>2, SendWholeKeeps, StartChunksKeeps, SendChunkKeeps, BreakOffKeeps, ReceiveKeeps
     DEF Next
<1> QED BY <1>1, <1>2

(* The last chunk of a message finds all the others.                         *)
THEOREM OrderlyIsWhole ==
  ASSUME ChunkAssumption, LinkInv
  PROVE  NoSplice
<1> SUFFICES ASSUME link.wire # <<>>, Head(link.wire).kind = "chunk",
                    Head(link.wire).last
             PROVE  Received = Head(link.wire).msg
  BY DEF NoSplice
<1>1. Orderly(link) /\ LinkType(link)
  BY DEF LinkInv, Orderly
<1>2. PICK m \in Message : \E s \in 0..Chunks[m] - 1 : Head(link.wire) = Chunk(m, s)
  <2>1. \A x : Whole(x).kind = "whole"
    BY DEF Whole
  <2> QED BY <1>1, <2>1, FirstFrame
<1>3. PICK s \in 0..Chunks[m] - 1 : Head(link.wire) = Chunk(m, s)
  BY <1>2
<1>4. s = Chunks[m] - 1 /\ Head(link.wire).msg = m
  <2>1. s # Chunks[m] - 1 => ~Chunk(m, s).last
    BY DEF Chunk
  <2>2. Chunk(m, s).msg = m
    BY DEF Chunk
  <2> QED BY <1>3, <2>1, <2>2
<1>5. Pushed.out = m
  BY <1>1, <1>3, <1>4, ChunkPushed
<1> QED BY <1>4, <1>5 DEF Received

(* One direction by itself, for any messages, sizes and capacity.            *)
THEOREM ChannelNeverSplices ==
  ASSUME ChunkAssumption
  PROVE  Spec => []NoSplice
<1>1. Init => LinkInv
  BY LinkInit
<1>2. LinkInv /\ [Next]_link => LinkInv'
  BY LinkStep
<1>3. LinkInv => NoSplice
  BY OrderlyIsWhole
<1> QED BY <1>1, <1>2, <1>3, PTL DEF Spec

(* What is received is the message of the frame that arrived, or nothing.    *)
LEMMA ReceivedShape ==
  ASSUME ChunkAssumption, LinkInv, link.wire # <<>>
  PROVE  /\ Head(link.wire).msg \in Message
         /\ Received \in {None, Head(link.wire).msg}
<1>1. Orderly(link) /\ LinkType(link)
  BY DEF LinkInv, Orderly
<1>2. CASE \E m \in Message : Head(link.wire) = Whole(m)
  BY <1>2, WholePushed DEF Received, Whole
<1>3. CASE \E m \in Message : \E s \in 0..Chunks[m] - 1 : Head(link.wire) = Chunk(m, s)
  <2>1. PICK m \in Message : \E s \in 0..Chunks[m] - 1 : Head(link.wire) = Chunk(m, s)
    BY <1>3
  <2>2. PICK s \in 0..Chunks[m] - 1 : Head(link.wire) = Chunk(m, s)
    BY <2>1
  <2>3. Chunk(m, s).msg = m
    BY DEF Chunk
  <2>4. Pushed.out \in {None, m}
    BY <1>1, <2>2, ChunkPushed
  <2> QED BY <2>2, <2>3, <2>4 DEF Received
<1> QED BY <1>1, <1>2, <1>3, FirstFrame

----------------------------------------------------------------------------
(* What the steps do to the wire and the sender, for those who compose the   *)
(* channel with other parts.                                                 *)

LEMMA WireMessages ==
  ASSUME ChunkAssumption, LinkInv
  PROVE  /\ link.wire \in Seq(Frames)
         /\ \A i \in DOMAIN link.wire : link.wire[i].msg \in Message
         /\ link.sending # None => link.sending.msg \in Message
<1>1. LinkType(link)
  BY DEF LinkInv, Orderly
<1>2. \A frame \in Frames : frame.msg \in Message
  BY DEF Frames, Whole, Chunk
<1> QED BY <1>1, <1>2 DEF LinkType

LEMMA SendEffect ==
  ASSUME ChunkAssumption, LinkInv, NEW m \in Message, SendWhole(m) \/ StartChunks(m)
  PROVE  /\ \E frame \in Frames :
              frame.msg = m /\ link'.wire = Append(link.wire, frame)
         /\ link'.sending # None =>
              link'.sending.msg = m \/ link'.sending = link.sending
<1>1. LinkType(link)
  BY DEF LinkInv, Orderly
<1>2. CASE SendWhole(m)
  <2>1. Whole(m).msg = m /\ Whole(m) \in Frames
    BY DEF Whole, Frames
  <2>2. link'.wire = Append(link.wire, Whole(m)) /\ link'.sending = link.sending
    BY <1>1, <1>2 DEF SendWhole, LinkType
  <2> QED BY <2>1, <2>2
<1>3. CASE StartChunks(m)
  <2>1. Chunk(m, 0).msg = m
    BY DEF Chunk
  <2>2. Chunk(m, 0) \in Frames
    BY <1>3 DEF Frames, StartChunks, ChunkAssumption
  <2>3. /\ link'.wire = Append(link.wire, Chunk(m, 0))
        /\ link'.sending = [msg |-> m, seq |-> 1]
    BY <1>1, <1>3 DEF StartChunks, LinkType
  <2> QED BY <2>1, <2>2, <2>3
<1> QED BY <1>2, <1>3

LEMMA WholeEffect ==
  ASSUME LinkInv, NEW m \in Message, SendWhole(m)
  PROVE  link'.sending = link.sending
BY DEF LinkInv, Orderly, LinkType, SendWhole

LEMMA StartEffect ==
  ASSUME LinkInv, NEW m \in Message, StartChunks(m)
  PROVE  link'.sending = [msg |-> m, seq |-> 1]
BY DEF LinkInv, Orderly, LinkType, StartChunks

LEMMA ChunkEffect ==
  ASSUME ChunkAssumption, LinkInv, SendChunk
  PROVE  /\ link.sending # None
         /\ \E frame \in Frames : /\ frame.msg = link.sending.msg
                                 /\ link'.wire = Append(link.wire, frame)
         /\ link'.sending # None => link'.sending.msg = link.sending.msg
<1>1. LinkType(link)
  BY DEF LinkInv, Orderly
<1> DEFINE m == link.sending.msg
           s == link.sending.seq
<1>2. Chunk(m, s).msg = m
  BY DEF Chunk
<1>3. /\ link.sending # None
      /\ link'.wire = Append(link.wire, Chunk(m, s))
      /\ link'.sending = IF s = Chunks[m] - 1 THEN None ELSE [msg |-> m, seq |-> s + 1]
  BY <1>1 DEF SendChunk, LinkType
<1>4. m \in Message /\ s \in 0..Chunks[m] - 1
  BY <1>1, <1>3 DEF LinkType, ChunkAssumption
<1>5. Chunk(m, s) \in Frames
  BY <1>4 DEF Frames
<1> HIDE DEF m, s
<1>6. \E frame \in Frames : frame.msg = m /\ link'.wire = Append(link.wire, frame)
  BY <1>2, <1>3, <1>5
<1> QED BY <1>3, <1>6 DEF m

LEMMA BreakEffect ==
  ASSUME LinkInv, BreakOff
  PROVE  link'.wire = link.wire /\ link'.sending = None
BY DEF LinkInv, Orderly, LinkType, BreakOff

LEMMA ReceiveEffect ==
  ASSUME LinkInv, Receive
  PROVE  /\ link.wire # <<>> /\ link'.wire = Tail(link.wire)
         /\ link'.sending = link.sending
BY DEF LinkInv, Orderly, LinkType, Receive

----------------------------------------------------------------------------
(* A message whose last frame is still to come, and when it comes.           *)

LEMMA ToComeAppended ==
  ASSUME LinkInv, NEW frame \in Frames, link'.wire = Append(link.wire, frame), NEW m
  PROVE  /\ Ends(frame, m) => ToCome(m)'
         /\ (\E i \in DOMAIN link.wire : Ends(link.wire[i], m)) => ToCome(m)'
<1>1. link.wire \in Seq(Frames)
  BY DEF LinkInv, Orderly, LinkType
<1>2. /\ Len(link.wire) \in Nat /\ DOMAIN link.wire = 1..Len(link.wire)
      /\ DOMAIN link'.wire = 1..Len(link.wire) + 1
      /\ \A i \in 1..Len(link.wire) : link'.wire[i] = link.wire[i]
      /\ link'.wire[Len(link.wire) + 1] = frame
  BY <1>1, AppendProperties
<1>3. Ends(frame, m) => \E i \in DOMAIN link'.wire : Ends(link'.wire[i], m)
  BY <1>2
<1>4. (\E i \in DOMAIN link.wire : Ends(link.wire[i], m)) =>
        \E i \in DOMAIN link'.wire : Ends(link'.wire[i], m)
  BY <1>2
<1> QED BY <1>3, <1>4 DEF ToCome

LEMMA SentIsToCome ==
  ASSUME ChunkAssumption, LinkInv, NEW m \in Message, SendWhole(m) \/ StartChunks(m)
  PROVE  ToCome(m)'
<1>1. LinkType(link)
  BY DEF LinkInv, Orderly
<1>2. CASE SendWhole(m)
  <2>1. Whole(m) \in Frames /\ Ends(Whole(m), m)
    BY DEF Frames, Whole, Ends
  <2>2. link'.wire = Append(link.wire, Whole(m))
    BY <1>1, <1>2 DEF SendWhole, LinkType
  <2> QED BY <2>1, <2>2, ToComeAppended
<1>3. CASE StartChunks(m)
  <2>1. link'.sending = [msg |-> m, seq |-> 1]
    BY <1>1, <1>3 DEF StartChunks, LinkType
  <2>2. [msg |-> m, seq |-> 1] # None
    BY DEF ChunkAssumption
  <2> QED BY <2>1, <2>2 DEF ToCome
<1> QED BY <1>2, <1>3

LEMMA ContinuedIsToCome ==
  ASSUME ChunkAssumption, LinkInv, SendChunk, NEW m, link.sending.msg = m
  PROVE  ToCome(m)'
<1>1. LinkType(link) /\ link.sending # None
  BY DEF LinkInv, Orderly, SendChunk
<1>2. m \in Message /\ \E s \in 1..Chunks[m] - 1 : link.sending = [msg |-> m, seq |-> s]
  BY <1>1 DEF LinkType
<1>3. PICK s \in 1..Chunks[m] - 1 : link.sending = [msg |-> m, seq |-> s]
  BY <1>2
<1>4. Chunks[m] \in Nat /\ s \in Nat
  BY <1>2, <1>3 DEF ChunkAssumption
<1>5. /\ link'.wire = Append(link.wire, Chunk(m, s))
      /\ link'.sending = IF s = Chunks[m] - 1 THEN None ELSE [msg |-> m, seq |-> s + 1]
  BY <1>1, <1>3 DEF SendChunk, LinkType
<1>6. CASE s = Chunks[m] - 1
  <2>1. Chunk(m, s) \in Frames
    BY <1>2, <1>4, <1>6 DEF Frames
  <2>2. Ends(Chunk(m, s), m)
    BY <1>6 DEF Ends, Chunk
  <2>3. ToCome(m)'
    BY <1>5, <2>1, <2>2, ToComeAppended
  <2> QED BY <2>3
<1>7. CASE s # Chunks[m] - 1
  <2>1. [msg |-> m, seq |-> s + 1] # None
    BY <1>2, <1>4 DEF ChunkAssumption
  <2>2. link'.sending # None /\ link'.sending.msg = m
    BY <1>5, <1>7, <2>1
  <2> QED BY <2>2 DEF ToCome
<1> QED BY <1>6, <1>7

(* Sending something, or going on, does not undo it.                         *)
LEMMA ToComeStays ==
  ASSUME ChunkAssumption, LinkInv, NEW m, ToCome(m),
         SendChunk \/ \E k \in Message : SendWhole(k) \/ StartChunks(k)
  PROVE  ToCome(m)'
<1>1. LinkType(link)
  BY DEF LinkInv, Orderly
<1>2. PICK frame \in Frames : link'.wire = Append(link.wire, frame)
  BY SendEffect, ChunkEffect
<1>3. CASE \E i \in DOMAIN link.wire : Ends(link.wire[i], m)
  BY <1>2, <1>3, ToComeAppended
<1>4. CASE link.sending # None /\ link.sending.msg = m
  <2>1. CASE SendChunk
    BY <1>4, <2>1, ContinuedIsToCome
  <2>2. CASE \E k \in Message : SendWhole(k) \/ StartChunks(k)
    <3>1. PICK k \in Message : SendWhole(k)
      BY <1>4, <2>2 DEF StartChunks
    <3>2. link'.sending = link.sending
      BY <3>1, WholeEffect
    <3> QED BY <1>4, <3>2 DEF ToCome
  <2> QED BY <2>1, <2>2
<1> QED BY <1>3, <1>4 DEF ToCome

(* When its last frame arrives, the message is received.                     *)
LEMMA ToComeReceived ==
  ASSUME ChunkAssumption, LinkInv, Receive, NEW m \in Message, ToCome(m)
  PROVE  Received = m \/ ToCome(m)'
<1>1. LinkType(link) /\ link.wire # <<>> /\ link'.wire = Tail(link.wire)
      /\ link'.sending = link.sending
  BY ReceiveEffect DEF LinkInv, Orderly
<1>2. CASE link.sending # None /\ link.sending.msg = m
  BY <1>1, <1>2 DEF ToCome
<1>3. CASE \E i \in DOMAIN link.wire : Ends(link.wire[i], m)
  <2>1. PICK i \in DOMAIN link.wire : Ends(link.wire[i], m)
    BY <1>3
  <2>2. /\ Len(link.wire) \in Nat \ {0} /\ DOMAIN link.wire = 1..Len(link.wire)
        /\ DOMAIN Tail(link.wire) = 1..Len(link.wire) - 1
        /\ Head(link.wire) = link.wire[1]
        /\ \A k \in 1..Len(link.wire) - 1 : Tail(link.wire)[k] = link.wire[k + 1]
    BY <1>1, HeadTailProperties DEF LinkType
  <2>3. CASE i # 1
    <3>1. i - 1 \in DOMAIN link'.wire /\ link'.wire[i - 1] = link.wire[i]
      BY <1>1, <2>2, <2>3
    <3> QED BY <2>1, <3>1 DEF ToCome
  <2>4. CASE i = 1
    <3>1. Ends(Head(link.wire), m)
      BY <2>1, <2>2, <2>4
    <3>2. CASE \E k \in Message : Head(link.wire) = Whole(k)
      <4>1. Head(link.wire) = Whole(m)
        BY <3>1, <3>2 DEF Ends, Whole
      <4> QED BY <4>1, WholePushed DEF Received
    <3>3. CASE \E k \in Message : \E s \in 0..Chunks[k] - 1 : Head(link.wire) = Chunk(k, s)
      <4>1. Head(link.wire).kind = "chunk"
        BY <3>3 DEF Chunk
      <4>2. Received = Head(link.wire).msg
        BY <1>1, <3>1, <4>1, OrderlyIsWhole DEF NoSplice, Ends
      <4> QED BY <3>1, <4>2 DEF Ends
    <3> QED BY <1>1, <3>2, <3>3, FirstFrame
  <2> QED BY <2>3, <2>4
<1> QED BY <1>2, <1>3 DEF ToCome

----------------------------------------------------------------------------
(* What is due are the messages whose last frames are under way.  The proof  *)
(* follows the assembler through the wire, by induction over the numbers of a*)
(* set: the form of the rule that the provers can instantiate.               *)
LEMMA SetInduction ==
  ASSUME NEW S, 0 \in S, \A n \in S \cap Nat : n + 1 \in S
  PROVE  Nat \subseteq S
<1> DEFINE T == {n \in Nat : n \notin S}
           R == {ss \in Nat \X Nat : ss[1] < ss[2]}
<1> SUFFICES ASSUME T # {} PROVE FALSE
  OBVIOUS
<1>1. IsWellFoundedOn(R, Nat)
  BY NatLessThanWellFounded DEF OpToRel
<1>2. T \subseteq Nat
  OBVIOUS
<1> HIDE DEF T, R
<1>3. PICK x \in T : \A y \in T : ~(<<y, x>> \in R)
  BY <1>1, <1>2, WFMin
<1> USE DEF T
<1>4. x \in Nat \ {0} /\ x \notin S /\ x - 1 \in Nat
  BY <1>3
<1>5. x - 1 \in S
  <2> SUFFICES ASSUME x - 1 \in T PROVE FALSE
    BY <1>4
  <2>1. <<x - 1, x>> \in R
    BY <1>4 DEF R
  <2> QED BY <1>3, <2>1
<1>6. (x - 1) + 1 \in S
  BY <1>4, <1>5
<1> QED BY <1>4, <1>6

(* The message that a frame completes, as a sequence.                        *)
Handed(frame) == IF frame.kind = "whole" \/ frame.last THEN <<frame.msg>> ELSE <<>>

(* After i frames the assembler a holds what the next chunk follows.         *)
Fits(l, i, a) ==
  /\ a = [buf |-> a.buf, next_seq |-> a.next_seq, out |-> a.out]
  /\ a.next_seq = 0 => a.buf = <<>>
  /\ \A m \in Message : \A s \in 1..Chunks[m] - 1 :
       Preceded(l, i + 1, m, s) => a.buf = Parts(m, s) /\ a.next_seq = s

LEMMA FitsAtFirst ==
  ASSUME ChunkAssumption, LinkInv
  PROVE  Fits(link, 0, Assembler)
<1>1. HeldPrefix(link)
  BY DEF LinkInv, Orderly
<1>2. Assembler = [buf |-> link.buf, next_seq |-> link.next_seq, out |-> None]
  BY DEF Assembler
<1>3. link.next_seq = 0 => link.buf = <<>>
  BY <1>1 DEF HeldPrefix, Parts
<1>4. ASSUME NEW m \in Message, NEW s \in 1..Chunks[m] - 1, Preceded(link, 1, m, s)
      PROVE  link.buf = Parts(m, s) /\ link.next_seq = s
  BY <1>4 DEF Preceded
<1> QED BY <1>2, <1>3, <1>4 DEF Fits

(* The frame after the next one follows that one, if it is a chunk; if it is *)
(* a small message, what it follows is what that one follows.                *)
LEMMA PrecededByWhole ==
  ASSUME NEW l, NEW i \in Nat, NEW m, NEW s, l.wire[i + 1].kind = "whole",
         Preceded(l, i + 2, m, s)
  PROVE  Preceded(l, i + 1, m, s)
<1>1. ASSUME NEW j \in Nat, j <= i, WholeBetween(l.wire, j, i + 2)
      PROVE  WholeBetween(l.wire, j, i + 1)
  BY <1>1 DEF WholeBetween
<1>2. CASE WholeBetween(l.wire, 0, i + 2) /\ l.buf = Parts(m, s) /\ l.next_seq = s
  BY <1>1, <1>2 DEF Preceded
<1>3. CASE \E j \in 1..(i + 2) - 1 : l.wire[j] = Chunk(m, s - 1) /\ WholeBetween(l.wire, j, i + 2)
  <2>1. PICK j \in 1..(i + 2) - 1 : l.wire[j] = Chunk(m, s - 1) /\ WholeBetween(l.wire, j, i + 2)
    BY <1>3
  <2>2. j # i + 1
    BY <2>1 DEF Chunk
  <2>3. j \in 1..(i + 1) - 1 /\ j \in Nat /\ j <= i
    BY <2>2
  <2> QED BY <1>1, <2>1, <2>3 DEF Preceded
<1> QED BY <1>2, <1>3 DEF Preceded

LEMMA PrecededByChunk ==
  ASSUME NEW l, NEW i \in Nat, NEW m, NEW s, l.wire[i + 1].kind = "chunk",
         Preceded(l, i + 2, m, s)
  PROVE  l.wire[i + 1] = Chunk(m, s - 1)
<1>1. ~WholeBetween(l.wire, 0, i + 2)
  BY DEF WholeBetween
<1>2. PICK j \in 1..(i + 2) - 1 : l.wire[j] = Chunk(m, s - 1) /\ WholeBetween(l.wire, j, i + 2)
  BY <1>1 DEF Preceded
<1>3. j = i + 1
  BY <1>2 DEF WholeBetween
<1> QED BY <1>2, <1>3

(* What the assembler yields, as a sequence.                                 *)
Output(a) == IF a.out = None THEN <<>> ELSE <<a.out>>

(* The next frame completes a message if it is its last one, and leaves what *)
(* the frame after it follows.                                               *)
LEMMA PushFits ==
  ASSUME ChunkAssumption, NEW l, LinkType(l), WireInOrder(l), NEW i \in Nat,
         i + 1 \in DOMAIN l.wire, NEW a, Fits(l, i, a), a.out = None
  PROVE  LET after == Push(a, l.wire[i + 1])
         IN  /\ Fits(l, i + 1, after)
             /\ Handed(l.wire[i + 1]) = Output(after)
<1> DEFINE f == l.wire[i + 1]
           after == Push(a, f)
<1>0. /\ a = [buf |-> a.buf, next_seq |-> a.next_seq, out |-> None]
      /\ a.next_seq = 0 => a.buf = <<>>
      /\ \A m \in Message : \A s \in 1..Chunks[m] - 1 :
           Preceded(l, i + 1, m, s) => a.buf = Parts(m, s) /\ a.next_seq = s
      /\ None \notin Message
      /\ i + 1 + 1 = i + 2
  BY DEF Fits, ChunkAssumption
<1>1. f \in Frames
  BY DEF LinkType
<1>2. ASSUME NEW x \in Message, f = Whole(x)
      PROVE  Fits(l, i + 1, after) /\ Handed(f) = Output(after)
  <2>1. after = [buf |-> a.buf, next_seq |-> a.next_seq, out |-> x]
    BY <1>0, <1>2 DEF Push, Whole
  <2>2. f.kind = "whole" /\ f.msg = x
    BY <1>2 DEF Whole
  <2>3. ASSUME NEW m \in Message, NEW s \in 1..Chunks[m] - 1, Preceded(l, i + 2, m, s)
        PROVE  Preceded(l, i + 1, m, s)
    BY <2>2, <2>3, PrecededByWhole
  <2> HIDE DEF f, after
  <2>4. Fits(l, i + 1, after)
    BY <1>0, <2>1, <2>3 DEF Fits
  <2>5. Handed(f) = <<x>> /\ after.out = x /\ x # None
    BY <1>0, <2>1, <2>2 DEF Handed
  <2> QED BY <2>4, <2>5 DEF Output
<1>3. ASSUME NEW x \in Message, NEW t \in 0..Chunks[x] - 1, f = Chunk(x, t)
      PROVE  Fits(l, i + 1, after) /\ Handed(f) = Output(after)
  <2>0. Chunks[x] \in Nat \ {0} /\ t \in Nat
    BY DEF ChunkAssumption
  <2>1. f.kind = "chunk" /\ f.msg = x /\ f.seq = t /\ (f.last <=> t = Chunks[x] - 1)
    <3>1. /\ Chunk(x, t).kind = "chunk" /\ Chunk(x, t).msg = x /\ Chunk(x, t).seq = t
          /\ Chunk(x, t).last = (t = Chunks[x] - 1)
      BY DEF Chunk
    <3> HIDE DEF f
    <3> QED BY <1>3, <3>1
  <2>2. Held(a, f) = Parts(x, t) /\ f.seq \in {a.next_seq, 0}
    <3>1. CASE t = 0
      <4>1. Parts(x, t) = <<>>
        BY <3>1 DEF Parts
      <4> QED BY <1>0, <2>1, <3>1, <4>1 DEF Held
    <3>2. CASE t # 0
      <4>1. Preceded(l, i + 1, x, t) /\ t \in 1..Chunks[x] - 1
        BY <2>0, <2>1, <3>2 DEF WireInOrder
      <4> QED BY <1>0, <2>1, <4>1 DEF Held
    <3> QED BY <3>1, <3>2
  <2>3. after = Taken(Parts(x, t), Chunk(x, t))
    <3> HIDE DEF f
    <3> QED BY <1>3, <2>1, <2>2 DEF Push
  <2>4. after = IF t = Chunks[x] - 1
                THEN [buf |-> <<>>, next_seq |-> 0, out |-> x]
                ELSE [buf |-> Parts(x, t + 1), next_seq |-> t + 1, out |-> None]
    BY <2>3, PartTaken
  <2>5. ASSUME NEW m \in Message, NEW s \in 1..Chunks[m] - 1, Preceded(l, i + 2, m, s)
        PROVE  m = x /\ s = t + 1 /\ t # Chunks[x] - 1
    <3>1. f = Chunk(m, s - 1)
      BY <2>1, <2>5, PrecededByChunk
    <3>2. m = x /\ s - 1 = t
      BY <2>1, <3>1 DEF Chunk
    <3> QED BY <2>0, <3>2
  <2> HIDE DEF f, after
  <2>6. Fits(l, i + 1, after)
    BY <1>0, <2>0, <2>4, <2>5 DEF Fits
  <2>7. Handed(f) = IF t = Chunks[x] - 1 THEN <<x>> ELSE <<>>
    BY <2>1 DEF Handed
  <2> QED BY <1>0, <2>4, <2>6, <2>7 DEF Output
<1>4. (\E x \in Message : f = Whole(x)) \/ \E x \in Message : \E t \in 0..Chunks[x] - 1 : f = Chunk(x, t)
  <2> HIDE DEF f
  <2> QED BY <1>1 DEF Frames
<1> QED BY <1>2, <1>3, <1>4

(* Due is defined by its recursion.                                          *)
Ready(a) == [a EXCEPT !.out = None]

DueStep(before, frame) ==
  LET after == Push(Ready(before.a), frame)
  IN  [a |-> after,
       due |-> before.due \o Output(after)]

LEMMA DueStepIs ==
  ASSUME NEW before, NEW frame
  PROVE  LET after == Push(Ready(before.a), frame)
         IN  /\ DueStep(before, frame).a = after
             /\ DueStep(before, frame).due = before.due \o Output(after)
<1> DEFINE after == Push(Ready(before.a), frame)
           due == before.due \o Output(after)
<1>1. DueStep(before, frame) = [a |-> after, due |-> due]
  BY DEF DueStep
<1> HIDE DEF after, due
<1>2. DueStep(before, frame).a = after /\ DueStep(before, frame).due = due
  BY <1>1
<1> QED BY <1>2 DEF after, due

LEMMA DueAt ==
  ASSUME Len(link.wire) \in Nat
  PROVE  \E g : /\ g[0] = [a |-> Assembler, due |-> <<>>]
                /\ \A n \in 1..Len(link.wire) : g[n] = DueStep(g[n - 1], link.wire[n])
                /\ Due = g[Len(link.wire)].due
<1> DEFINE b == [a |-> Assembler, due |-> <<>>]
           w == link.wire
           G(g, k) == g = [n \in 0..k |-> IF n = 0 THEN b ELSE DueStep(g[n - 1], w[n])]
           S == {k \in Nat : \E g : G(g, k)}
<1>1. 0 \in S
  <2>1. G([n \in 0..0 |-> b], 0)
    OBVIOUS
  <2> QED BY <2>1
<1>2. ASSUME NEW k \in S \cap Nat
      PROVE  k + 1 \in S
  <2>1. PICK g : G(g, k)
    BY DEF S
  <2> DEFINE h == [n \in 0..(k + 1) |-> IF n = k + 1 THEN DueStep(g[k], w[k + 1]) ELSE g[n]]
  <2> HIDE DEF b, w
  <2>2. ASSUME NEW n \in 0..(k + 1)
        PROVE  h[n] = IF n = 0 THEN b ELSE DueStep(h[n - 1], w[n])
    <3>1. CASE n = k + 1
      <4>1. h[k] = g[k]
        OBVIOUS
      <4> QED BY <3>1, <4>1
    <3>2. CASE n # k + 1
      <4>1. n \in 0..k /\ (n # 0 => n - 1 \in 0..k)
        BY <3>2
      <4>2. h[n] = g[n] /\ (n # 0 => h[n - 1] = g[n - 1])
        BY <4>1
      <4> QED BY <2>1, <4>1, <4>2
    <3> QED BY <3>1, <3>2
  <2>3. G(h, k + 1)
    BY <2>2
  <2>4. \E f : G(f, k + 1)
    <3> HIDE DEF h, G
    <3> QED BY <2>3
  <2> QED BY <2>4
<1>3. Nat \subseteq S
  <2> HIDE DEF S
  <2> QED BY <1>1, <1>2, SetInduction
<1> DEFINE f == CHOOSE g : G(g, Len(w))
<1>4. \E g : G(g, Len(w))
  <2> HIDE DEF G
  <2> QED BY <1>3
<1>5. G(f, Len(w))
  <2> HIDE DEF G
  <2> QED BY <1>4
<1>6. Due = f[Len(w)].due
  BY DEF Due, DueStep, Ready, Output
<1> HIDE DEF f
<1>7. f[0] = b /\ \A n \in 1..Len(w) : f[n] = DueStep(f[n - 1], w[n])
  BY <1>5
<1> QED BY <1>6, <1>7

(* g lists, after each frame of the wire w, the messages completed so far.   *)
Counts(w, g) ==
  /\ g[0] = <<>>
  /\ \A n \in 1..Len(w) : g[n] = g[n - 1] \o Handed(w[n])

Counted == \E g : Counts(link.wire, g) /\ Due = g[Len(link.wire)]

LEMMA DueCounted ==
  ASSUME ChunkAssumption, LinkInv
  PROVE  Counted
<1> DEFINE w == link.wire
<1>0. /\ LinkType(link) /\ WireInOrder(link) /\ Len(w) \in Nat /\ DOMAIN w = 1..Len(w)
  BY DEF LinkInv, Orderly, LinkType
<1>1. PICK f : /\ f[0] = [a |-> Assembler, due |-> <<>>]
               /\ \A n \in 1..Len(w) : f[n] = DueStep(f[n - 1], w[n])
               /\ Due = f[Len(w)].due
  BY <1>0, DueAt
<1> DEFINE e(n) == Ready(f[n].a)
           T == {n \in Nat : n <= Len(w) => Fits(link, n, e(n))}
<1>2. ASSUME NEW n \in Nat, n + 1 <= Len(w), Fits(link, n, e(n))
      PROVE  /\ Fits(link, n + 1, e(n + 1))
             /\ f[n + 1].due = f[n].due \o Handed(w[n + 1])
  <2> DEFINE after == Push(e(n), w[n + 1])
  <2>1. e(n).out = None
    BY <1>2 DEF Fits, Ready
  <2>2. n + 1 \in DOMAIN link.wire
    BY <1>0, <1>2
  <2>3. /\ Fits(link, n + 1, after)
        /\ Handed(w[n + 1]) = Output(after)
    <3> HIDE DEF e
    <3> QED BY <1>0, <1>2, <2>1, <2>2, PushFits
  <2>4. f[n + 1] = DueStep(f[n], w[n + 1])
    <3>1. n + 1 \in 1..Len(w) /\ (n + 1) - 1 = n
      BY <1>0, <1>2
    <3> QED BY <1>1, <3>1
  <2>5. /\ f[n + 1].a = after
        /\ f[n + 1].due = f[n].due \o Output(after)
    <3> DEFINE before == f[n]
               frame == w[n + 1]
    <3> HIDE DEF before, frame
    <3>1. LET x == Push(Ready(before.a), frame)
          IN  /\ DueStep(before, frame).a = x
              /\ DueStep(before, frame).due = before.due \o Output(x)
      BY DueStepIs
    <3>2. Push(Ready(before.a), frame) = after
      BY DEF before, frame
    <3> HIDE DEF after
    <3> HIDE DEF e
    <3> QED BY <2>4, <3>1, <3>2 DEF before, frame
  <2> HIDE DEF after
  <2>6. e(n + 1) = [after EXCEPT !.out = None]
    BY <2>5 DEF Ready
  <2>7. [after EXCEPT !.out = None] = [buf |-> after.buf, next_seq |-> after.next_seq, out |-> None]
    BY <2>3 DEF Fits
  <2> HIDE DEF e
  <2>8. Fits(link, n + 1, e(n + 1))
    BY <2>3, <2>6, <2>7 DEF Fits
  <2> QED BY <2>3, <2>5, <2>8
<1>3. Fits(link, 0, e(0))
  <2>1. e(0) = Assembler
    BY <1>1 DEF Assembler, Ready
  <2> HIDE DEF e
  <2> QED BY <2>1, FitsAtFirst
<1> HIDE DEF e
<1>4. \A n \in 0..Len(w) : Fits(link, n, e(n))
  <2>1. 0 \in T
    BY <1>3
  <2>2. ASSUME NEW n \in T \cap Nat PROVE n + 1 \in T
    <3>1. SUFFICES ASSUME n + 1 <= Len(w) PROVE Fits(link, n + 1, e(n + 1))
      OBVIOUS
    <3>2. n \in Nat /\ Fits(link, n, e(n))
      BY <1>0, <3>1
    <3> QED BY <1>2, <3>1, <3>2
  <2>3. Nat \subseteq T
    <3> HIDE DEF T
    <3> QED BY <2>1, <2>2, SetInduction
  <2> QED BY <1>0, <2>3
<1> DEFINE g == [n \in 0..Len(w) |-> f[n].due]
<1>5. g[0] = <<>> /\ Due = g[Len(w)]
  BY <1>0, <1>1
<1>6. ASSUME NEW n \in 1..Len(w)
      PROVE  g[n] = g[n - 1] \o Handed(w[n])
  <2>1. n - 1 \in Nat /\ (n - 1) + 1 = n /\ n - 1 \in 0..Len(w) /\ n \in 0..Len(w)
    BY <1>0
  <2>2. n - 1 \in Nat /\ (n - 1) + 1 <= Len(w) /\ Fits(link, n - 1, e(n - 1))
    BY <1>0, <1>4, <2>1
  <2>3. f[(n - 1) + 1].due = f[n - 1].due \o Handed(w[(n - 1) + 1])
    BY <1>2, <2>2
  <2> QED BY <2>1, <2>3
<1>7. Counts(w, g)
  BY <1>5, <1>6 DEF Counts
<1> HIDE DEF g
<1> QED BY <1>5, <1>7 DEF Counted

(* Every frame completes a message or none.                                  *)
LEMMA HandedType ==
  ASSUME NEW frame \in Frames
  PROVE  Handed(frame) \in Seq(Message) /\ frame.msg \in Message
<1>1. frame.msg \in Message
  BY DEF Frames, Whole, Chunk
<1> QED BY <1>1 DEF Handed

LEMMA CountsType ==
  ASSUME NEW w \in Seq(Frames), NEW g, Counts(w, g), NEW k \in 0..Len(w)
  PROVE  g[k] \in Seq(Message)
<1> DEFINE T == {n \in Nat : n <= Len(w) => g[n] \in Seq(Message)}
<1>1. 0 \in T
  <2>1. g[0] = <<>>
    BY DEF Counts
  <2>2. <<>> \in Seq(Message)
    OBVIOUS
  <2> QED BY <2>1, <2>2
<1>2. ASSUME NEW n \in T \cap Nat PROVE n + 1 \in T
  <2>1. SUFFICES ASSUME n + 1 <= Len(w) PROVE g[n + 1] \in Seq(Message)
    OBVIOUS
  <2>2. n + 1 \in 1..Len(w) /\ (n + 1) - 1 = n /\ w[n + 1] \in Frames
    BY <2>1
  <2>3. g[n] \in Seq(Message) /\ Handed(w[n + 1]) \in Seq(Message)
    BY <2>2, HandedType
  <2>4. g[n + 1] = g[n] \o Handed(w[n + 1])
    BY <2>2 DEF Counts
  <2> QED BY <2>3, <2>4, ConcatProperties
<1>3. Nat \subseteq T
  <2> HIDE DEF T
  <2> QED BY <1>1, <1>2, SetInduction
<1> QED BY <1>3

(* What a wire starts with counts the same, whatever comes after it.         *)
LEMMA CountsAlike ==
  ASSUME NEW w \in Seq(Frames), NEW v \in Seq(Frames), Len(w) <= Len(v),
         \A n \in 1..Len(w) : v[n] = w[n],
         NEW g, Counts(w, g), NEW h, Counts(v, h)
  PROVE  h[Len(w)] = g[Len(w)]
<1>0. Len(w) \in Nat /\ Len(v) \in Nat
  OBVIOUS
<1> DEFINE T == {n \in Nat : n <= Len(w) => h[n] = g[n]}
<1>1. 0 \in T
  BY DEF Counts
<1>2. ASSUME NEW n \in T \cap Nat PROVE n + 1 \in T
  <2>1. SUFFICES ASSUME n + 1 <= Len(w) PROVE h[n + 1] = g[n + 1]
    OBVIOUS
  <2>2. n + 1 \in 1..Len(w) /\ n + 1 \in 1..Len(v) /\ (n + 1) - 1 = n
    BY <1>0, <2>1
  <2>3. g[n + 1] = g[n] \o Handed(w[n + 1]) /\ h[n + 1] = h[n] \o Handed(v[n + 1])
    BY <2>2 DEF Counts
  <2>4. h[n] = g[n]
    BY <1>0, <2>1
  <2> QED BY <1>0, <2>2, <2>3, <2>4
<1>3. Nat \subseteq T
  <2> HIDE DEF T
  <2> QED BY <1>1, <1>2, SetInduction
<1> QED BY <1>0, <1>3

(* One more frame at the end.                                                *)
LEMMA CountsAppend ==
  ASSUME NEW w \in Seq(Frames), NEW frame \in Frames, NEW g, Counts(w, g),
         NEW h, Counts(Append(w, frame), h)
  PROVE  h[Len(Append(w, frame))] = g[Len(w)] \o Handed(frame)
<1> DEFINE v == Append(w, frame)
<1>0. /\ Len(w) \in Nat /\ Len(v) = Len(w) + 1 /\ v[Len(w) + 1] = frame
      /\ v \in Seq(Frames) /\ \A n \in 1..Len(w) : v[n] = w[n]
  BY AppendProperties
<1> HIDE DEF v
<1>1. Counts(v, h)
  BY DEF v
<1>2. h[Len(w)] = g[Len(w)]
  BY <1>0, <1>1, CountsAlike
<1>3. Len(v) \in 1..Len(v) /\ Len(v) - 1 = Len(w)
  BY <1>0
<1>4. h[Len(v)] = h[Len(v) - 1] \o Handed(v[Len(v)])
  BY <1>1, <1>3 DEF Counts
<1> QED BY <1>0, <1>2, <1>3, <1>4 DEF v

(* One frame less at the front.                                              *)
LEMMA CountsTail ==
  ASSUME NEW w \in Seq(Frames), w # <<>>, NEW g, Counts(w, g), NEW h, Counts(Tail(w), h)
  PROVE  g[Len(w)] = Handed(Head(w)) \o h[Len(Tail(w))]
<1> DEFINE v == Tail(w)
           first == Handed(Head(w))
<1>0. /\ Len(w) \in Nat \ {0} /\ Len(v) = Len(w) - 1 /\ v \in Seq(Frames)
      /\ Head(w) = w[1] /\ w[1] \in Frames
      /\ \A n \in 1..Len(v) : v[n] = w[n + 1]
  BY HeadTailProperties
<1>1. first \in Seq(Message)
  BY <1>0, HandedType
<1> HIDE DEF v
<1>h. Counts(v, h)
  BY DEF v
<1> DEFINE T == {n \in Nat : n <= Len(v) => g[n + 1] = first \o h[n]}
<1>2. 0 \in T
  <2> HIDE DEF first
  <2>0. 1 \in 1..Len(w) /\ 1 - 1 = 0
    BY <1>0
  <2>1. g[1] = g[0] \o Handed(w[1]) /\ g[0] = <<>> /\ h[0] = <<>>
    BY <1>h, <2>0 DEF Counts
  <2>2. <<>> \o first = first \o <<>>
    BY <1>1, ConcatEmptySeq
  <2>3. w[1] = Head(w)
    BY <1>0
  <2>4. g[1] = first \o h[0]
    BY <2>1, <2>2, <2>3 DEF first
  <2> QED BY <2>4
<1>3. ASSUME NEW n \in T \cap Nat PROVE n + 1 \in T
  <2> HIDE DEF first
  <2>1. SUFFICES ASSUME n + 1 <= Len(v) PROVE g[(n + 1) + 1] = first \o h[n + 1]
    OBVIOUS
  <2>a. n \in Nat /\ (n <= Len(v) => g[n + 1] = first \o h[n])
    OBVIOUS
  <2>2. /\ n + 1 \in 1..Len(v) /\ (n + 1) - 1 = n
        /\ (n + 1) + 1 \in 1..Len(w) /\ ((n + 1) + 1) - 1 = n + 1 /\ n \in 0..Len(v)
    BY <1>0, <2>1
  <2>3. /\ h[n + 1] = h[n] \o Handed(v[n + 1])
        /\ g[(n + 1) + 1] = g[n + 1] \o Handed(w[(n + 1) + 1])
    BY <1>h, <2>2 DEF Counts
  <2>4. g[n + 1] = first \o h[n] /\ v[n + 1] = w[(n + 1) + 1]
    BY <1>0, <2>a, <2>1, <2>2
  <2>5. h[n] \in Seq(Message) /\ Handed(v[n + 1]) \in Seq(Message)
    <3>1. v[n + 1] \in Frames
      BY <1>0, <2>2
    <3> QED BY <1>0, <1>h, <2>2, <3>1, CountsType, HandedType
  <2>6. (first \o h[n]) \o Handed(v[n + 1]) = first \o (h[n] \o Handed(v[n + 1]))
    <3> DEFINE second == h[n]
               third == Handed(v[n + 1])
    <3>1. second \in Seq(Message) /\ third \in Seq(Message)
      BY <2>5
    <3> HIDE DEF second, third
    <3>2. (first \o second) \o third = first \o (second \o third)
      BY <1>1, <3>1, ConcatAssociative
    <3> QED BY <3>2 DEF second, third
  <2> QED BY <2>3, <2>4, <2>6
<1>4. Nat \subseteq T
  <2> HIDE DEF T
  <2> QED BY <1>2, <1>3, SetInduction
<1>5. Len(v) \in Nat /\ Len(v) + 1 = Len(w)
  BY <1>0
<1> HIDE DEF first
<1>6. g[Len(v) + 1] = first \o h[Len(v)]
  BY <1>4, <1>5
<1> QED BY <1>5, <1>6 DEF v, first

(* What a step does to what is due: a frame sent adds the message it         *)
(* completes, the frame received takes its own away.                         *)
Advance ==
  IF Completed # None
  THEN Due' = Append(Due, Completed)
  ELSE Due' = Due \/ (Due # <<>> /\ Due' = Tail(Due))

LEMMA AppendAdvances ==
  ASSUME ChunkAssumption, LinkInv, Counted, Counted', NEW frame \in Frames,
         link'.wire = Append(link.wire, frame)
  PROVE  Advance
<1> DEFINE w == link.wire
           v == link'.wire
<1>0. w \in Seq(Frames) /\ Len(w) \in Nat /\ None \notin Message
  BY DEF LinkInv, Orderly, LinkType, ChunkAssumption
<1>1. PICK g : Counts(w, g) /\ Due = g[Len(w)]
  BY DEF Counted
<1>2. PICK h : Counts(v, h) /\ Due' = h[Len(v)]
  BY DEF Counted
<1>3. Due' = Due \o Handed(frame)
  BY <1>0, <1>1, <1>2, CountsAppend
<1>4. Len(v) = Len(w) + 1 /\ v[Len(v)] = frame /\ ~(Len(v) <= Len(w))
  BY <1>0, AppendProperties
<1>5. Completed = IF frame.kind = "whole" \/ frame.last THEN frame.msg ELSE None
  BY <1>4 DEF Completed
<1>6. frame.msg \in Message
  BY HandedType
<1>7. Due \in Seq(Message)
  BY <1>0, <1>1, CountsType
<1>8. CASE frame.kind = "whole" \/ frame.last
  <2>1. Completed = frame.msg /\ Completed # None /\ Handed(frame) = <<frame.msg>>
    BY <1>0, <1>5, <1>6, <1>8 DEF Handed
  <2>2. Due \o <<frame.msg>> = Append(Due, frame.msg)
    BY <1>6, <1>7, AppendIsConcat
  <2> QED BY <1>3, <2>1, <2>2 DEF Advance
<1>9. CASE ~(frame.kind = "whole" \/ frame.last)
  <2>1. Completed = None /\ Handed(frame) = <<>>
    BY <1>5, <1>9 DEF Handed
  <2>2. Due \o <<>> = Due
    BY <1>7, ConcatEmptySeq
  <2> QED BY <1>3, <2>1, <2>2 DEF Advance
<1> QED BY <1>8, <1>9

LEMMA ReceiveAdvances ==
  ASSUME ChunkAssumption, LinkInv, Counted, Counted', link.wire # <<>>,
         link'.wire = Tail(link.wire), LinkInv'
  PROVE  Advance
<1> DEFINE w == link.wire
           v == link'.wire
<1>0. w \in Seq(Frames) /\ v \in Seq(Frames) /\ w # <<>> /\ v = Tail(w) /\ Head(w) \in Frames
  BY HeadTailProperties DEF LinkInv, Orderly, LinkType
<1>1. PICK g : Counts(w, g) /\ Due = g[Len(w)]
  BY DEF Counted
<1>2. PICK h : Counts(v, h) /\ Due' = h[Len(v)]
  BY DEF Counted
<1>3. Due = Handed(Head(w)) \o Due'
  BY <1>0, <1>1, <1>2, CountsTail
<1>4. Len(v) \in Nat /\ Len(v) <= Len(w)
  BY <1>0, HeadTailProperties
<1>5. Completed = None
  BY <1>4 DEF Completed
<1>6. Due' \in Seq(Message)
  <2>1. Counts(v, h) /\ Len(v) \in 0..Len(v)
    BY <1>2, <1>4
  <2>2. h[Len(v)] \in Seq(Message)
    BY <1>0, <2>1, CountsType
  <2> QED BY <1>2, <2>2
<1>7. Handed(Head(w)) \in {<<>>, <<Head(w).msg>>} /\ Head(w).msg \in Message
  BY <1>0, HandedType DEF Handed
<1> DEFINE later == Due'
           m == Head(w).msg
<1>8. CASE Handed(Head(w)) = <<>>
  <2>1. <<>> \o later = later
    BY <1>6, ConcatEmptySeq
  <2> QED BY <1>3, <1>5, <1>8, <2>1 DEF Advance
<1>9. CASE Handed(Head(w)) = <<m>>
  <2> HIDE DEF m, later
  <2>1. Due = <<m>> \o later /\ later \in Seq(Message) /\ m \in Message
    BY <1>3, <1>6, <1>7, <1>9 DEF m, later
  <2>2. <<m>> \o later # <<>> /\ Tail(<<m>> \o later) = later
    BY <2>1
  <2>3. Due # <<>> /\ Due' = Tail(Due)
    BY <2>1, <2>2 DEF later
  <2> QED BY <1>5, <2>3 DEF Advance
<1> QED BY <1>7, <1>8, <1>9

LEMMA BreakOffAdvances ==
  ASSUME ChunkAssumption, LinkInv, Counted, Counted', link'.wire = link.wire
  PROVE  Advance
<1> DEFINE w == link.wire
<1>0. w \in Seq(Frames) /\ Len(w) \in Nat
  BY DEF LinkInv, Orderly, LinkType
<1>1. PICK g : Counts(w, g) /\ Due = g[Len(w)]
  BY DEF Counted
<1>2. PICK h : Counts(w, h) /\ Due' = h[Len(w)]
  BY DEF Counted
<1>3. Due' = Due
  BY <1>0, <1>1, <1>2, CountsAlike
<1>4. Completed = None
  BY <1>0 DEF Completed
<1> QED BY <1>3, <1>4 DEF Advance


LEMMA ReassemblyStep ==
  ASSUME ChunkAssumption, LinkInv, LinkInv', Counted, Counted', [Next]_link
  PROVE  [Advance]_link
<1>1. ASSUME NEW m \in Message, SendWhole(m) \/ StartChunks(m)
      PROVE  Advance
  <2>1. PICK frame \in Frames : link'.wire = Append(link.wire, frame)
    BY <1>1, SendEffect
  <2> QED BY <2>1, AppendAdvances
<1>2. CASE SendChunk
  <2>1. PICK frame \in Frames : link'.wire = Append(link.wire, frame)
    BY <1>2, ChunkEffect
  <2> QED BY <2>1, AppendAdvances
<1>3. CASE BreakOff
  BY <1>3, BreakEffect, BreakOffAdvances
<1>4. CASE Receive
  BY <1>4, ReceiveEffect, ReceiveAdvances
<1> QED BY <1>1, <1>2, <1>3, <1>4 DEF Next

(* A message whose last frame has been sent is received whole, once and in   *)
(* the order in which the sends ended, and nothing else is received          *)
(* (Reassembly): whatever small messages come between its chunks, and        *)
(* whatever sends broke off before it.                                       *)
THEOREM ChannelReassembles ==
  ASSUME ChunkAssumption
  PROVE  Spec => Reassembly
<1>1. Init => LinkInv
  BY LinkInit
<1>2. LinkInv /\ [Next]_link => LinkInv'
  BY LinkStep
<1>3. LinkInv => Counted
  BY DueCounted
<1>4. LinkInv /\ LinkInv' /\ Counted /\ Counted' /\ [Next]_link => [Advance]_link
  BY ReassemblyStep
<1>5. Spec => [][Advance]_link
  BY <1>1, <1>2, <1>3, <1>4, PTL DEF Spec
<1> QED BY <1>5 DEF Reassembly, Advance

=============================================================================
