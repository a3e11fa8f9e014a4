----------------------------- MODULE ChunkChannel -----------------------------
(* One direction of the control channel: messages go out whole or, when they *)
(* are large, in numbered chunks, and are put together at the other end      *)
(* (transport/src/peer.rs, send_text_chunked and ChunkAssembler).  At most   *)
(* one task of an end sends large messages; others send small ones meanwhile.*)
EXTENDS Integers, Sequences

CONSTANTS
  Message,    \* the messages
  Chunks,     \* how many chunks each of them makes: 1 if it is sent whole
  MaxWire,    \* bound on the frames under way
  None

ChunkAssumption ==
  /\ Chunks \in [Message -> Nat \ {0}]
  /\ MaxWire \in Nat \ {0}
  /\ None \notin Message /\ None \notin [msg : Message, seq : Nat]

(* The channel: what send_text_chunked still has to send, the frames under   *)
(* way, and the assembler (buf as the sequence of the parts it holds).       *)
VARIABLE link

Whole(m) == [kind |-> "whole", msg |-> m]
Chunk(m, seq) ==
  [kind |-> "chunk", msg |-> m, seq |-> seq, last |-> seq = Chunks[m] - 1]

Init == link = [sending |-> None, wire |-> <<>>, buf |-> <<>>, next_seq |-> 0]

----------------------------------------------------------------------------
(* The sender.                                                               *)

Room == Len(link.wire) < MaxWire

(* A message that fits, from whichever task.                                 *)
SendWhole(m) ==
  /\ Chunks[m] = 1 /\ Room
  /\ link' = [link EXCEPT !.wire = Append(@, Whole(m))]

(* The first chunk of one that does not.                                     *)
StartChunks(m) ==
  /\ Chunks[m] > 1 /\ Room /\ link.sending = None
  /\ link' = [link EXCEPT !.wire = Append(@, Chunk(m, 0)),
                          !.sending = [msg |-> m, seq |-> 1]]

(* The next one.                                                             *)
SendChunk ==
  LET m == link.sending.msg
      s == link.sending.seq
  IN  /\ link.sending # None /\ Room
      /\ link' = [link EXCEPT !.wire = Append(@, Chunk(m, s)),
                              !.sending = IF s = Chunks[m] - 1
                                          THEN None ELSE [msg |-> m, seq |-> s + 1]]

(* A send fails in the middle of a message: the rest of it is never sent.    *)
BreakOff ==
  /\ link.sending # None
  /\ link' = [link EXCEPT !.sending = None]

----------------------------------------------------------------------------
(* ChunkAssembler.                                                           *)

Part(frame) == <<frame.msg, frame.seq>>

(* What the receiver makes of the parts: the message they are the parts of,  *)
(* or nothing ("malformed", dropped with a warning).                         *)
Read(parts) ==
  LET read == {m \in {parts[i][1] : i \in DOMAIN parts} :
                 parts = [i \in 1..Chunks[m] |-> <<m, i - 1>>]}
  IN  IF read = {} THEN None ELSE CHOOSE m \in read : TRUE

Taken(held, frame) ==
  LET parts == Append(held, Part(frame))
  IN  IF frame.last
      THEN [buf |-> <<>>, next_seq |-> 0, out |-> Read(parts)]
      ELSE [buf |-> parts, next_seq |-> frame.seq + 1, out |-> None]

HeldAnyway(a, frame) == a.buf                                \* mutant

(* A sequence gap drops what was held.                                       *)
Held(a, frame) == IF frame.seq = a.next_seq THEN a.buf ELSE <<>>

(* ChunkAssembler::push.                                                     *)
Push(a, frame) ==
  IF frame.kind = "whole" THEN [a EXCEPT !.out = frame.msg]
  ELSE IF frame.seq \in {a.next_seq, 0} THEN Taken(Held(a, frame), frame)
  ELSE [buf |-> <<>>, next_seq |-> 0, out |-> None]

Assembler == [buf |-> link.buf, next_seq |-> link.next_seq, out |-> None]

(* The next frame arrives; Received is the message it completes, or None.    *)
Pushed == Push(Assembler, Head(link.wire))
Received == Pushed.out

Receive ==
  /\ link.wire # <<>>
  /\ link' = [link EXCEPT !.wire = Tail(@), !.buf = Pushed.buf,
                          !.next_seq = Pushed.next_seq]

Next ==
  \/ \E m \in Message : SendWhole(m) \/ StartChunks(m)
  \/ SendChunk \/ BreakOff \/ Receive

Spec == Init /\ [][Next]_link

----------------------------------------------------------------------------
(* The messages the assembler will yield from the frames under way.          *)
Due ==
  LET push[i \in 0..Len(link.wire)] ==
        IF i = 0 THEN [a |-> Assembler, due |-> <<>>]
        ELSE LET before == push[i-1]
                 after == Push([before.a EXCEPT !.out = None], link.wire[i])
                 handed == IF after.out = None THEN <<>> ELSE <<after.out>>
             IN  [a |-> after, due |-> before.due \o handed]
  IN  push[Len(link.wire)].due

(* The message whose last frame this step sends, or None.                    *)
Completed ==
  LET frame == link'.wire[Len(link'.wire)]
  IN  IF Len(link'.wire) <= Len(link.wire) THEN None
      ELSE IF frame.kind = "whole" \/ frame.last THEN frame.msg ELSE None

(* Whatever send_text_chunked has reported sent is received whole, once, and *)
(* in the order in which the sends ended, and nothing else is: neither small *)
(* messages in between nor messages that broke off are spliced into another. *)
Reassembly ==
  [][IF Completed # None
     THEN Due' = Append(Due, Completed)
     ELSE Due' = Due \/ (Due # <<>> /\ Due' = Tail(Due))]_link

(* The last chunk of a message completes that message: the assembler never   *)
(* splices parts of different messages.                                      *)
NoSplice ==
  link.wire # <<>> /\ Head(link.wire).kind = "chunk" /\ Head(link.wire).last
    => Received = Head(link.wire).msg

----------------------------------------------------------------------------
(* Why: every chunk but a first one comes right after its predecessor, with  *)
(* only small messages in between, or is what the assembler waits for.       *)

Frames == UNION {{Whole(m)} \cup {Chunk(m, s) : s \in 0..Chunks[m] - 1} : m \in Message}

LinkType(l) ==
  /\ l = [sending |-> l.sending, wire |-> l.wire, buf |-> l.buf,
          next_seq |-> l.next_seq]
  /\ l.wire \in Seq(Frames)
  /\ l.sending # None =>
        \E m \in Message : \E s \in 1..Chunks[m] - 1 :
          l.sending = [msg |-> m, seq |-> s]

Parts(m, n) == [i \in 1..n |-> <<m, i - 1>>]

HeldPrefix(l) ==
  \/ l.next_seq = 0 /\ l.buf = <<>>
  \/ \E m \in Message : /\ l.next_seq \in 0..Chunks[m] - 1
                        /\ l.buf = Parts(m, l.next_seq)

WholeBetween(wire, i, j) == \A k \in i + 1..j - 1 : wire[k].kind = "whole"

(* At position i of the wire, chunk s of message m is the next one.          *)
Preceded(l, i, m, s) ==
  \/ WholeBetween(l.wire, 0, i) /\ l.buf = Parts(m, s) /\ l.next_seq = s
  \/ \E j \in 1..i - 1 : l.wire[j] = Chunk(m, s - 1) /\ WholeBetween(l.wire, j, i)

WireInOrder(l) ==
  \A i \in DOMAIN l.wire :
    l.wire[i].kind = "chunk" /\ l.wire[i].seq # 0 =>
      Preceded(l, i, l.wire[i].msg, l.wire[i].seq)

SenderInOrder(l) ==
  l.sending # None => Preceded(l, Len(l.wire) + 1, l.sending.msg, l.sending.seq)

Orderly(l) == LinkType(l) /\ HeldPrefix(l) /\ WireInOrder(l) /\ SenderInOrder(l)

LinkInv == Orderly(link)

(* The frame that completes a message is still to arrive.                    *)
Ends(frame, m) == frame.msg = m /\ (frame.kind = "whole" \/ frame.last)

ToCome(m) ==
  \/ \E i \in DOMAIN link.wire : Ends(link.wire[i], m)
  \/ link.sending # None /\ link.sending.msg = m
=============================================================================
