-------------------------- MODULE RenegotiationProofs --------------------------
(* Types, reassembly, the queue of pending answers and the answers applied,  *)
(* for any number of renegotiations and media sections, any capacity of the  *)
(* channel and any faults.                                                   *)
EXTENDS Renegotiation, SequenceTheorems, TLAPS

DownP == INSTANCE ChunkProofs WITH link <- down
UpP == INSTANCE ChunkProofs WITH link <- up

----------------------------------------------------------------------------
(* What is proved about the channel is about these two.                      *)

LEMMA Assumptions ==
  DownP!ChunkAssumption /\ UpP!ChunkAssumption
BY LinkAssumption DEF Down!ChunkAssumption, DownP!ChunkAssumption, UpP!ChunkAssumption

LEMMA SameDown ==
  /\ DownP!LinkInv <=> Down!LinkInv
  /\ DownP!NoSplice <=> Down!NoSplice
  /\ DownP!Received = Down!Received
  /\ DownP!Frames = Down!Frames
<1>1. DownP!LinkInv <=> Down!LinkInv
  BY DEF Down!LinkInv, DownP!LinkInv, Down!Orderly, DownP!Orderly,
       Down!LinkType, DownP!LinkType, Down!Frames, DownP!Frames,
       Down!Whole, DownP!Whole, Down!Chunk, DownP!Chunk, Down!HeldPrefix,
       DownP!HeldPrefix, Down!Parts, DownP!Parts, Down!WireInOrder,
       DownP!WireInOrder, Down!Preceded, DownP!Preceded,
       Down!WholeBetween, DownP!WholeBetween, Down!SenderInOrder,
       DownP!SenderInOrder
<1>2. DownP!NoSplice <=> Down!NoSplice
  BY DEF Down!NoSplice, DownP!NoSplice, Down!Received, DownP!Received,
       Down!Pushed, DownP!Pushed, Down!Push, DownP!Push, Down!Assembler,
       DownP!Assembler, Down!Held, DownP!Held, Down!Taken, DownP!Taken,
       Down!Part, DownP!Part, Down!Read, DownP!Read
<1>3. DownP!Received = Down!Received
  BY DEF Down!Received, DownP!Received, Down!Pushed, DownP!Pushed,
       Down!Push, DownP!Push, Down!Assembler, DownP!Assembler, Down!Held,
       DownP!Held, Down!Taken, DownP!Taken, Down!Part, DownP!Part,
       Down!Read, DownP!Read
<1>4. DownP!Frames = Down!Frames
  BY DEF Down!Frames, DownP!Frames, Down!Whole, DownP!Whole, Down!Chunk,
       DownP!Chunk
<1> QED BY <1>1, <1>2, <1>3, <1>4

LEMMA SameDownSteps ==
  /\ \A m \in Message : /\ DownP!SendWhole(m) <=> Down!SendWhole(m)
                        /\ DownP!StartChunks(m) <=> Down!StartChunks(m)
  /\ DownP!SendChunk <=> Down!SendChunk
  /\ DownP!BreakOff <=> Down!BreakOff
  /\ DownP!Receive <=> Down!Receive
BY DEF Down!SendWhole, DownP!SendWhole, Down!StartChunks,
       DownP!StartChunks, Down!SendChunk, DownP!SendChunk, Down!BreakOff,
       DownP!BreakOff, Down!Receive, DownP!Receive, Down!Room,
       DownP!Room, Down!Whole, DownP!Whole, Down!Chunk, DownP!Chunk,
       Down!Pushed, DownP!Pushed, Down!Push, DownP!Push, Down!Assembler,
       DownP!Assembler, Down!Held, DownP!Held, Down!Taken, DownP!Taken,
       Down!Part, DownP!Part, Down!Read, DownP!Read

LEMMA SameDownToCome ==
  \A m : DownP!ToCome(m) <=> Down!ToCome(m)
BY DEF Down!ToCome, DownP!ToCome, Down!Ends, DownP!Ends

LEMMA SameDownNext ==
  DownP!Next <=> Down!Next
BY SameDownSteps DEF Down!Next, DownP!Next

LEMMA SameUp ==
  /\ UpP!LinkInv <=> Up!LinkInv
  /\ UpP!NoSplice <=> Up!NoSplice
  /\ UpP!Received = Up!Received
  /\ UpP!Frames = Up!Frames
<1>1. UpP!LinkInv <=> Up!LinkInv
  BY DEF Up!LinkInv, UpP!LinkInv, Up!Orderly, UpP!Orderly, Up!LinkType,
       UpP!LinkType, Up!Frames, UpP!Frames, Up!Whole, UpP!Whole,
       Up!Chunk, UpP!Chunk, Up!HeldPrefix, UpP!HeldPrefix, Up!Parts,
       UpP!Parts, Up!WireInOrder, UpP!WireInOrder, Up!Preceded,
       UpP!Preceded, Up!WholeBetween, UpP!WholeBetween, Up!SenderInOrder,
       UpP!SenderInOrder
<1>2. UpP!NoSplice <=> Up!NoSplice
  BY DEF Up!NoSplice, UpP!NoSplice, Up!Received, UpP!Received, Up!Pushed,
       UpP!Pushed, Up!Push, UpP!Push, Up!Assembler, UpP!Assembler,
       Up!Held, UpP!Held, Up!Taken, UpP!Taken, Up!Part, UpP!Part,
       Up!Read, UpP!Read
<1>3. UpP!Received = Up!Received
  BY DEF Up!Received, UpP!Received, Up!Pushed, UpP!Pushed, Up!Push,
       UpP!Push, Up!Assembler, UpP!Assembler, Up!Held, UpP!Held,
       Up!Taken, UpP!Taken, Up!Part, UpP!Part, Up!Read, UpP!Read
<1>4. UpP!Frames = Up!Frames
  BY DEF Up!Frames, UpP!Frames, Up!Whole, UpP!Whole, Up!Chunk, UpP!Chunk
<1> QED BY <1>1, <1>2, <1>3, <1>4

LEMMA SameUpSteps ==
  /\ \A m \in Message : /\ UpP!SendWhole(m) <=> Up!SendWhole(m)
                        /\ UpP!StartChunks(m) <=> Up!StartChunks(m)
  /\ UpP!SendChunk <=> Up!SendChunk
  /\ UpP!BreakOff <=> Up!BreakOff
  /\ UpP!Receive <=> Up!Receive
BY DEF Up!SendWhole, UpP!SendWhole, Up!StartChunks, UpP!StartChunks,
       Up!SendChunk, UpP!SendChunk, Up!BreakOff, UpP!BreakOff,
       Up!Receive, UpP!Receive, Up!Room, UpP!Room, Up!Whole, UpP!Whole,
       Up!Chunk, UpP!Chunk, Up!Pushed, UpP!Pushed, Up!Push, UpP!Push,
       Up!Assembler, UpP!Assembler, Up!Held, UpP!Held, Up!Taken,
       UpP!Taken, Up!Part, UpP!Part, Up!Read, UpP!Read

LEMMA SameUpToCome ==
  \A m : UpP!ToCome(m) <=> Up!ToCome(m)
BY DEF Up!ToCome, UpP!ToCome, Up!Ends, UpP!Ends

LEMMA SameUpNext ==
  UpP!Next <=> Up!Next
BY SameUpSteps DEF Up!Next, UpP!Next

LEMMA SameDownDue ==
  DownP!Due = Down!Due /\ DownP!Completed = Down!Completed
<1>1. DownP!Due = Down!Due
  BY DEF Down!Due, DownP!Due, Down!Assembler, DownP!Assembler, Down!Push,
      DownP!Push, Down!Held, DownP!Held, Down!Taken, DownP!Taken, Down!Part,
      DownP!Part, Down!Read, DownP!Read
<1>2. DownP!Completed = Down!Completed
  BY DEF Down!Completed, DownP!Completed
<1> QED BY <1>1, <1>2

LEMMA SameUpDue ==
  UpP!Due = Up!Due /\ UpP!Completed = Up!Completed
<1>1. UpP!Due = Up!Due
  BY DEF Up!Due, UpP!Due, Up!Assembler, UpP!Assembler, Up!Push, UpP!Push,
      Up!Held, UpP!Held, Up!Taken, UpP!Taken, Up!Part, UpP!Part, Up!Read,
      UpP!Read
<1>2. UpP!Completed = Up!Completed
  BY DEF Up!Completed, UpP!Completed
<1> QED BY <1>1, <1>2

LEMMA LinksKept ==
  ASSUME LinkInv, [Down!Next]_down, [Up!Next]_up
  PROVE  LinkInv'
<1>1. DownP!LinkInv'
  BY Assumptions, SameDown, SameDownNext, DownP!LinkStep DEF LinkInv
<1>2. UpP!LinkInv'
  BY Assumptions, SameUp, SameUpNext, UpP!LinkStep DEF LinkInv
<1>3. (DownP!LinkInv <=> Down!LinkInv)' /\ (UpP!LinkInv <=> Up!LinkInv)'
  BY SameDown, SameUp, PTL
<1> QED BY <1>1, <1>2, <1>3 DEF LinkInv

----------------------------------------------------------------------------
(* Messages.                                                                 *)

LEMMA MessageTypes ==
  ASSUME TypeOK
  PROVE  /\ Note(1) \in Message /\ Note(2) \in Message
         /\ Note(1).type = "note" /\ Note(2).type = "note"
         /\ local \in Message /\ local.type = "offer"
         /\ answering # None => answering \in Message
         /\ None \notin Message
<1>1. MaxMids \in Nat \ {0, 1} /\ MaxOffers \in Nat
  BY RenegotiationAssumption
<1>2. None \notin Message
  BY LinkAssumption DEF Down!ChunkAssumption
<1>3. /\ local \in Description("offer")
      /\ answering # None => answering \in Description("answer")
  BY DEF TypeOK
<1> QED BY <1>1, <1>2, <1>3 DEF Note, Message, Description

(* The message that arrives is the one of the first frame.                   *)
LEMMA DownReceived ==
  ASSUME LinkInv, Down!Receive
  PROVE  /\ down.wire # <<>> /\ down.wire \in Seq(Down!Frames)
         /\ down'.wire = Tail(down.wire) /\ down'.sending = down.sending
         /\ Head(down.wire).msg \in Message
         /\ Down!Received \in {None, Head(down.wire).msg}
<1>1. DownP!LinkInv /\ DownP!Receive
  BY SameDown, SameDownSteps DEF LinkInv
<1>2. down.wire # <<>> /\ down'.wire = Tail(down.wire) /\ down'.sending = down.sending
  BY <1>1, DownP!ReceiveEffect
<1> QED
  BY <1>1, <1>2, Assumptions, SameDown, DownP!ReceivedShape, DownP!WireMessages

LEMMA UpReceived ==
  ASSUME LinkInv, Up!Receive
  PROVE  /\ up.wire # <<>> /\ up.wire \in Seq(Up!Frames)
         /\ up'.wire = Tail(up.wire) /\ up'.sending = up.sending
         /\ Head(up.wire).msg \in Message
         /\ Up!Received \in {None, Head(up.wire).msg}
<1>1. UpP!LinkInv /\ UpP!Receive
  BY SameUp, SameUpSteps DEF LinkInv
<1>2. up.wire # <<>> /\ up'.wire = Tail(up.wire) /\ up'.sending = up.sending
  BY <1>1, UpP!ReceiveEffect
<1> QED
  BY <1>1, <1>2, Assumptions, SameUp, UpP!ReceivedShape, UpP!WireMessages

(* Every step of the system is one of either channel, or leaves it alone.    *)
LEMMA ChannelSteps ==
  ASSUME TypeOK, Next
  PROVE  [Down!Next]_down /\ [Up!Next]_up
<1> USE MessageTypes
<1>1. CASE AddTrack \/ RemoveTrack
  BY <1>1 DEF AddTrack, RemoveTrack
<1>2. CASE Announce \/ Forwarder
  BY <1>2 DEF Announce, Forwarder, Down!Next
<1>3. CASE ClientSends
  BY <1>3 DEF ClientSends, Up!Next
<1>4. CASE Renegotiate
  BY <1>4 DEF Renegotiate
<1>5. CASE SendOffer
  BY <1>5 DEF SendOffer, Down!Next
<1>6. CASE HostChunk
  BY <1>6 DEF HostChunk, Down!Next
<1>7. CASE TakeAnswer \/ Timeout
  BY <1>7 DEF TakeAnswer, Timeout
<1>8. CASE SendFails
  BY <1>8 DEF SendFails, Down!Next
<1>9. CASE HostReceives
  BY <1>9 DEF HostReceives, Up!Next
<1>10. CASE ClientReceives
  BY <1>10 DEF ClientReceives, Down!Next
<1>11. CASE SendAnswer
  BY <1>11 DEF SendAnswer, Up!Next
<1>12. CASE ClientChunk
  BY <1>12 DEF ClientChunk, Up!Next
<1>13. CASE AnswerFails
  BY <1>13 DEF AnswerFails, Up!Next
<1> QED
  BY <1>1, <1>2, <1>3, <1>4, <1>5, <1>6, <1>7, <1>8, <1>9, <1>10, <1>11, <1>12, <1>13
  DEF Next, HostStep, ClientStep

----------------------------------------------------------------------------
(* Types.                                                                    *)

LEMMA TypeStep ==
  ASSUME TypeOK, LinkInv, Next
  PROVE  TypeOK'
<1> USE RenegotiationAssumption DEF TypeOK
<1>1. CASE AddTrack
  BY <1>1 DEF AddTrack, Sections, clientVars
<1>2. CASE RemoveTrack
  BY <1>2 DEF RemoveTrack, clientVars
<1>3. CASE Announce \/ Forwarder \/ ClientSends \/ ClientChunk
  BY <1>3 DEF Announce, Forwarder, ClientSends, ClientChunk, hostVars, clientVars
<1>4. CASE Renegotiate
  <2>1. Offer(local.gen + 1, mids) \in Description("offer") /\ local.gen + 1 \in 1..MaxOffers
    BY <1>4 DEF Renegotiate, Offer, Description
  <2>2. clean' \in BOOLEAN
    BY <1>4 DEF Renegotiate, Quiet
  <2>3. local'.gen = local.gen + 1
    BY <1>4 DEF Renegotiate, Offer
  <2> QED BY <1>4, <2>1, <2>2, <2>3 DEF Renegotiate, clientVars
<1>5. CASE SendOffer
  BY <1>5 DEF SendOffer, clientVars
<1>6. CASE HostChunk
  BY <1>6 DEF HostChunk, clientVars
<1>7. CASE TakeAnswer
  BY <1>7 DEF TakeAnswer, Fail, Discard, clientVars
<1>8. CASE Timeout
  BY <1>8 DEF Timeout, Fail, Discard, clientVars
<1>9. CASE SendFails
  BY <1>9 DEF SendFails, Fail, Discard, clientVars
<1>10. CASE HostReceives
  <2>1. /\ UNCHANGED <<mids, active, phase, local, remote, clean, described, answering>>
        /\ pending' \subseteq pending
        /\ inbox' # inbox => inbox' = Up!Received /\ Up!Received.type = "answer"
                             /\ Up!Received # None
    BY <1>10 DEF HostReceives, Pop, clientVars
  <2>2. Up!Received # None => Up!Received \in Message
    BY <1>10, UpReceived DEF HostReceives
  <2>3. inbox' \in Description("answer") \cup {None}
    BY <2>1, <2>2 DEF Message, Description
  <2> QED BY <2>1, <2>3
<1>11. CASE ClientReceives
  <2>1. /\ UNCHANGED <<mids, active, phase, local, remote, pending, inbox>>
        /\ clean' \in BOOLEAN
        /\ \/ UNCHANGED <<described, answering>>
           \/ /\ Down!Received # None /\ Down!Received.type = "offer"
              /\ described' = Down!Received
              /\ answering' \in {answering, Answer(Down!Received)}
    BY <1>11 DEF ClientReceives, clientVars
  <2>2. Down!Received # None => Down!Received \in Message
    BY <1>11, DownReceived DEF ClientReceives
  <2>3. \A m \in Message : m.type = "offer" =>
          m \in Description("offer") /\ Answer(m) \in Description("answer")
    BY DEF Message, Description, Answer
  <2> QED BY <2>1, <2>2, <2>3
<1>12. CASE SendAnswer
  BY <1>12 DEF SendAnswer, hostVars
<1>13. CASE AnswerFails
  BY <1>13 DEF AnswerFails, clientVars
<1> QED
  BY <1>1, <1>2, <1>3, <1>4, <1>5, <1>6, <1>7, <1>8, <1>9, <1>10, <1>11, <1>12, <1>13
  DEF Next, HostStep, ClientStep

----------------------------------------------------------------------------
(* The queue of pending answers.                                             *)

LEMMA QueueStep ==
  ASSUME TypeOK, OneEntry, Next
  PROVE  OneEntry'
<1> USE DEF OneEntry, NoDeadEntry
<1>1. CASE AddTrack \/ RemoveTrack \/ Announce \/ Forwarder \/ ClientSends
  BY <1>1 DEF AddTrack, RemoveTrack, Announce, Forwarder, ClientSends, hostVars
<1>2. CASE Renegotiate
  BY <1>2 DEF Renegotiate, Loop
<1>3. CASE SendOffer \/ HostChunk
  BY <1>3 DEF SendOffer, HostChunk
<1>4. CASE TakeAnswer \/ Timeout \/ SendFails
  BY <1>4 DEF TakeAnswer, Timeout, SendFails, Fail, Discard
<1>5. CASE HostReceives
  BY <1>5 DEF HostReceives, Pop
<1>6. CASE ClientReceives \/ SendAnswer \/ ClientChunk \/ AnswerFails
  BY <1>6 DEF ClientReceives, SendAnswer, ClientChunk, AnswerFails, hostVars
<1> QED BY <1>1, <1>2, <1>3, <1>4, <1>5, <1>6 DEF Next, HostStep, ClientStep

----------------------------------------------------------------------------
(* Offers travel in order, and lead to the last one.                         *)

LEMMA OffersAppend ==
  ASSUME NEW S, NEW wire \in Seq(S), NEW frame \in S,
         \A i \in DOMAIN wire : wire[i].msg.mids \in Nat,
         NEW low \in Nat, NEW high \in Nat, low <= high,
         OffersLead(wire, low, high),
         frame.msg.type = "offer" => frame.msg.mids = high
  PROVE  OffersLead(Append(wire, frame), low, high)
<1>1. /\ Len(wire) \in Nat /\ DOMAIN wire = 1..Len(wire)
      /\ DOMAIN Append(wire, frame) = 1..Len(wire) + 1
      /\ \A i \in 1..Len(wire) : Append(wire, frame)[i] = wire[i]
      /\ Append(wire, frame)[Len(wire) + 1] = frame
  BY AppendProperties
<1>2. ASSUME NEW i \in 1..Len(wire) + 1, Append(wire, frame)[i].msg.type = "offer"
      PROVE  /\ low <= Append(wire, frame)[i].msg.mids
             /\ Append(wire, frame)[i].msg.mids <= high
  BY <1>1, <1>2 DEF OffersLead
<1>3. ASSUME NEW i \in 1..Len(wire) + 1, NEW j \in 1..Len(wire) + 1, i < j,
             Append(wire, frame)[i].msg.type = "offer",
             Append(wire, frame)[j].msg.type = "offer"
      PROVE  Append(wire, frame)[i].msg.mids <= Append(wire, frame)[j].msg.mids
  <2>1. i \in 1..Len(wire)
    BY <1>1, <1>3
  <2>2. CASE j \in 1..Len(wire)
    BY <1>1, <1>3, <2>1, <2>2 DEF OffersLead
  <2>3. CASE j = Len(wire) + 1
    BY <1>1, <1>2, <1>3, <2>3
  <2> QED BY <1>1, <2>2, <2>3
<1> QED BY <1>1, <1>2, <1>3 DEF OffersLead

LEMMA OffersRaise ==
  ASSUME NEW wire, \A i \in DOMAIN wire : wire[i].msg.mids \in Nat,
         NEW low, NEW high \in Nat, NEW higher \in Nat, high <= higher,
         OffersLead(wire, low, high)
  PROVE  OffersLead(wire, low, higher)
BY DEF OffersLead

(* The first offer is the least.                                             *)
LEMMA OffersTail ==
  ASSUME NEW S, NEW wire \in Seq(S), wire # <<>>,
         \A i \in DOMAIN wire : wire[i].msg.mids \in Nat,
         NEW low, NEW high, OffersLead(wire, low, high)
  PROVE  /\ OffersLead(Tail(wire), low, high)
         /\ Head(wire).msg.type = "offer" =>
              /\ OffersLead(Tail(wire), Head(wire).msg.mids, high)
              /\ low <= Head(wire).msg.mids /\ Head(wire).msg.mids <= high
<1>1. /\ Len(wire) \in Nat \ {0} /\ DOMAIN wire = 1..Len(wire)
      /\ DOMAIN Tail(wire) = 1..Len(wire) - 1
      /\ \A i \in 1..Len(wire) - 1 : Tail(wire)[i] = wire[i + 1]
      /\ Head(wire) = wire[1]
  BY HeadTailProperties
<1>2. OffersLead(Tail(wire), low, high)
  <2> DEFINE tail == Tail(wire)
  <2>1. \A i \in DOMAIN tail : i + 1 \in DOMAIN wire /\ tail[i] = wire[i + 1] /\ i \in Int
    BY <1>1
  <2>2. \A i, j \in DOMAIN tail : i < j => i + 1 < j + 1
    BY <1>1
  <2> HIDE DEF tail
  <2>3. OffersLead(tail, low, high)
    BY <2>1, <2>2 DEF OffersLead
  <2> QED BY <2>3 DEF tail
<1>3. ASSUME Head(wire).msg.type = "offer"
      PROVE  OffersLead(Tail(wire), Head(wire).msg.mids, high)
  <2>1. ASSUME NEW i \in 1..Len(wire) - 1, wire[i + 1].msg.type = "offer"
        PROVE  wire[1].msg.mids <= wire[i + 1].msg.mids
    BY <1>1, <1>3, <2>1 DEF OffersLead
  <2> QED BY <1>1, <1>2, <1>3, <2>1 DEF OffersLead
<1>4. Head(wire).msg.type = "offer" =>
        low <= Head(wire).msg.mids /\ Head(wire).msg.mids <= high
  BY <1>1 DEF OffersLead
<1> QED BY <1>2, <1>3, <1>4

LEMMA AnswersAppend ==
  ASSUME NEW S, NEW wire \in Seq(S), NEW frame \in S, NEW high,
         AnswersFollow(wire, high),
         frame.msg.type = "answer" => frame.msg.mids <= high
  PROVE  AnswersFollow(Append(wire, frame), high)
BY AppendProperties DEF AnswersFollow

LEMMA AnswersTail ==
  ASSUME NEW S, NEW wire \in Seq(S), wire # <<>>, NEW high, AnswersFollow(wire, high)
  PROVE  /\ AnswersFollow(Tail(wire), high)
         /\ Head(wire).msg.type = "answer" => Head(wire).msg.mids <= high
BY HeadTailProperties DEF AnswersFollow

LEMMA AnswersRaise ==
  ASSUME NEW wire, \A i \in DOMAIN wire : wire[i].msg.mids \in Nat,
         NEW high \in Nat, NEW higher \in Nat, high <= higher,
         AnswersFollow(wire, high)
  PROVE  AnswersFollow(wire, higher)
BY DEF AnswersFollow

(* What the steps of the channels do, in these terms.                        *)
LEMMA Numbers ==
  ASSUME TypeOK, LinkInv
  PROVE  /\ mids \in Nat /\ local.mids \in Nat /\ described.mids \in Nat
         /\ inbox # None => inbox.mids \in Nat
         /\ answering # None => answering.mids \in Nat
         /\ down.wire \in Seq(Down!Frames) /\ up.wire \in Seq(Up!Frames)
         /\ \A i \in DOMAIN down.wire : down.wire[i].msg.mids \in Nat
         /\ \A i \in DOMAIN up.wire : up.wire[i].msg.mids \in Nat
         /\ up.sending # None => up.sending.msg.mids \in Nat
<1>1. \A m \in Message : m.mids \in Nat
  BY RenegotiationAssumption DEF Message
<1>2. DownP!LinkInv /\ UpP!LinkInv
  BY SameDown, SameUp DEF LinkInv
<1>3. /\ down.wire \in Seq(Down!Frames)
      /\ \A i \in DOMAIN down.wire : down.wire[i].msg \in Message
  BY <1>2, Assumptions, SameDown, DownP!WireMessages
<1>4. /\ up.wire \in Seq(Up!Frames)
      /\ \A i \in DOMAIN up.wire : up.wire[i].msg \in Message
      /\ up.sending # None => up.sending.msg \in Message
  BY <1>2, Assumptions, SameUp, UpP!WireMessages
<1> QED BY <1>1, <1>3, <1>4, RenegotiationAssumption DEF TypeOK, Description

LEMMA DownSends ==
  ASSUME LinkInv, NEW m \in Message, Down!SendWhole(m) \/ Down!StartChunks(m)
  PROVE  /\ \E frame \in Down!Frames :
              frame.msg = m /\ down'.wire = Append(down.wire, frame)
         /\ down'.sending # None => down'.sending.msg = m \/ down'.sending = down.sending
BY Assumptions, SameDown, SameDownSteps, DownP!SendEffect DEF LinkInv

LEMMA DownContinues ==
  ASSUME LinkInv, Down!SendChunk
  PROVE  /\ down.sending # None
         /\ \E frame \in Down!Frames :
              frame.msg = down.sending.msg /\ down'.wire = Append(down.wire, frame)
         /\ down'.sending # None => down'.sending.msg = down.sending.msg
BY Assumptions, SameDown, SameDownSteps, DownP!ChunkEffect DEF LinkInv

LEMMA UpSends ==
  ASSUME LinkInv, NEW m \in Message, Up!SendWhole(m) \/ Up!StartChunks(m)
  PROVE  /\ \E frame \in Up!Frames :
              frame.msg = m /\ up'.wire = Append(up.wire, frame)
         /\ up'.sending # None => up'.sending.msg = m \/ up'.sending = up.sending
BY Assumptions, SameUp, SameUpSteps, UpP!SendEffect DEF LinkInv

LEMMA UpContinues ==
  ASSUME LinkInv, Up!SendChunk
  PROVE  /\ up.sending # None
         /\ \E frame \in Up!Frames :
              frame.msg = up.sending.msg /\ up'.wire = Append(up.wire, frame)
         /\ up'.sending # None => up'.sending.msg = up.sending.msg
BY Assumptions, SameUp, SameUpSteps, UpP!ChunkEffect DEF LinkInv

LEMMA OffersStep ==
  ASSUME TypeOK, LinkInv, OffersInOrder, Next
  PROVE  OffersInOrder'
<1> USE MessageTypes, Numbers
<1> DEFINE Lead == OffersLead(down.wire, described.mids, local.mids)
           Sending == down.sending # None /\ down.sending.msg.type = "offer"
                        => down.sending.msg = local
<1>1. /\ local.mids <= mids /\ described.mids <= local.mids
      /\ phase # "idle" => local.mids = mids
      /\ Lead /\ Sending
  BY DEF OffersInOrder
<1>2. ASSUME NEW m \in Message, Down!SendWhole(m) \/ Down!StartChunks(m),
             m.type = "note" \/ m = local, UNCHANGED <<local, described>>
      PROVE  Lead' /\ Sending'
  <2>1. PICK frame \in Down!Frames :
          frame.msg = m /\ down'.wire = Append(down.wire, frame)
    BY <1>2, DownSends
  <2>2. OffersLead(Append(down.wire, frame), described.mids, local.mids)
    BY <1>1, <1>2, <2>1, OffersAppend
  <2>3. Sending'
    BY <1>1, <1>2, DownSends
  <2> QED BY <1>2, <2>1, <2>2, <2>3
<1>3. CASE AddTrack
  <2>1. mids' >= mids /\ phase' = "idle" /\ UNCHANGED <<down, local, described>>
    BY <1>3 DEF AddTrack, Sections, Loop, clientVars
  <2>2. mids' \in Nat
    BY <1>3 DEF AddTrack, Sections
  <2> QED BY <1>1, <2>1, <2>2 DEF OffersInOrder
<1>4. CASE RemoveTrack \/ ClientSends \/ SendAnswer \/ ClientChunk \/ AnswerFails
  BY <1>1, <1>4
  DEF RemoveTrack, ClientSends, SendAnswer, ClientChunk, AnswerFails, hostVars,
      clientVars, OffersInOrder
<1>5. CASE Announce
  <2>1. Lead' /\ Sending'
    BY <1>2, <1>5 DEF Announce, hostVars, clientVars
  <2> QED BY <1>1, <1>5, <2>1 DEF Announce, hostVars, clientVars, OffersInOrder
<1>6. CASE Forwarder
  <2>1. Lead' /\ Sending'
    BY <1>2, <1>6 DEF Forwarder, hostVars, clientVars
  <2> QED BY <1>1, <1>6, <2>1 DEF Forwarder, hostVars, clientVars, OffersInOrder
<1>7. CASE Renegotiate
  <2>1. /\ local'.mids = mids /\ mids' = mids
        /\ down' = down /\ described' = described /\ down.sending = None
    BY <1>7 DEF Renegotiate, Offer, Loop, clientVars
  <2>2. OffersLead(down.wire, described.mids, mids)
    BY <1>1, OffersRaise
  <2> QED BY <1>1, <2>1, <2>2 DEF OffersInOrder
<1>8. CASE SendOffer
  <2>1. Lead' /\ Sending'
    BY <1>2, <1>8 DEF SendOffer, clientVars
  <2>2. phase # "idle" /\ UNCHANGED <<mids, local, described>>
    BY <1>8 DEF SendOffer, clientVars
  <2> QED BY <1>1, <2>1, <2>2 DEF OffersInOrder
<1>9. CASE HostChunk
  <2>1. /\ Down!SendChunk /\ UNCHANGED <<mids, local, described>>
        /\ phase' # "idle" => phase # "idle"
    BY <1>9 DEF HostChunk, clientVars
  <2>2. PICK frame \in Down!Frames :
          frame.msg = down.sending.msg /\ down'.wire = Append(down.wire, frame)
    BY <2>1, DownContinues
  <2>3. down.sending # None /\ (down'.sending # None => down'.sending.msg = down.sending.msg)
    BY <2>1, DownContinues
  <2>4. OffersLead(Append(down.wire, frame), described.mids, local.mids)
    BY <1>1, <2>2, <2>3, OffersAppend
  <2>5. Sending'
    BY <1>1, <2>1, <2>3
  <2> QED BY <1>1, <2>1, <2>2, <2>4, <2>5 DEF OffersInOrder
<1>10. CASE TakeAnswer \/ Timeout
  <2>1. /\ UNCHANGED <<down, mids, local, described>>
        /\ phase' = "idle"
    BY <1>10 DEF TakeAnswer, Timeout, Fail, clientVars
  <2> QED BY <1>1, <2>1 DEF OffersInOrder
<1>11. CASE SendFails
  <2>1. /\ UNCHANGED <<mids, local, described>>
        /\ Down!BreakOff \/ UNCHANGED down
        /\ phase' # "idle" => phase # "idle"
    BY <1>11 DEF SendFails, Fail, clientVars
  <2>2. down'.wire = down.wire /\ (down' = down \/ down'.sending = None)
    BY <2>1, SameDown, SameDownSteps, DownP!BreakEffect DEF LinkInv
  <2> QED BY <1>1, <2>1, <2>2 DEF OffersInOrder
<1>12. CASE HostReceives
  BY <1>1, <1>12 DEF HostReceives, clientVars, OffersInOrder
<1>13. CASE ClientReceives
  <2>1. /\ UNCHANGED <<mids, phase, local>>
        /\ \/ UNCHANGED described
           \/ /\ Down!Received # None /\ Down!Received.type = "offer"
              /\ described' = Down!Received
    BY <1>13 DEF ClientReceives, clientVars
  <2>2. /\ down.wire # <<>> /\ down'.wire = Tail(down.wire)
        /\ down'.sending = down.sending
        /\ Down!Received \in {None, Head(down.wire).msg}
    BY <1>13, DownReceived DEF ClientReceives
  <2>3. /\ OffersLead(Tail(down.wire), described.mids, local.mids)
        /\ Head(down.wire).msg.type = "offer" =>
             /\ OffersLead(Tail(down.wire), Head(down.wire).msg.mids, local.mids)
             /\ Head(down.wire).msg.mids <= local.mids
    BY <1>1, <2>2, OffersTail
  <2>4. described'.mids <= local.mids /\ Lead'
    BY <1>1, <2>1, <2>2, <2>3
  <2>5. Sending'
    BY <1>1, <2>1, <2>2
  <2> QED BY <1>1, <2>1, <2>4, <2>5 DEF OffersInOrder
<1> HIDE DEF Lead, Sending
<1> QED
  BY <1>3, <1>4, <1>5, <1>6, <1>7, <1>8, <1>9, <1>10, <1>11, <1>12, <1>13
  DEF Next, HostStep, ClientStep

(* No answer is ahead of the client, which only moves forward.               *)
LEMMA AnswersStep ==
  ASSUME TypeOK, LinkInv, OffersInOrder, AnswersBehind, Next
  PROVE  AnswersBehind'
<1> USE MessageTypes, Numbers
<1> DEFINE Follow == AnswersFollow(up.wire, described.mids)
           Sending == up.sending # None => up.sending.msg.mids <= described.mids
           Rest == /\ answering # None => answering.mids <= described.mids
                   /\ inbox # None => inbox.mids <= described.mids
<1>1. Follow /\ Sending /\ Rest
  BY DEF AnswersBehind
<1>2. ASSUME NEW m \in Message, Up!SendWhole(m) \/ Up!StartChunks(m),
             (m.type = "note" /\ Up!SendWhole(m)) \/ m.mids <= described.mids,
             UNCHANGED described
      PROVE  Follow' /\ Sending'
  <2>1. PICK frame \in Up!Frames : frame.msg = m /\ up'.wire = Append(up.wire, frame)
    BY <1>2, UpSends
  <2>2. AnswersFollow(Append(up.wire, frame), described.mids)
    BY <1>1, <1>2, <2>1, AnswersAppend
  <2>3. up'.sending # None => up'.sending.msg = m \/ up'.sending = up.sending
    BY <1>2, UpSends
  <2>4. CASE m.mids <= described.mids
    BY <1>1, <1>2, <2>1, <2>2, <2>3, <2>4
  <2>5. CASE Up!SendWhole(m)
    <3>1. up'.sending = up.sending
      BY <2>5, SameUp, SameUpSteps, UpP!WholeEffect DEF LinkInv
    <3> QED BY <1>1, <1>2, <2>1, <2>2, <3>1
  <2> QED BY <1>2, <2>4, <2>5
<1>3. CASE AddTrack \/ RemoveTrack \/ Announce \/ Forwarder \/ SendOffer \/ HostChunk \/ SendFails
  BY <1>1, <1>3
  DEF AddTrack, RemoveTrack, Announce, Forwarder, SendOffer, HostChunk, SendFails,
      hostVars, clientVars, AnswersBehind
<1>4. CASE Renegotiate \/ TakeAnswer \/ Timeout
  BY <1>1, <1>4 DEF Renegotiate, TakeAnswer, Timeout, clientVars, AnswersBehind
<1>5. CASE ClientSends
  <2>1. Follow' /\ Sending'
    BY <1>2, <1>5 DEF ClientSends, clientVars
  <2> QED BY <1>1, <1>5, <2>1 DEF ClientSends, clientVars, AnswersBehind
<1>6. CASE HostReceives
  <2>1. /\ UNCHANGED <<described, answering>>
        /\ inbox' # inbox => inbox' = Up!Received /\ Up!Received.type = "answer"
                             /\ Up!Received # None
    BY <1>6 DEF HostReceives, Pop, clientVars
  <2>2. /\ up.wire # <<>> /\ up'.wire = Tail(up.wire) /\ up'.sending = up.sending
        /\ Up!Received \in {None, Head(up.wire).msg}
    BY <1>6, UpReceived DEF HostReceives
  <2>3. /\ AnswersFollow(Tail(up.wire), described.mids)
        /\ Head(up.wire).msg.type = "answer" => Head(up.wire).msg.mids <= described.mids
    BY <1>1, <2>2, AnswersTail
  <2> QED BY <1>1, <2>1, <2>2, <2>3 DEF AnswersBehind
<1>7. CASE ClientReceives
  <2>1. /\ UNCHANGED <<up, inbox>> /\ answering = None /\ up.sending = None
        /\ \/ UNCHANGED <<described, answering>>
           \/ /\ Down!Received # None /\ Down!Received.type = "offer"
              /\ described' = Down!Received
              /\ answering' \in {None, Answer(Down!Received)}
    BY <1>7 DEF ClientReceives, clientVars
  <2>2. CASE UNCHANGED <<described, answering>>
    BY <1>1, <2>1, <2>2 DEF AnswersBehind
  <2>3. CASE /\ Down!Received # None /\ Down!Received.type = "offer"
             /\ described' = Down!Received
             /\ answering' \in {None, Answer(Down!Received)}
    <3>1. /\ down.wire # <<>> /\ Head(down.wire).msg \in Message
          /\ Down!Received = Head(down.wire).msg
      BY <1>7, <2>3, DownReceived DEF ClientReceives
    <3>2. described.mids <= Head(down.wire).msg.mids
      BY <2>3, <3>1, OffersTail DEF OffersInOrder
    <3>3. described.mids <= described'.mids /\ described'.mids \in Nat
      BY <2>3, <3>1, <3>2, RenegotiationAssumption DEF Message
    <3>4. answering' # None => answering'.mids = described'.mids
      BY <2>3, <3>1 DEF Answer, Message
    <3>5. AnswersFollow(up.wire, described'.mids)
      BY <1>1, <3>3, AnswersRaise
    <3>6. inbox # None => inbox.mids <= described'.mids
      BY <1>1, <3>3
    <3> QED BY <2>1, <3>3, <3>4, <3>5, <3>6 DEF AnswersBehind
  <2> QED BY <2>1, <2>2, <2>3
<1>8. CASE SendAnswer
  <2>1. Follow' /\ Sending'
    BY <1>1, <1>2, <1>8 DEF SendAnswer
  <2> QED BY <1>1, <1>8, <2>1 DEF SendAnswer, AnswersBehind
<1>9. CASE ClientChunk
  <2>1. Up!SendChunk /\ UNCHANGED <<described, answering, inbox>>
    BY <1>9 DEF ClientChunk, clientVars
  <2>2. PICK frame \in Up!Frames :
          frame.msg = up.sending.msg /\ up'.wire = Append(up.wire, frame)
    BY <2>1, UpContinues
  <2>3. up.sending # None /\ (up'.sending # None => up'.sending.msg = up.sending.msg)
    BY <2>1, UpContinues
  <2>4. AnswersFollow(Append(up.wire, frame), described.mids)
    BY <1>1, <2>2, <2>3, AnswersAppend
  <2> QED BY <1>1, <2>1, <2>2, <2>3, <2>4 DEF AnswersBehind
<1>10. CASE AnswerFails
  <2>1. /\ UNCHANGED <<described, inbox>>
        /\ \/ answering' = None /\ up' = up
           \/ Up!BreakOff /\ answering' = answering
    BY <1>10 DEF AnswerFails
  <2>2. Up!BreakOff => up'.wire = up.wire /\ up'.sending = None
    BY SameUp, SameUpSteps, UpP!BreakEffect DEF LinkInv
  <2> QED BY <1>1, <2>1, <2>2 DEF AnswersBehind
<1> HIDE DEF Follow, Sending, Rest
<1> QED
  BY <1>3, <1>4, <1>5, <1>6, <1>7, <1>8, <1>9, <1>10 DEF Next, HostStep, ClientStep

----------------------------------------------------------------------------
(* The invariant.                                                            *)

LEMMA RenegotiationInit ==
  Init => RenegotiationInv
<1> SUFFICES ASSUME Init PROVE RenegotiationInv
  OBVIOUS
<1> USE RenegotiationAssumption
<1>1. /\ DownP!Init /\ UpP!Init
      /\ DownP!Init <=> Down!Init
  BY DEF Init, Down!Init, DownP!Init, Up!Init, UpP!Init
<1>2. LinkInv
  BY <1>1, Assumptions, DownP!LinkInit, UpP!LinkInit, SameDown, SameUp DEF LinkInv
<1>3. TypeOK
  <2>1. /\ Offer(0, 1) \in Description("offer")
        /\ Answer(Offer(0, 1)) \in Description("answer")
    BY DEF Offer, Answer, Description
  <2>2. local = Offer(0, 1) /\ described = Offer(0, 1) /\ remote = Answer(Offer(0, 1))
    BY DEF Init
  <2>3. /\ mids = 1 /\ active = 0 /\ phase = "idle" /\ pending = {} /\ inbox = None
        /\ answering = None /\ clean = FALSE
    BY DEF Init
  <2>4. mids \in 1..MaxMids /\ active \in 0..mids - 1
    BY <2>3
  <2>5. /\ phase \in {"idle", "offering", "chunking", "waiting"}
        /\ pending \subseteq 1..MaxOffers
        /\ inbox \in Description("answer") \cup {None}
        /\ answering \in Description("answer") \cup {None} /\ clean \in BOOLEAN
    BY <2>3
  <2>6. /\ local \in Description("offer") /\ described \in Description("offer")
        /\ remote \in Description("answer")
    BY <2>1, <2>2
  <2> QED BY <2>4, <2>5, <2>6 DEF TypeOK
<1>4. OneEntry
  BY DEF Init, OneEntry, NoDeadEntry
<1>5. /\ down.wire = <<>> /\ down.sending = None /\ up.wire = <<>> /\ up.sending = None
      /\ local.mids = 1 /\ described.mids = 1 /\ mids = 1 /\ phase = "idle"
      /\ answering = None /\ inbox = None
  BY DEF Init, Down!Init, Up!Init, Offer
<1>6. OffersInOrder
  BY <1>5 DEF OffersInOrder, OffersLead
<1>7. AnswersBehind
  BY <1>5 DEF AnswersBehind, AnswersFollow
<1> QED BY <1>2, <1>3, <1>4, <1>6, <1>7 DEF RenegotiationInv

LEMMA RenegotiationStep ==
  RenegotiationInv /\ [Next]_vars => RenegotiationInv'
<1> SUFFICES ASSUME RenegotiationInv, [Next]_vars PROVE RenegotiationInv'
  OBVIOUS
<1>1. TypeOK /\ LinkInv /\ OneEntry /\ OffersInOrder /\ AnswersBehind
  BY DEF RenegotiationInv
<1>2. CASE Next
  <2>1. LinkInv'
    BY <1>1, <1>2, ChannelSteps, LinksKept
  <2> QED
    BY <1>1, <1>2, <2>1, TypeStep, QueueStep, OffersStep, AnswersStep
    DEF RenegotiationInv
<1>3. CASE UNCHANGED vars
  <2>1. LinkInv'
    BY <1>1, <1>3, LinksKept DEF vars
  <2>2. TypeOK' /\ OneEntry'
    BY <1>1, <1>3 DEF vars, TypeOK, OneEntry, NoDeadEntry
  <2>3. OffersInOrder' /\ AnswersBehind'
    BY <1>1, <1>3 DEF vars, OffersInOrder, AnswersBehind
  <2> QED BY <2>1, <2>2, <2>3 DEF RenegotiationInv
<1> QED BY <1>2, <1>3

LEMMA InvariantHolds ==
  Spec => []RenegotiationInv
BY RenegotiationInit, RenegotiationStep, PTL DEF Spec

----------------------------------------------------------------------------
(* A call that nothing disturbs gets its answer.                             *)

(* What is said of messages to come holds for the channel to the client.    *)
LEMMA DownToCome ==
  ASSUME LinkInv, NEW m \in Message
  PROVE  /\ Down!SendWhole(m) \/ Down!StartChunks(m) => Down!ToCome(m)'
         /\ Down!SendChunk /\ down.sending.msg = m => Down!ToCome(m)'
         /\ Down!ToCome(m) /\ (Down!SendChunk \/ \E k \in Message : Down!SendWhole(k) \/ Down!StartChunks(k))
              => Down!ToCome(m)'
         /\ Down!ToCome(m) /\ Down!Receive => Down!Received = m \/ Down!ToCome(m)'
<1>1. DownP!LinkInv /\ DownP!ChunkAssumption
  BY SameDown, Assumptions DEF LinkInv
<1>2. DownP!ToCome(m)' <=> Down!ToCome(m)'
  BY DEF Down!ToCome, DownP!ToCome, Down!Ends, DownP!Ends
<1>3. ASSUME Down!SendWhole(m) \/ Down!StartChunks(m) PROVE Down!ToCome(m)'
  BY <1>1, <1>2, <1>3, SameDownSteps, DownP!SentIsToCome
<1>4. ASSUME Down!SendChunk, down.sending.msg = m PROVE Down!ToCome(m)'
  BY <1>1, <1>2, <1>4, SameDownSteps, DownP!ContinuedIsToCome
<1>5. ASSUME Down!ToCome(m), Down!SendChunk \/ \E k \in Message : Down!SendWhole(k) \/ Down!StartChunks(k)
      PROVE  Down!ToCome(m)'
  <2>1. DownP!SendChunk \/ \E k \in Message : DownP!SendWhole(k) \/ DownP!StartChunks(k)
    BY <1>5, SameDownSteps
  <2>2. DownP!ToCome(m)
    BY <1>5, SameDownToCome
  <2> QED BY <1>1, <1>2, <2>1, <2>2, DownP!ToComeStays
<1>6. ASSUME Down!ToCome(m), Down!Receive PROVE Down!Received = m \/ Down!ToCome(m)'
  <2>1. DownP!Receive /\ DownP!ToCome(m)
    BY <1>6, SameDownSteps, SameDownToCome
  <2>2. DownP!Received = m \/ DownP!ToCome(m)'
    BY <1>1, <2>1, DownP!ToComeReceived
  <2> QED BY <1>2, <2>2, SameDown
<1> QED BY <1>3, <1>4, <1>5, <1>6

(* What is said of messages to come holds for the channel from the client.  *)
LEMMA UpToCome ==
  ASSUME LinkInv, NEW m \in Message
  PROVE  /\ Up!SendWhole(m) \/ Up!StartChunks(m) => Up!ToCome(m)'
         /\ Up!SendChunk /\ up.sending.msg = m => Up!ToCome(m)'
         /\ Up!ToCome(m) /\ (Up!SendChunk \/ \E k \in Message : Up!SendWhole(k) \/ Up!StartChunks(k))
              => Up!ToCome(m)'
         /\ Up!ToCome(m) /\ Up!Receive => Up!Received = m \/ Up!ToCome(m)'
<1>1. UpP!LinkInv /\ UpP!ChunkAssumption
  BY SameUp, Assumptions DEF LinkInv
<1>2. UpP!ToCome(m)' <=> Up!ToCome(m)'
  BY DEF Up!ToCome, UpP!ToCome, Up!Ends, UpP!Ends
<1>3. ASSUME Up!SendWhole(m) \/ Up!StartChunks(m) PROVE Up!ToCome(m)'
  BY <1>1, <1>2, <1>3, SameUpSteps, UpP!SentIsToCome
<1>4. ASSUME Up!SendChunk, up.sending.msg = m PROVE Up!ToCome(m)'
  BY <1>1, <1>2, <1>4, SameUpSteps, UpP!ContinuedIsToCome
<1>5. ASSUME Up!ToCome(m), Up!SendChunk \/ \E k \in Message : Up!SendWhole(k) \/ Up!StartChunks(k)
      PROVE  Up!ToCome(m)'
  <2>1. UpP!SendChunk \/ \E k \in Message : UpP!SendWhole(k) \/ UpP!StartChunks(k)
    BY <1>5, SameUpSteps
  <2>2. UpP!ToCome(m)
    BY <1>5, SameUpToCome
  <2> QED BY <1>1, <1>2, <2>1, <2>2, UpP!ToComeStays
<1>6. ASSUME Up!ToCome(m), Up!Receive PROVE Up!Received = m \/ Up!ToCome(m)'
  <2>1. UpP!Receive /\ UpP!ToCome(m)
    BY <1>6, SameUpSteps, SameUpToCome
  <2>2. UpP!Received = m \/ UpP!ToCome(m)'
    BY <1>1, <2>1, UpP!ToComeReceived
  <2> QED BY <1>2, <2>2, SameUp
<1> QED BY <1>3, <1>4, <1>5, <1>6

LEMMA AnswerShape ==
  ASSUME TypeOK
  PROVE  /\ Answer(local) \in Message /\ Answer(local) # None
         /\ Answer(local).type = "answer"
<1>1. local \in Description("offer")
  BY DEF TypeOK
<1>2. Answer(local) \in Message /\ Answer(local).type = "answer"
  BY <1>1 DEF Answer, Description, Message
<1> QED BY <1>2, MessageTypes

LEMMA OfThisCallAppend ==
  ASSUME NEW S, NEW wire \in Seq(S), NEW frame \in S, NEW m, OfThisCall(wire, m),
         frame.msg.type # "note" => frame.msg = m
  PROVE  OfThisCall(Append(wire, frame), m)
BY AppendProperties DEF OfThisCall

LEMMA OfThisCallTail ==
  ASSUME NEW S, NEW wire \in Seq(S), wire # <<>>, NEW m, OfThisCall(wire, m)
  PROVE  /\ OfThisCall(Tail(wire), m)
         /\ Head(wire).msg.type # "note" => Head(wire).msg = m
BY HeadTailProperties DEF OfThisCall

LEMMA CallStep ==
  ASSUME TypeOK, LinkInv, OneEntry, CallUnderWay, Next
  PROVE  CallUnderWay'
<1> USE MessageTypes DEF CallUnderWay
<1>1. CASE AddTrack \/ RemoveTrack
  BY <1>1 DEF AddTrack, RemoveTrack, Loop
<1>2. CASE Announce
  BY <1>2 DEF Announce, Loop, hostVars
<1>3. CASE Forwarder
  <2>1. down'.sending = down.sending
    BY <1>3, SameDown, SameDownSteps, DownP!WholeEffect DEF Forwarder, LinkInv
  <2> QED BY <1>3, <2>1 DEF Forwarder, hostVars
<1>4. CASE Renegotiate
  BY <1>4 DEF Renegotiate, Loop, OneEntry, NoDeadEntry
<1>5. CASE SendOffer
  <2>1. phase = "offering" /\ UNCHANGED <<local, pending, inbox>>
    BY <1>5 DEF SendOffer
  <2>2. CASE Down!SendWhole(local) /\ phase' = "waiting"
    <3>1. down'.sending = down.sending
      BY <2>2, SameDown, SameDownSteps, DownP!WholeEffect DEF LinkInv
    <3> QED BY <2>1, <2>2, <3>1
  <2>3. CASE Down!StartChunks(local) /\ phase' = "chunking"
    <3>1. down'.sending = [msg |-> local, seq |-> 1]
      BY <2>3, SameDown, SameDownSteps, DownP!StartEffect DEF LinkInv
    <3>2. [msg |-> local, seq |-> 1] # None
      BY LinkAssumption DEF Down!ChunkAssumption
    <3> QED BY <2>1, <2>3, <3>1, <3>2
  <2> QED BY <1>5, <2>2, <2>3 DEF SendOffer
<1>6. CASE HostChunk
  <2>1. /\ Down!SendChunk /\ UNCHANGED <<local, pending, inbox>>
        /\ phase' = IF phase = "chunking" /\ down'.sending = None THEN "waiting" ELSE phase
    BY <1>6 DEF HostChunk
  <2>2. down.sending # None /\ (down'.sending # None => down'.sending.msg = down.sending.msg)
    BY <2>1, DownContinues
  <2> QED BY <2>1, <2>2
<1>7. CASE TakeAnswer \/ Timeout \/ SendFails
  <2>1. phase' = "idle"
    BY <1>7 DEF TakeAnswer, Timeout, SendFails, Fail
  <2> QED BY <2>1
<1>8. CASE HostReceives
  <2>1. /\ UNCHANGED <<down, phase, local>>
        /\ \/ UNCHANGED <<pending, inbox>>
           \/ Up!Received # None /\ Pop(Up!Received)
    BY <1>8 DEF HostReceives
  <2>2. ASSUME Up!Received # None, Pop(Up!Received), phase # "idle"
        PROVE  inbox' # None
    BY <2>2 DEF Pop, OneEntry, NoDeadEntry
  <2> QED BY <2>1, <2>2
<1>9. CASE ClientReceives
  <2>1. down'.sending = down.sending /\ UNCHANGED <<phase, local, pending, inbox>>
    BY <1>9, DownReceived DEF ClientReceives
  <2> QED BY <2>1
<1>10. CASE ClientSends \/ SendAnswer \/ ClientChunk \/ AnswerFails
  BY <1>10 DEF ClientSends, SendAnswer, ClientChunk, AnswerFails, hostVars
<1> QED
  BY <1>1, <1>2, <1>3, <1>4, <1>5, <1>6, <1>7, <1>8, <1>9, <1>10 DEF Next, HostStep, ClientStep

(* But for a new call, the call goes on as it was or ends.                   *)
LEMMA CallGoesOn ==
  ASSUME Next, ~Renegotiate, clean', phase' # "idle"
  PROVE  /\ clean /\ phase # "idle" /\ local' = local
         /\ \/ Forwarder \/ ClientSends \/ SendOffer \/ HostChunk \/ HostReceives
            \/ ClientReceives \/ ClientStep
BY DEF Next, HostStep, ClientStep, AddTrack, RemoveTrack, Announce, Forwarder, ClientSends,
       SendOffer, HostChunk, TakeAnswer, Timeout, SendFails, HostReceives, ClientReceives,
       SendAnswer, ClientChunk, AnswerFails, Loop, Fail, hostVars, clientVars

(* Only a message of the forwarder or the offer goes down meanwhile.         *)
LEMMA OfferChunk ==
  ASSUME LinkInv, CallUnderWay, HostChunk, phase # "idle", TypeOK
  PROVE  phase = "chunking" /\ down.sending.msg = local
<1>1. down.sending # None
  BY DownContinues DEF HostChunk
<1> QED BY <1>1 DEF CallUnderWay, TypeOK

LEMMA AloneStep ==
  ASSUME TypeOK, LinkInv, CallUnderWay, CallAlone, Next
  PROVE  CallAlone'
<1> USE MessageTypes, AnswerShape, Numbers
<1> SUFFICES ASSUME clean', phase' # "idle"
             PROVE  /\ OfThisCall(down'.wire, local')
                    /\ OfThisCall(up'.wire, Answer(local'))
                    /\ up'.sending # None => up'.sending.msg = Answer(local')
                    /\ answering' # None => answering' = Answer(local')
                    /\ inbox' # None => inbox' = Answer(local')
  BY DEF CallAlone, OfThisCall, Answer
<1>1. CASE Renegotiate
  BY <1>1 DEF Renegotiate, Quiet, clientVars, OfThisCall
<1>2. CASE ~Renegotiate
  <2>1. /\ clean /\ phase # "idle" /\ local' = local
        /\ \/ Forwarder \/ ClientSends \/ SendOffer \/ HostChunk \/ HostReceives
           \/ ClientReceives \/ ClientStep
    BY <1>2, CallGoesOn
  <2>2. /\ OfThisCall(down.wire, local)
        /\ OfThisCall(up.wire, Answer(local))
        /\ up.sending # None => up.sending.msg = Answer(local)
        /\ answering # None => answering = Answer(local)
        /\ inbox # None => inbox = Answer(local)
    BY <2>1 DEF CallAlone
  <2>3. CASE Forwarder \/ SendOffer
    <3>1. UNCHANGED <<up, answering, inbox>>
      BY <2>3 DEF Forwarder, SendOffer, clientVars
    <3>2. PICK m \in Message : /\ Down!SendWhole(m) \/ Down!StartChunks(m)
                               /\ m.type # "note" => m = local
      BY <2>3 DEF Forwarder, SendOffer
    <3>3. PICK frame \in Down!Frames : frame.msg = m /\ down'.wire = Append(down.wire, frame)
      BY <3>2, DownSends
    <3>4. OfThisCall(Append(down.wire, frame), local)
      BY <2>2, <3>2, <3>3, OfThisCallAppend
    <3> QED BY <2>1, <2>2, <3>1, <3>3, <3>4
  <2>4. CASE HostChunk
    <3>1. UNCHANGED <<up, answering, inbox>> /\ Down!SendChunk
      BY <2>4 DEF HostChunk, clientVars
    <3>2. PICK frame \in Down!Frames :
            frame.msg = down.sending.msg /\ down'.wire = Append(down.wire, frame)
      BY <3>1, DownContinues
    <3>3. frame.msg = local
      BY <2>1, <2>4, <3>2, OfferChunk
    <3>4. OfThisCall(Append(down.wire, frame), local)
      BY <2>2, <3>3, OfThisCallAppend
    <3> QED BY <2>1, <2>2, <3>1, <3>2, <3>4
  <2>5. CASE ClientSends \/ SendAnswer
    <3>1. UNCHANGED <<down, inbox>> /\ (answering' = answering \/ answering' = None)
      BY <2>5 DEF ClientSends, SendAnswer, clientVars
    <3>2. PICK m \in Message : /\ \/ Up!SendWhole(m)
                                  \/ Up!StartChunks(m) /\ m = Answer(local)
                               /\ m.type # "note" => m = Answer(local)
      BY <2>2, <2>5 DEF ClientSends, SendAnswer
    <3>3. PICK frame \in Up!Frames : frame.msg = m /\ up'.wire = Append(up.wire, frame)
      BY <3>2, UpSends
    <3>4. OfThisCall(Append(up.wire, frame), Answer(local))
      BY <2>2, <3>2, <3>3, OfThisCallAppend
    <3>5. up'.sending # None => up'.sending.msg = Answer(local)
      <4>1. CASE Up!SendWhole(m)
        <5>1. up'.sending = up.sending
          BY <4>1, SameUp, SameUpSteps, UpP!WholeEffect DEF LinkInv
        <5> QED BY <2>2, <5>1
      <4>2. CASE Up!StartChunks(m) /\ m = Answer(local)
        BY <2>2, <4>2, UpSends
      <4> QED BY <3>2, <4>1, <4>2
    <3> QED BY <2>1, <2>2, <3>1, <3>3, <3>4, <3>5
  <2>6. CASE ClientChunk
    <3>1. UNCHANGED <<down, answering, inbox>> /\ Up!SendChunk
      BY <2>6 DEF ClientChunk, clientVars
    <3>2. PICK frame \in Up!Frames :
            frame.msg = up.sending.msg /\ up'.wire = Append(up.wire, frame)
      BY <3>1, UpContinues
    <3>3. up.sending # None /\ (up'.sending # None => up'.sending.msg = up.sending.msg)
      BY <3>1, UpContinues
    <3>4. OfThisCall(Append(up.wire, frame), Answer(local))
      BY <2>2, <3>2, <3>3, OfThisCallAppend
    <3> QED BY <2>1, <2>2, <3>1, <3>2, <3>3, <3>4
  <2>7. CASE HostReceives
    <3>1. /\ UNCHANGED <<down, answering>>
          /\ inbox' # inbox => /\ inbox' = Up!Received /\ Up!Received.type = "answer"
                               /\ Up!Received # None
      BY <2>7 DEF HostReceives, Pop, clientVars
    <3>2. /\ up.wire # <<>> /\ up'.wire = Tail(up.wire) /\ up'.sending = up.sending
          /\ Up!Received \in {None, Head(up.wire).msg}
      BY <2>7, UpReceived DEF HostReceives
    <3>3. /\ OfThisCall(Tail(up.wire), Answer(local))
          /\ Head(up.wire).msg.type # "note" => Head(up.wire).msg = Answer(local)
      BY <2>2, <3>2, OfThisCallTail
    <3> QED BY <2>1, <2>2, <3>1, <3>2, <3>3
  <2>8. CASE ClientReceives
    <3>1. /\ UNCHANGED <<up, inbox>>
          /\ \/ UNCHANGED answering
             \/ /\ Down!Received # None /\ Down!Received.type = "offer"
                /\ answering' = Answer(Down!Received)
      BY <2>8 DEF ClientReceives, clientVars
    <3>2. /\ down.wire # <<>> /\ down'.wire = Tail(down.wire)
          /\ Down!Received \in {None, Head(down.wire).msg}
      BY <2>8, DownReceived DEF ClientReceives
    <3>3. /\ OfThisCall(Tail(down.wire), local)
          /\ Head(down.wire).msg.type # "note" => Head(down.wire).msg = local
      BY <2>2, <3>2, OfThisCallTail
    <3> QED BY <2>1, <2>2, <3>1, <3>2, <3>3
  <2> QED BY <2>1, <2>3, <2>4, <2>5, <2>6, <2>7, <2>8 DEF ClientStep
<1> QED BY <1>1, <1>2

LEMMA ToComeStep ==
  ASSUME TypeOK, LinkInv, OneEntry, CallUnderWay, CallAlone, AnswerToCome, Next
  PROVE  AnswerToCome'
<1> USE MessageTypes, AnswerShape
<1> SUFFICES ASSUME clean', phase' = "waiting", inbox' = None
             PROVE  (Down!ToCome(local) \/ answering = Answer(local) \/ Up!ToCome(Answer(local)))'
  BY DEF AnswerToCome
<1>1. /\ clean /\ phase # "idle" /\ local' = local
      /\ \/ Forwarder \/ ClientSends \/ SendOffer \/ HostChunk \/ HostReceives
         \/ ClientReceives \/ ClientStep
  <2>1. ~Renegotiate
    BY DEF Renegotiate
  <2> QED BY <2>1, CallGoesOn
<1>2. PICK offer \in Message : offer = local
  OBVIOUS
<1>3. PICK answer \in Message : answer = Answer(local) /\ answer # None /\ answer.type = "answer"
  OBVIOUS
<1>4. /\ Down!ToCome(local) <=> Down!ToCome(offer)
      /\ Down!ToCome(local)' <=> Down!ToCome(offer)'
  BY <1>1, <1>2 DEF Down!ToCome, Down!Ends
<1>5. /\ Up!ToCome(Answer(local)) <=> Up!ToCome(answer)
      /\ Up!ToCome(Answer(local))' <=> Up!ToCome(answer)'
      /\ (answering = Answer(local))' <=> answering' = answer
  BY <1>1, <1>3 DEF Up!ToCome, Up!Ends, Answer
<1>6. /\ UNCHANGED down => (Down!ToCome(offer)' <=> Down!ToCome(offer))
      /\ UNCHANGED up => (Up!ToCome(answer)' <=> Up!ToCome(answer))
  BY DEF Down!ToCome, Down!Ends, Up!ToCome, Up!Ends
<1> DEFINE Goal == Down!ToCome(offer)' \/ answering' = answer \/ Up!ToCome(answer)'
<1> SUFFICES Goal
  BY <1>4, <1>5
<1>7. phase = "waiting" /\ inbox = None =>
        Down!ToCome(offer) \/ answering = answer \/ Up!ToCome(answer)
  BY <1>1, <1>3, <1>4, <1>5 DEF AnswerToCome
<1>8. CASE Forwarder
  <2>1. UNCHANGED <<up, phase, inbox, answering>> /\ Down!SendWhole(Note(1))
    BY <1>8 DEF Forwarder, hostVars, clientVars
  <2>2. Down!ToCome(offer) => Down!ToCome(offer)'
    BY <2>1, DownToCome
  <2> QED BY <1>6, <1>7, <2>1, <2>2
<1>9. CASE ClientSends
  <2>1. UNCHANGED <<down, phase, inbox, answering>> /\ Up!SendWhole(Note(1))
    BY <1>9 DEF ClientSends, hostVars, clientVars
  <2>2. Up!ToCome(answer) => Up!ToCome(answer)'
    BY <2>1, UpToCome
  <2> QED BY <1>6, <1>7, <2>1, <2>2
<1>10. CASE SendOffer
  <2>1. Down!SendWhole(offer) \/ Down!StartChunks(offer)
    BY <1>2, <1>10 DEF SendOffer
  <2> QED BY <2>1, DownToCome
<1>11. CASE HostChunk
  <2>1. Down!SendChunk /\ down.sending.msg = offer
    BY <1>1, <1>2, <1>11, OfferChunk DEF HostChunk
  <2> QED BY <2>1, DownToCome
<1>12. CASE HostReceives
  <2>1. /\ Up!Receive /\ UNCHANGED <<down, phase, answering, local>>
        /\ IF Up!Received # None /\ Up!Received.type = "answer" /\ pending # {}
           THEN Pop(Up!Received) ELSE UNCHANGED <<pending, inbox>>
    BY <1>12 DEF HostReceives, clientVars
  <2>2. inbox = None
    BY <2>1 DEF Pop
  <2>3. pending = {local.gen}
    BY <1>1, <2>2 DEF CallUnderWay
  <2>4. Up!Received # answer
    <3>1. SUFFICES ASSUME Up!Received = answer PROVE FALSE
      OBVIOUS
    <3>2. Pop(answer)
      BY <1>3, <2>1, <2>3, <3>1
    <3>3. inbox' = answer
      BY <1>1, <2>3, <3>2 DEF Pop
    <3> QED BY <1>3, <3>3
  <2>5. Up!ToCome(answer) => Up!ToCome(answer)'
    BY <2>1, <2>4, UpToCome
  <2> QED BY <1>6, <1>7, <2>1, <2>2, <2>5
<1>13. CASE ClientReceives
  <2>1. /\ Down!Receive /\ answering = None /\ UNCHANGED <<up, phase, inbox>>
        /\ \/ /\ Down!Received # None /\ Down!Received.type = "offer"
              /\ answering' = Answer(Down!Received)
           \/ ~(Down!Received # None /\ Down!Received.type = "offer")
    BY <1>13 DEF ClientReceives, clientVars
  <2>2. Down!Received = offer => answering' = answer
    BY <1>2, <1>3, <2>1
  <2>3. Down!ToCome(offer) => Down!Received = offer \/ Down!ToCome(offer)'
    BY <2>1, DownToCome
  <2> QED BY <1>3, <1>6, <1>7, <2>1, <2>2, <2>3
<1>14. CASE SendAnswer
  <2>1. /\ UNCHANGED <<down, phase, inbox>>
        /\ answering # None /\ (Up!SendWhole(answering) \/ Up!StartChunks(answering))
    BY <1>14 DEF SendAnswer, hostVars
  <2>2. answering = answer
    BY <1>1, <1>3, <2>1 DEF CallAlone
  <2> QED BY <2>1, <2>2, UpToCome
<1>15. CASE ClientChunk
  <2>1. UNCHANGED <<down, phase, inbox, answering>> /\ Up!SendChunk
    BY <1>15 DEF ClientChunk, hostVars, clientVars
  <2>2. Up!ToCome(answer) => Up!ToCome(answer)'
    BY <2>1, UpToCome
  <2> QED BY <1>6, <1>7, <2>1, <2>2
<1> QED
  BY <1>1, <1>8, <1>9, <1>10, <1>11, <1>12, <1>13, <1>14, <1>15 DEF ClientStep

LEMMA CallerInvHolds ==
  Spec => []CallerInv
<1>1. Init => CallerInv
  BY DEF Init, CallerInv, CallUnderWay, CallAlone, AnswerToCome
<1>2. RenegotiationInv /\ CallerInv /\ [Next]_vars => CallerInv'
  <2> SUFFICES ASSUME RenegotiationInv, CallerInv, [Next]_vars PROVE CallerInv'
    OBVIOUS
  <2>1. CASE Next
    BY <2>1, CallStep, AloneStep, ToComeStep DEF RenegotiationInv, CallerInv
  <2>2. CASE UNCHANGED vars
    BY <2>2 DEF vars, CallerInv, CallUnderWay, CallAlone, AnswerToCome, OfThisCall, Answer,
       Down!ToCome, Down!Ends, Up!ToCome, Up!Ends
  <2> QED BY <2>1, <2>2
<1> QED BY <1>1, <1>2, InvariantHolds, PTL DEF Spec

LEMMA CallerFound ==
  ASSUME TypeOK, CallerInv
  PROVE  AnswerFindsCaller
<1>1. /\ [local EXCEPT !.type = "offer"] = local
      /\ [local EXCEPT !.type = "answer"] = Answer(local)
  BY DEF TypeOK, Description, Answer
<1>2. /\ Down!ToCome(local) => Carries(down, "offer")
      /\ Up!ToCome(Answer(local)) => Carries(up, "answer")
  BY <1>1 DEF Carries, Down!ToCome, Down!Ends, Up!ToCome, Up!Ends
<1> QED BY <1>2 DEF CallerInv, CallAlone, AnswerToCome, AnswerFindsCaller

(* A call that began with nothing left over from earlier ones, and that      *)
(* nothing fails, gets the answer to its own offer, whatever else is sent    *)
(* meanwhile (HostPeer::renegotiate and PendingAnswerQueue).                 *)
THEOREM AnswersFindCallers ==
  Spec => []AnswerFindsCaller
<1>1. RenegotiationInv /\ CallerInv => AnswerFindsCaller
  BY CallerFound DEF RenegotiationInv
<1> QED BY <1>1, InvariantHolds, CallerInvHolds, PTL

(* Types, for every value of the constants.                                  *)
THEOREM TypesHold ==
  Spec => []TypeOK
<1>1. RenegotiationInv => TypeOK
  BY DEF RenegotiationInv
<1> QED BY <1>1, InvariantHolds, PTL

(* Whatever is sent in between and whatever breaks off, in either direction  *)
(* the assembler never splices parts of different messages.                  *)
THEOREM NeverSpliced ==
  Spec => []NoSplice
<1>1. RenegotiationInv => NoSplice
  BY Assumptions, SameDown, SameUp, DownP!OrderlyIsWhole, UpP!OrderlyIsWhole
  DEF RenegotiationInv, LinkInv, NoSplice
<1> QED BY <1>1, InvariantHolds, PTL

(* The queue of pending answers holds no entry of a call that ended, however *)
(* calls time out, fail to send or are answered late.                        *)
THEOREM EntriesLive ==
  Spec => []NoDeadEntry
<1>1. RenegotiationInv => NoDeadEntry
  BY DEF RenegotiationInv, OneEntry
<1> QED BY <1>1, InvariantHolds, PTL

(* Every answer the host applies, a late one to an earlier call included, is *)
(* for the media sections of the current offer, and the client has accepted  *)
(* those: it never runs ahead of the host, nor the answer of the client.     *)
THEOREM AnswersMatch ==
  Spec => AppliedMatches
<1>1. ASSUME RenegotiationInv, Next, remote' # remote
      PROVE  remote'.mids = local.mids /\ described.mids = local.mids
  <2>1. phase = "waiting" /\ inbox # None /\ inbox.mids = local.mids /\ remote' = inbox
    BY <1>1
    DEF Next, HostStep, ClientStep, AddTrack, RemoveTrack, Announce, Forwarder,
        ClientSends, Renegotiate, SendOffer, HostChunk, SendFails, TakeAnswer,
        Timeout, HostReceives, ClientReceives, SendAnswer, ClientChunk, AnswerFails,
        Matches, hostVars
  <2>2. inbox.mids <= described.mids /\ described.mids <= local.mids
    BY <1>1, <2>1 DEF RenegotiationInv, OffersInOrder, AnswersBehind
  <2>3. described.mids \in Nat /\ local.mids \in Nat
    BY <1>1, Numbers DEF RenegotiationInv
  <2> QED BY <2>1, <2>2, <2>3
<1>2. RenegotiationInv /\ [Next]_vars =>
        [remote' # remote => remote'.mids = local.mids /\ described.mids = local.mids]_vars
  BY <1>1
<1> QED BY <1>2, InvariantHolds, PTL DEF Spec, AppliedMatches

LEMMA DownReassembles ==
  Spec => Down!Reassembly
<1> DEFINE advance ==
      IF Down!Completed # None
      THEN Down!Due' = Append(Down!Due, Down!Completed)
      ELSE Down!Due' = Down!Due \/ (Down!Due # <<>> /\ Down!Due' = Tail(Down!Due))
<1>1. RenegotiationInv => DownP!LinkInv
  BY SameDown DEF RenegotiationInv, LinkInv
<1>2. DownP!LinkInv => DownP!Counted
  BY Assumptions, DownP!DueCounted
<1>3. RenegotiationInv /\ [Next]_vars => [DownP!Next]_down
  BY ChannelSteps, SameDownNext DEF RenegotiationInv, vars
<1>4. DownP!LinkInv /\ DownP!LinkInv' /\ DownP!Counted /\ DownP!Counted' /\ [DownP!Next]_down
        => [DownP!Advance]_down
  BY Assumptions, DownP!ReassemblyStep
<1>5. DownP!Advance => advance
  <2>1. (DownP!Due = Down!Due)'
    BY SameDownDue, PTL
  <2> QED BY <2>1, SameDownDue DEF DownP!Advance
<1> HIDE DEF advance
<1>6. Spec => [][advance]_down
  BY <1>1, <1>2, <1>3, <1>4, <1>5, InvariantHolds, PTL DEF Spec
<1> QED BY <1>6 DEF Down!Reassembly, advance

LEMMA UpReassembles ==
  Spec => Up!Reassembly
<1> DEFINE advance ==
      IF Up!Completed # None
      THEN Up!Due' = Append(Up!Due, Up!Completed)
      ELSE Up!Due' = Up!Due \/ (Up!Due # <<>> /\ Up!Due' = Tail(Up!Due))
<1>1. RenegotiationInv => UpP!LinkInv
  BY SameUp DEF RenegotiationInv, LinkInv
<1>2. UpP!LinkInv => UpP!Counted
  BY Assumptions, UpP!DueCounted
<1>3. RenegotiationInv /\ [Next]_vars => [UpP!Next]_up
  BY ChannelSteps, SameUpNext DEF RenegotiationInv, vars
<1>4. UpP!LinkInv /\ UpP!LinkInv' /\ UpP!Counted /\ UpP!Counted' /\ [UpP!Next]_up
        => [UpP!Advance]_up
  BY Assumptions, UpP!ReassemblyStep
<1>5. UpP!Advance => advance
  <2>1. (UpP!Due = Up!Due)'
    BY SameUpDue, PTL
  <2> QED BY <2>1, SameUpDue DEF UpP!Advance
<1> HIDE DEF advance
<1>6. Spec => [][advance]_up
  BY <1>1, <1>2, <1>3, <1>4, <1>5, InvariantHolds, PTL DEF Spec
<1> QED BY <1>6 DEF Up!Reassembly, advance

(* Each direction yields whole, once and in the order in which their sends   *)
(* ended exactly the messages whose last frames were sent, whatever notes,   *)
(* offers, answers and failed sends share the channel (Reassembly).          *)
THEOREM MessagesReassembled ==
  Spec => Reassembly
BY DownReassembles, UpReassembles DEF Reassembly
=============================================================================
