---------------------------- MODULE Renegotiation ----------------------------
(* Renegotiating the peer connection over the control channel, in the middle *)
(* of other traffic (transport/src/peer.rs): HostPeer::renegotiate with its  *)
(* pending-answer queue, the client's answering of offers, and the chunked   *)
(* channel in either direction.  The session's loop adds and removes tracks  *)
(* and renegotiates; the mapping forwarder and the client's network task     *)
(* send small messages whenever they like.                                   *)
(*                                                                           *)
(* A session description is reduced to the number of its media sections:     *)
(* their mids are numbered in order and sections are never taken back.       *)
EXTENDS Integers, Sequences

CONSTANTS
  MaxOffers,   \* bound on the renegotiations
  MaxMids,     \* bound on the media sections
  MaxWire,     \* bound on the frames under way
  Faults,      \* of "timeout", "refuse", "break"
  None

ASSUME RenegotiationAssumption ==
  /\ MaxOffers \in Nat /\ MaxMids \in Nat \ {0, 1} /\ MaxWire \in Nat \ {0}
  /\ Faults \subseteq {"timeout", "refuse", "break"}

VARIABLES
  down, up,      \* the channel to the client and back
  mids, active,  \* the host's media sections, and how many carry a track
  phase,         \* renegotiate: "idle", "offering", "chunking", "waiting"
  local,         \* the host's local description: the offer made last
  remote,        \* the host's remote description: the answer applied last
  pending,       \* PendingAnswerQueue: the generations it holds, the oldest first
  inbox,         \* the answer sent to the receiver of the current call
  described,     \* the client's remote description: the offer accepted last
  answering,     \* the answer the client is about to send
  clean          \* history: nothing was left over or failed since the call began

vars == <<down, up, mids, active, phase, local, remote, pending, inbox, described,
          answering, clean>>
hostVars == <<mids, active, phase, local, remote, pending, clean>>
clientVars == <<described, answering>>

Offer(gen, n) == [type |-> "offer", gen |-> gen, mids |-> n]
Answer(offer) == [offer EXCEPT !.type = "answer"]
(* Any other message, small (1) or large (2).                                *)
Note(n) == [type |-> "note", gen |-> 0, mids |-> n]

Message == [type : {"offer", "answer", "note"}, gen : 0..MaxOffers, mids : 1..MaxMids]
(* Descriptions grow with every media section.                               *)
Chunks == [m \in Message |-> m.mids]

Down == INSTANCE ChunkChannel WITH link <- down
Up == INSTANCE ChunkChannel WITH link <- up

ASSUME LinkAssumption == Down!ChunkAssumption

Init ==
  /\ Down!Init /\ Up!Init
  /\ mids = 1 /\ active = 0 /\ phase = "idle"
  /\ local = Offer(0, 1) /\ remote = Answer(local) /\ described = local
  /\ pending = {} /\ inbox = None /\ answering = None /\ clean = FALSE

----------------------------------------------------------------------------
(* The host's loop between renegotiations.                                   *)

Loop == phase = "idle" /\ down.sending = None

SectionsStay == mids                                    \* mutant

(* add_track reuses a section whose track was removed.                       *)
Sections == IF active < mids - 1 THEN mids ELSE mids + 1

AddTrack ==
  /\ Loop
  /\ active' = active + 1
  /\ mids' = Sections
  /\ mids' <= MaxMids
  /\ UNCHANGED <<down, up, phase, local, remote, pending, inbox, clientVars, clean>>

RemoveTrack ==
  /\ Loop /\ active > 0
  /\ active' = active - 1
  /\ UNCHANGED <<down, up, mids, phase, local, remote, pending, inbox, clientVars,
                 clean>>

(* AppAnnounced with its icon.                                               *)
Announce ==
  /\ Loop /\ Down!StartChunks(Note(2))
  /\ UNCHANGED <<up, hostVars, inbox, clientVars>>

(* Small messages of the forwarder and of the client's network task; they    *)
(* leave room for the others.                                                *)
Forwarder ==
  /\ Len(down.wire) < MaxWire - 1 /\ Down!SendWhole(Note(1))
  /\ UNCHANGED <<up, hostVars, inbox, clientVars>>

ClientSends ==
  /\ Len(up.wire) < MaxWire - 1 /\ Up!SendWhole(Note(1))
  /\ UNCHANGED <<down, hostVars, inbox, clientVars>>

----------------------------------------------------------------------------
(* HostPeer::renegotiate, one call at a time.                                *)

(* Nothing of an earlier renegotiation is under way.                         *)
Quiet ==
  LET noted(link) == \A i \in DOMAIN link.wire : link.wire[i].msg.type = "note"
  IN  noted(down) /\ noted(up) /\ answering = None /\ up.sending = None

Renegotiate ==
  /\ Loop /\ local.gen < MaxOffers
  /\ local' = Offer(local.gen + 1, mids)
  /\ pending' = pending \cup {local'.gen}
  /\ phase' = "offering" /\ inbox' = None
  /\ clean' = Quiet
  /\ UNCHANGED <<down, up, mids, active, remote, clientVars>>

(* send: the offer.                                                          *)
SendOffer ==
  /\ phase = "offering"
  /\ \/ Down!SendWhole(local) /\ phase' = "waiting"
     \/ Down!StartChunks(local) /\ phase' = "chunking"
  /\ UNCHANGED <<up, mids, active, local, remote, pending, inbox, clientVars, clean>>

(* The next chunk of the offer or of an announcement.                        *)
HostChunk ==
  /\ Down!SendChunk
  /\ phase' = IF phase = "chunking" /\ down'.sending = None THEN "waiting" ELSE phase
  /\ UNCHANGED <<up, mids, active, local, remote, pending, inbox, clientVars, clean>>

KeepEntry == UNCHANGED pending                          \* mutant

Discard == pending' = pending \ {local.gen}

(* Every failure of a call ends in discard.                                  *)
Fail == phase' = "idle" /\ Discard

(* send fails.                                                               *)
SendFails ==
  /\ "break" \in Faults
  /\ \/ Down!BreakOff
     \/ phase = "offering" /\ UNCHANGED down
  /\ IF phase = "idle" THEN UNCHANGED <<phase, pending, clean>>
     ELSE Fail /\ clean' = FALSE
  /\ UNCHANGED <<up, mids, active, local, remote, inbox, clientVars>>

AnyAnswer(answer) == TRUE                               \* mutant

(* validate_answer_matches_offer.                                            *)
Matches(answer) == answer.mids = local.mids

(* The answer is validated and applied, which may fail too.                  *)
TakeAnswer ==
  /\ phase = "waiting" /\ inbox # None
  /\ inbox' = None
  /\ \/ /\ Matches(inbox)
        /\ remote' = inbox /\ phase' = "idle" /\ UNCHANGED pending
     \/ /\ ~Matches(inbox) \/ "refuse" \in Faults
        /\ Fail /\ UNCHANGED remote
  /\ UNCHANGED <<down, up, mids, active, local, clientVars, clean>>

NoTimeout == FALSE /\ UNCHANGED vars                    \* mutant

(* No answer within ten seconds.                                             *)
Timeout ==
  /\ "timeout" \in Faults
  /\ phase = "waiting" /\ inbox = None
  /\ Fail /\ clean' = FALSE
  /\ UNCHANGED <<down, up, mids, active, local, remote, inbox, clientVars>>

(* pop: an answer goes to the oldest entry, and nowhere if its call ended.   *)
Pop(answer) ==
  \E g \in pending :
    /\ \A h \in pending : g <= h
    /\ pending' = pending \ {g}
    /\ inbox' = IF phase # "idle" /\ g = local.gen THEN answer ELSE inbox

(* The host's message handler.                                               *)
HostReceives ==
  /\ Up!Receive
  /\ IF Up!Received # None /\ Up!Received.type = "answer" /\ pending # {}
     THEN Pop(Up!Received)
     ELSE UNCHANGED <<pending, inbox>>
  /\ UNCHANGED <<down, mids, active, phase, local, remote, clientVars, clean>>

----------------------------------------------------------------------------
(* The client: its handler is awaited, so the next message waits for it.     *)

(* An offer is answered; or it is refused, or taken without an answer that   *)
(* can be made to it.                                                        *)
ClientReceives ==
  /\ answering = None /\ up.sending = None
  /\ Down!Receive
  /\ IF Down!Received # None /\ Down!Received.type = "offer"
     THEN \/ /\ described' = Down!Received
             /\ answering' = Answer(Down!Received)
             /\ UNCHANGED clean
          \/ /\ "refuse" \in Faults
             /\ clean' = FALSE
             /\ described' \in {described, Down!Received}
             /\ UNCHANGED answering
     ELSE UNCHANGED <<clientVars, clean>>
  /\ UNCHANGED <<up, mids, active, phase, local, remote, pending, inbox>>

(* send_text_chunked: the answer.                                            *)
SendAnswer ==
  /\ answering # None
  /\ Up!SendWhole(answering) \/ Up!StartChunks(answering)
  /\ answering' = None
  /\ UNCHANGED <<down, hostVars, inbox, described>>

ClientChunk ==
  /\ Up!SendChunk
  /\ UNCHANGED <<down, hostVars, inbox, clientVars>>

(* Its sending fails, at the first frame or at a later one.                  *)
AnswerFails ==
  /\ "break" \in Faults
  /\ \/ answering # None /\ answering' = None /\ UNCHANGED up
     \/ Up!BreakOff /\ UNCHANGED answering
  /\ clean' = FALSE
  /\ UNCHANGED <<down, mids, active, phase, local, remote, pending, inbox, described>>

HostStep == SendOffer \/ HostChunk \/ TakeAnswer \/ Timeout
ClientStep == SendAnswer \/ ClientChunk

Next ==
  \/ AddTrack \/ RemoveTrack \/ Announce \/ Forwarder \/ ClientSends
  \/ Renegotiate \/ HostStep \/ SendFails \/ HostReceives
  \/ ClientReceives \/ ClientStep \/ AnswerFails

Spec == Init /\ [][Next]_vars

(* Tasks run, frames arrive, and the timer expires.                          *)
FairSpec ==
  /\ Spec
  /\ WF_vars(HostStep) /\ WF_vars(HostReceives)
  /\ WF_vars(ClientReceives) /\ WF_vars(ClientStep)

----------------------------------------------------------------------------
Description(type) == [type : {type}, gen : 0..MaxOffers, mids : 1..MaxMids]

TypeOK ==
  /\ mids \in 1..MaxMids /\ active \in 0..mids - 1
  /\ phase \in {"idle", "offering", "chunking", "waiting"}
  /\ local \in Description("offer") /\ described \in Description("offer")
  /\ remote \in Description("answer")
  /\ pending \subseteq 1..MaxOffers
  /\ inbox \in Description("answer") \cup {None}
  /\ answering \in Description("answer") \cup {None}
  /\ clean \in BOOLEAN

(* Both directions reassemble what was sent, whatever is sent in between.    *)
Reassembly == Down!Reassembly /\ Up!Reassembly

(* Parts of different messages are never spliced, in either direction.       *)
NoSplice == Down!NoSplice /\ Up!NoSplice

(* What makes it so.                                                         *)
LinkInv == Down!LinkInv /\ Up!LinkInv

(* PendingAnswerQueue never holds an entry of a call that ended, where it    *)
(* would take the answer a later call waits for.                             *)
NoDeadEntry == pending # {} => phase # "idle" /\ pending = {local.gen}

(* Whenever an answer is applied, late ones included, it is for the media    *)
(* sections of the current offer, and the client has accepted those.         *)
AppliedMatches ==
  [][remote' # remote => remote'.mids = local.mids /\ described.mids = local.mids]_vars

Carries(link, type) ==
  \/ \E i \in DOMAIN link.wire : link.wire[i].msg = [local EXCEPT !.type = type]
  \/ link.sending # None /\ link.sending.msg = [local EXCEPT !.type = type]

(* A call that began with nothing left over from earlier ones, and that      *)
(* nothing fails, gets the answer to its own offer: until it has it, offer   *)
(* or answer are under way.                                                  *)
AnswerFindsCaller ==
  clean /\ phase = "waiting" =>
    IF inbox # None THEN inbox = Answer(local)
    ELSE \/ Carries(down, "offer") \/ Carries(up, "answer")
         \/ answering = Answer(local)

(* Every call ends, whatever becomes of its offer and its answer.            *)
RenegotiationEnds == phase # "idle" ~> phase = "idle"

----------------------------------------------------------------------------
(* Why answers match: sections only grow, and descriptions travel in order.  *)

(* The queue has at most the entry of a call that is still without answer.   *)
OneEntry ==
  /\ NoDeadEntry
  /\ inbox # None /\ phase # "idle" => pending = {}

(* The offers under way lead from what the client has to the last one.       *)
OffersLead(wire, low, high) ==
  /\ \A i \in DOMAIN wire :
       wire[i].msg.type = "offer" => low <= wire[i].msg.mids /\ wire[i].msg.mids <= high
  /\ \A i, j \in DOMAIN wire :
       i < j /\ wire[i].msg.type = "offer" /\ wire[j].msg.type = "offer" =>
         wire[i].msg.mids <= wire[j].msg.mids

OffersInOrder ==
  /\ local.mids <= mids
  /\ phase # "idle" => local.mids = mids
  /\ described.mids <= local.mids
  /\ OffersLead(down.wire, described.mids, local.mids)
  /\ down.sending # None /\ down.sending.msg.type = "offer" => down.sending.msg = local

(* No answer is ahead of what the client has accepted.                       *)
AnswersFollow(wire, high) ==
  \A i \in DOMAIN wire : wire[i].msg.type = "answer" => wire[i].msg.mids <= high

AnswersBehind ==
  /\ AnswersFollow(up.wire, described.mids)
  /\ up.sending # None => up.sending.msg.mids <= described.mids
  /\ answering # None => answering.mids <= described.mids
  /\ inbox # None => inbox.mids <= described.mids

RenegotiationInv == TypeOK /\ LinkInv /\ OneEntry /\ OffersInOrder /\ AnswersBehind

(* Why a call that nothing disturbs gets its answer.  The host sends nothing *)
(* large but the offer meanwhile, and its entry stays until it is answered.  *)
CallUnderWay ==
  /\ phase \in {"offering", "waiting"} => down.sending = None
  /\ phase = "chunking" => down.sending # None /\ down.sending.msg = local
  /\ phase # "idle" /\ inbox = None => pending = {local.gen}

(* Every description on its way is of this call.                             *)
OfThisCall(wire, m) == \A i \in DOMAIN wire : wire[i].msg.type # "note" => wire[i].msg = m

CallAlone ==
  clean /\ phase # "idle" =>
    /\ OfThisCall(down.wire, local)
    /\ OfThisCall(up.wire, Answer(local))
    /\ up.sending # None => up.sending.msg = Answer(local)
    /\ answering # None => answering = Answer(local)
    /\ inbox # None => inbox = Answer(local)

(* The frame that completes the offer, or the answer, is still to come.      *)
AnswerToCome ==
  clean /\ phase = "waiting" /\ inbox = None =>
    Down!ToCome(local) \/ answering = Answer(local) \/ Up!ToCome(Answer(local))

CallerInv == CallUnderWay /\ CallAlone /\ AnswerToCome
=============================================================================
