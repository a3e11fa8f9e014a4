-------------------------- MODULE MappingForwarder --------------------------
(* Pointer mappings, from the captured frames to the client                  *)
(* (host/src/session.rs: frame_sink and the forwarder task of run_session;   *)
(* core/src/mapping.rs: should_send).                                        *)
(*                                                                           *)
(* Each capture's callback passes on the frame metadata that changed; the    *)
(* forwarder turns it into a mapping and sends what differs from its last    *)
(* send for that window.  A mapping is a function of the metadata and of the *)
(* window's size, and a resize changes the metadata, so the metadata of a    *)
(* frame is written as the mapping it gives.                                 *)
EXTENDS AppTracker

CONSTANT MaxMeta    \* bound on the metadata waiting for the forwarder

ASSUME ForwarderAssumption ==
  None \notin {InputMapping(w, m) : w \in Windows, m \in Mappings}

VARIABLES
  last_meta,   \* frame_sink's last_meta: what the capture passed on last,
               \* None before its first frame
  meta,        \* the meta channel
  last_sent,   \* the forwarder's last_sent
  sending      \* the message the forwarder is sending, or None

mappingVars == <<last_meta, meta, last_sent, sending>>

MappingInit ==
  /\ last_meta = [w \in Windows |-> None]
  /\ meta = <<>>
  /\ last_sent = [w \in Windows |-> None]
  /\ sending = None

(* frame_sink for new captures of the windows ws: nothing passed on yet.     *)
FreshSinks(ws) ==
  last_meta' = [w \in Windows |-> IF w \in ws THEN None ELSE last_meta[w]]

(* A frame of a running capture whose metadata changed.                      *)
FrameArrives(w, m) ==
  /\ last_meta[w] # m /\ Len(meta) < MaxMeta
  /\ last_meta' = [last_meta EXCEPT ![w] = m]
  /\ meta' = Append(meta, [window |-> w, mapping |-> m])
  /\ UNCHANGED <<last_sent, sending>>

(* should_send: identity is implicit at open; a mapping is sent when it      *)
(* differs from the one sent last.                                           *)
NeverAtFirst(last, next) == last # None /\ next # last      \* mutant
ShouldSend(last, next) == IF last = None THEN next # Identity ELSE next # last

(* The forwarder takes one change: a window that closed is forgotten, a      *)
(* mapping worth sending is on its way.                                      *)
ForwardMeta(live) ==
  /\ meta # <<>> /\ sending = None
  /\ meta' = Tail(meta)
  /\ LET w == Head(meta).window
         m == Head(meta).mapping
     IN  IF live[w] = None
         THEN last_sent' = [last_sent EXCEPT ![w] = None] /\ UNCHANGED sending
         ELSE IF ShouldSend(last_sent[w], m)
         THEN /\ last_sent' = [last_sent EXCEPT ![w] = m]
              /\ sending' = InputMapping(w, m)
         ELSE UNCHANGED <<last_sent, sending>>
  /\ UNCHANGED last_meta

(* peer.send() completes.                                                    *)
MappingSent ==
  /\ sending # None
  /\ sending' = None
  /\ UNCHANGED <<last_meta, meta, last_sent>>

MappingTypeOK ==
  /\ last_meta \in [Windows -> Option(Mappings)]
  /\ meta \in Seq([window: Windows, mapping: Mappings])
  /\ last_sent \in [Windows -> Option(Mappings)]
  /\ sending \in Option({InputMapping(w, m) : w \in Windows, m \in Mappings})
=============================================================================
