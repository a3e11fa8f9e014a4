----------------------------- MODULE VideoProofs -----------------------------
(* Types, the freshness of what is encoded, and the keyframe requests of     *)
(* VideoPath, for any room on the way and any mishaps.                       *)
EXTENDS VideoPath, TLAPS

(* Why the latest frame wins: only the newest frame waits in the slot, and   *)
(* with nothing waiting the encoder thread holds nothing older.              *)
Freshest ==
  /\ slot # "old"
  /\ slot = None => hand # "old"
  /\ LatestWins

(* The two halves of TypeOK: what is two-valued, and the rest.               *)
Flags ==
  /\ idr \in BOOLEAN /\ due \in BOOLEAN /\ shutdown \in BOOLEAN /\ intra \in BOOLEAN
  /\ routed \in BOOLEAN /\ synced \in BOOLEAN /\ report \in BOOLEAN
  /\ asked \in BOOLEAN

Data ==
  /\ slot \in Frame /\ hand \in Frame /\ offered \in Frame
  /\ thread \in {"loop", "take", "force", "encode", "ended"}
  /\ progress \in {"never", "recent", "old"}
  /\ (hand # None) <=> (thread \in {"force", "encode"})
  /\ wire \in Seq(BOOLEAN)
  /\ mishaps \in 0..MaxMishaps

----------------------------------------------------------------------------
LEMMA TypesBegin ==
  Init => Flags /\ Data
<1>1. Init => Flags
  BY DEF Init, Flags
<1>2. Init => Data
  BY VideoAssumption DEF Init, Data, Frame
<1> QED BY <1>1, <1>2

LEMMA FlagsKept ==
  ASSUME Flags, Data, [Next]_vars
  PROVE  Flags'
<1>1. CASE Capture \/ Loop \/ Take
  BY <1>1 DEF Capture, Loop, Take, Flags, clientVars
<1>2. CASE TakeRequest
  <2>1. intra' \in BOOLEAN /\ idr' \in BOOLEAN
    BY <1>2 DEF TakeRequest
  <2>2. UNCHANGED <<due, shutdown, routed, synced, report, asked>>
    BY <1>2 DEF TakeRequest, clientVars
  <2> QED BY <2>1, <2>2 DEF Flags
<1>3. IsIdr \in BOOLEAN
  BY DEF IsIdr, Flags
<1>4. CASE Encode
  <2>1. asked' \in BOOLEAN /\ due' \in BOOLEAN
    BY <1>4 DEF Encode, Counted
  <2> QED BY <1>4, <2>1 DEF Encode, Encoded, Flags, clientVars
<1>5. CASE EncodeFails
  <2>1. intra' \in BOOLEAN /\ due' \in BOOLEAN
    BY <1>3, <1>5 DEF EncodeFails, Counted, Flags
  <2> QED BY <1>5, <2>1 DEF EncodeFails, Encoded, Flags, clientVars
<1>6. CASE Stop
  BY <1>6 DEF Stop, Flags, clientVars
<1>7. CASE Announced
  BY <1>7 DEF Announced, Flags, encoderVars
<1>8. CASE Arrive
  <2>1. synced' \in BOOLEAN
    BY <1>8 DEF Arrive
  <2>2. report' \in BOOLEAN
    BY <1>8 DEF Arrive, Flags
  <2> QED BY <1>8, <2>1, <2>2 DEF Arrive, Flags, encoderVars
<1>9. CASE Lost \/ Reported \/ Ages \/ Respawn
  BY <1>9 DEF Lost, Reported, Ages, Respawn, Flags, encoderVars
<1>10. CASE Tick
  <2>1. idr' \in BOOLEAN /\ asked' \in BOOLEAN
    BY <1>10 DEF Tick, Flags
  <2> QED BY <1>10, <2>1 DEF Tick, Flags, clientVars
<1>11. CASE UNCHANGED vars
  BY <1>11 DEF vars, encoderVars, clientVars, Flags
<1> QED BY <1>1, <1>2, <1>4, <1>5, <1>6, <1>7, <1>8, <1>9, <1>10, <1>11
        DEF Next, EncoderThread

LEMMA DataKept ==
  ASSUME Flags, Data, [Next]_vars
  PROVE  Data'
<1>1. CASE Capture
  BY <1>1, VideoAssumption DEF Capture, PushedOver, Data, Frame, clientVars
<1>2. CASE Loop
  BY <1>2 DEF Loop, Data, Frame, clientVars
<1>3. CASE Take
  BY <1>3, VideoAssumption DEF Take, TimesOut, Data, Frame, clientVars
<1>4. CASE TakeRequest
  <2>1. thread' = "encode" /\ UNCHANGED <<slot, hand, offered>> /\ thread = "force"
    BY <1>4 DEF TakeRequest
  <2>2. UNCHANGED <<wire, progress, mishaps>>
    BY <1>4 DEF TakeRequest, clientVars
  <2> QED BY <2>1, <2>2 DEF Data, Frame
<1>5. CASE Encode
  <2>1. IsIdr \in BOOLEAN
    BY DEF IsIdr, Flags
  <2>2. wire' \in Seq(BOOLEAN)
    BY <1>5, <2>1 DEF Encode, Data
  <2> QED BY <1>5, <2>2 DEF Encode, Encoded, Data, Frame, clientVars
<1>6. CASE EncodeFails
  <2>1. mishaps' \in 0..MaxMishaps
    BY <1>6, VideoAssumption DEF EncodeFails, Mishap, Data
  <2> QED BY <1>6, <2>1 DEF EncodeFails, Encoded, Data, Frame, clientVars
<1>7. CASE Stop
  BY <1>7 DEF Stop, Data, Frame, clientVars
<1>8. CASE Announced
  BY <1>8 DEF Announced, Data, Frame, encoderVars
<1>9. ASSUME wire # <<>> PROVE Tail(wire) \in Seq(BOOLEAN)
  BY <1>9 DEF Data
<1>10. CASE Arrive
  <2>1. wire' \in Seq(BOOLEAN)
    BY <1>9, <1>10 DEF Arrive
  <2> QED BY <1>10, <2>1 DEF Arrive, Data, Frame, encoderVars
<1>11. CASE Lost
  <2>1. wire' \in Seq(BOOLEAN)
    BY <1>9, <1>11 DEF Lost
  <2>2. mishaps' \in 0..MaxMishaps
    BY <1>11, VideoAssumption DEF Lost, Mishap, Data
  <2> QED BY <1>11, <2>1, <2>2 DEF Lost, Data, Frame, encoderVars
<1>12. CASE Reported
  BY <1>12 DEF Reported, Data, Frame, encoderVars
<1>13. CASE Ages
  BY <1>13 DEF Ages, Data, Frame, encoderVars
<1>14. CASE Respawn
  <2>1. mishaps' \in 0..MaxMishaps
    BY <1>14, VideoAssumption DEF Respawn, Mishap, Data
  <2> QED BY <1>14, <2>1 DEF Respawn, Data, Frame, encoderVars
<1>15. CASE Tick
  <2>1. mishaps' \in 0..MaxMishaps
    BY <1>15, VideoAssumption DEF Tick, Mishap, Data
  <2> QED BY <1>15, <2>1 DEF Tick, Data, Frame, clientVars
<1>16. CASE UNCHANGED vars
  BY <1>16 DEF vars, encoderVars, clientVars, Data, Frame
<1> QED BY <1>1, <1>2, <1>3, <1>4, <1>5, <1>6, <1>7, <1>8, <1>10, <1>11, <1>12,
           <1>13, <1>14, <1>15, <1>16 DEF Next, EncoderThread

(* Every variable keeps to its type: the encoder thread has a frame exactly  *)
(* while it encodes, the mishaps stay within their bound, and only access    *)
(* units are under way.                                                      *)
THEOREM TypesHold ==
  Spec => []TypeOK
<1>1. Flags /\ Data => TypeOK
  BY DEF Flags, Data, TypeOK
<1>2. (Flags /\ Data) /\ [Next]_vars => (Flags /\ Data)'
  BY FlagsKept, DataKept
<1> QED BY <1>1, <1>2, TypesBegin, PTL DEF Spec

----------------------------------------------------------------------------
LEMMA FreshestKept ==
  ASSUME Freshest, [Next]_vars
  PROVE  Freshest'
<1>1. CASE Capture
  BY <1>1, VideoAssumption DEF Capture, PushedOver, Freshest, LatestWins
<1>2. CASE Take
  BY <1>2, VideoAssumption DEF Take, TimesOut, Freshest, LatestWins
<1>3. CASE Encode \/ EncodeFails
  BY <1>3, VideoAssumption DEF Encode, EncodeFails, Encoded, Freshest, LatestWins
<1>4. ASSUME UNCHANGED <<slot, hand, offered>> PROVE Freshest'
  BY <1>4 DEF Freshest, LatestWins
<1>5. CASE Loop \/ TakeRequest \/ Stop \/ Tick
  <2>1. TakeRequest => UNCHANGED <<slot, hand, offered>>
    BY DEF TakeRequest
  <2>2. Tick => UNCHANGED <<slot, hand, offered>>
    BY DEF Tick
  <2>3. Loop \/ Stop => UNCHANGED <<slot, hand, offered>>
    BY DEF Loop, Stop
  <2> QED BY <1>4, <1>5, <2>1, <2>2, <2>3
<1>6. CASE Announced \/ Arrive \/ Lost \/ Reported \/ Ages \/ Respawn
  BY <1>4, <1>6 DEF Announced, Arrive, Lost, Reported, Ages, Respawn, encoderVars
<1>7. CASE UNCHANGED vars
  BY <1>4, <1>7 DEF vars, encoderVars
<1> QED BY <1>1, <1>2, <1>3, <1>5, <1>6, <1>7 DEF Next, EncoderThread

(* Whenever no frame waits for the encoder, the one it got last is the       *)
(* newest that was captured.                                                 *)
THEOREM NewestEncoded ==
  Spec => []LatestWins
<1>1. Init => Freshest
  BY VideoAssumption DEF Init, Freshest, LatestWins
<1>2. Freshest => LatestWins
  BY DEF Freshest
<1> QED BY <1>1, <1>2, FreshestKept, PTL DEF Spec

----------------------------------------------------------------------------
LEMMA RequestKept ==
  ASSUME TypeOK, KeyframeKept, [Next]_vars
  PROVE  KeyframeKept'
<1>1. CASE TakeRequest
  <2>1. asked' = asked /\ intra' = (intra \/ idr)
    BY <1>1 DEF TakeRequest
  <2> QED BY <2>1 DEF KeyframeKept
<1>2. CASE Encode
  <2>1. asked' = (asked /\ ~IsIdr) /\ idr' = idr
    BY <1>2 DEF Encode
  <2> QED BY <2>1 DEF IsIdr, KeyframeKept
<1>3. CASE EncodeFails
  <2>1. asked' = asked /\ idr' = idr /\ (intra' = intra \/ intra' = IsIdr)
    BY <1>3 DEF EncodeFails
  <2> QED BY <2>1 DEF IsIdr, KeyframeKept
<1>4. CASE Tick
  <2>1. \/ asked' = (asked \/ ~shutdown) /\ idr' = (idr \/ ~shutdown)
        \/ asked' = asked /\ idr' = idr
    BY <1>4 DEF Tick
  <2>2. intra' = intra
    BY <1>4 DEF Tick
  <2> QED BY <2>1, <2>2 DEF KeyframeKept
<1>5. ASSUME UNCHANGED <<asked, idr, intra>> PROVE KeyframeKept'
  BY <1>5 DEF KeyframeKept
<1>6. CASE Capture \/ Loop \/ Take \/ Stop
  BY <1>5, <1>6 DEF Capture, Loop, Take, Stop
<1>7. CASE Announced \/ Arrive \/ Lost \/ Reported \/ Ages \/ Respawn
  BY <1>5, <1>7 DEF Announced, Arrive, Lost, Reported, Ages, Respawn, encoderVars
<1>8. CASE UNCHANGED vars
  BY <1>5, <1>8 DEF vars, encoderVars
<1> QED BY <1>1, <1>2, <1>3, <1>4, <1>6, <1>7, <1>8 DEF Next, EncoderThread

(* A keyframe request is kept, in Shared.idr or in the encoder, until an IDR *)
(* is made, whatever is encoded or fails meanwhile.                          *)
THEOREM RequestsNotLost ==
  Spec => []KeyframeKept
<1>1. Init => KeyframeKept
  BY DEF Init, KeyframeKept
<1> QED BY <1>1, TypesHold, RequestKept, PTL DEF Spec
=============================================================================
