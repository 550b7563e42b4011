------------------------------ MODULE FCntDown ------------------------------
(***************************************************************************)
(* The downlink frame counter of a LoRaWAN 1.0 node: a frame carries the   *)
(* low half of the network's counter, the node extends it from the last    *)
(* one it accepted (LoRaMacCryptoGetFCntDown), and the MIC, computed with  *)
(* the whole counter, tells whether it guessed right.  The network and     *)
(* the air, which loses, delays and repeats frames, are external.  With it *)
(* goes the acknowledgement the node owes for a confirmed downlink, which  *)
(* Send reads when it begins and clears when it ends.  The multicast       *)
(* counters follow the same rules, each with a last value of its own.      *)
(***************************************************************************)
EXTENDS Integers, FiniteSets

CONSTANTS
    HalfRange,     \* 2^16: how many values FHDR.FCnt has
    MaxFCntGap,    \* REGION_COMMON_DEFAULT_MAX_FCNT_GAP
    ClassC,        \* the node listens whenever it does not transmit
    MaxAir         \* bound: frames that may still arrive

ASSUME HalfRangeAssumption == HalfRange \in Nat /\ HalfRange > 1
ASSUME GapAssumption == MaxFCntGap \in Nat /\ MaxFCntGap <= HalfRange
ASSUME ClassAssumption == ClassC \in BOOLEAN

VARIABLES
    lastDown,         \* FCntList.FCntDown
    srvAckRequested,  \* Nvm.MacGroup1.SrvAckRequested
    lastRxMic,        \* Nvm.MacGroup1.LastRxMic: the counter it was computed with
    activation,       \* "joined", "awaiting" a Join-Accept, or "none"
    uplink,           \* what Send is sending: "none", "plain", or with "ack"
    netDown,          \* the network's next counter
    air               \* frames that may arrive, perhaps again

downVars == <<lastDown, srvAckRequested, lastRxMic>>
nodeVars == <<downVars, activation, uplink>>
netVars == <<netDown, air>>
linkVars == <<nodeVars, netVars>>

-----------------------------------------------------------------------------
FullRange == HalfRange * HalfRange
FCntDownInitialValueWide == FullRange
FCntDownInitialValue == FullRange - 1
NoMic == FullRange

Counter == 0..(FullRange - 1)

(* A network starts a new session before its counter is used up.           *)
NetCounter == 0..(FullRange - 2)
Frame == [n : NetCounter, confirmed : BOOLEAN]

LowHalf(n) == n % HalfRange
HighHalf(n) == n - LowHalf(n)

(* LoRaMacCryptoGetFCntDown: the counter a frame stands for.               *)
CurrentDownNoRollover(last, fcnt) ==
    IF last = FCntDownInitialValue THEN fcnt ELSE HighHalf(last) + fcnt
CurrentDown(last, fcnt) ==
    IF last = FCntDownInitialValue THEN fcnt
    ELSE IF fcnt >= LowHalf(last) THEN last + (fcnt - LowHalf(last))
    ELSE (HighHalf(last) + HalfRange + fcnt) % FullRange

Duplicated(last, fcnt) == last # FCntDownInitialValue /\ fcnt = LowHalf(last)

TooManyLost(last, fcnt) == CurrentDown(last, fcnt) - last >= MaxFCntGap

CheckFCntDownAlways(last, current) == TRUE
CheckFCntDown(last, current) == current > last \/ last = FCntDownInitialValue

(* VerifyCmacB0 succeeds exactly with the counter the network used.        *)
VerifyMic(f, current) == current = f.n

Outcome(last, f) ==
    LET fcnt == LowHalf(f.n)
        current == CurrentDown(last, fcnt)
    IN IF Duplicated(last, fcnt) THEN "DOWNLINK_REPEATED"
       ELSE IF TooManyLost(last, fcnt) THEN "DOWNLINK_TOO_MANY_FRAMES_LOSS"
       ELSE IF CheckFCntDown(last, current) /\ VerifyMic(f, current) THEN "OK"
       ELSE "MIC_FAIL"

-----------------------------------------------------------------------------
DownInit ==
    /\ lastDown = FCntDownInitialValue
    /\ srvAckRequested = FALSE
    /\ lastRxMic = NoMic
    /\ activation = "joined"
    /\ uplink = "none"
    /\ netDown = 0
    /\ air = {}

NetworkSends(confirmed) ==
    /\ netDown \in NetCounter
    /\ Cardinality(air) < MaxAir
    /\ air' = air \cup {[n |-> netDown, confirmed |-> confirmed]}
    /\ netDown' = netDown + 1
    /\ UNCHANGED nodeVars

Lost(f) ==
    /\ air' = air \ {f}
    /\ UNCHANGED <<nodeVars, netDown>>

(* ProcessRadioRxDone of a data frame, up to the handling of its contents; *)
(* the frame may come again.  In class A it ends the windows of a join,    *)
(* and none is open while a request is being sent.                         *)
Hears == ClassC \/ (uplink = "none" /\ activation # "none")

WindowsEnd ==
    /\ activation' = IF ~ClassC /\ activation = "awaiting" THEN "none" ELSE activation
    /\ UNCHANGED uplink

RxAccepted(f) ==
    /\ Hears
    /\ Outcome(lastDown, f) = "OK"
    /\ lastDown' = f.n
    /\ srvAckRequested' = f.confirmed
    /\ lastRxMic' = IF f.confirmed THEN f.n ELSE lastRxMic
    /\ WindowsEnd
    /\ UNCHANGED netVars

RxRepeatedAny(f) ==
    /\ Hears
    /\ Outcome(lastDown, f) = "DOWNLINK_REPEATED"
    /\ srvAckRequested' = (srvAckRequested \/ f.confirmed)
    /\ WindowsEnd
    /\ UNCHANGED <<lastDown, lastRxMic, netVars>>
RxRepeated(f) ==
    /\ Hears
    /\ Outcome(lastDown, f) = "DOWNLINK_REPEATED"
    /\ srvAckRequested' = (srvAckRequested \/ (f.confirmed /\ lastRxMic = f.n))
    /\ WindowsEnd
    /\ UNCHANGED <<lastDown, lastRxMic, netVars>>

RxAborted(f) ==
    /\ Hears
    /\ Outcome(lastDown, f) \in {"DOWNLINK_TOO_MANY_FRAMES_LOSS", "MIC_FAIL"}
    /\ WindowsEnd
    /\ UNCHANGED <<downVars, netVars>>

(* Send decides on the ACK bit before it prepares and schedules the frame, *)
(* and clears SrvAckRequested once it went out.                            *)
SendBegins ==
    /\ activation = "joined" /\ uplink = "none"
    /\ uplink' = IF srvAckRequested THEN "ack" ELSE "plain"
    /\ UNCHANGED <<downVars, activation, netVars>>

SendSucceeds ==
    /\ uplink # "none"
    /\ uplink' = "none"
    /\ srvAckRequested' = FALSE
    /\ UNCHANGED <<lastDown, lastRxMic, activation, netVars>>

SendFails ==
    /\ uplink # "none"
    /\ uplink' = "none"
    /\ UNCHANGED <<downVars, activation, netVars>>

(* LoRaMacMlmeRequest(MLME_JOIN): ResetMacParameters; the keys and the     *)
(* counters of the old session stay until the Join-Accept.                 *)
JoinRequest ==
    /\ uplink = "none"
    /\ activation' = "awaiting"
    /\ srvAckRequested' = FALSE
    /\ UNCHANGED <<lastDown, lastRxMic, uplink, netVars>>

(* LoRaMacCryptoHandleJoinAccept.  Under the new keys no frame of the old  *)
(* session is accepted and LastRxMic equals the MIC of none.               *)
JoinAccept ==
    /\ activation = "awaiting"
    /\ activation' = "joined"
    /\ lastDown' = FCntDownInitialValue
    /\ lastRxMic' = NoMic
    /\ netDown' = 0
    /\ air' = {}
    /\ UNCHANGED <<srvAckRequested, uplink>>

DownNext ==
    \/ \E confirmed \in BOOLEAN : NetworkSends(confirmed)
    \/ \E f \in air : Lost(f) \/ RxAccepted(f) \/ RxRepeated(f) \/ RxAborted(f)
    \/ SendBegins \/ SendSucceeds \/ SendFails
    \/ JoinRequest \/ JoinAccept

DownSpec == DownInit /\ [][DownNext]_linkVars

-----------------------------------------------------------------------------
(* Every counter keeps its width, and the value that stands for "none yet" *)
(* is never one the network used.                                          *)
DownTypeOK ==
    /\ lastDown \in Counter
    /\ srvAckRequested \in BOOLEAN
    /\ lastRxMic \in NetCounter \cup {NoMic}
    /\ activation \in {"joined", "awaiting", "none"}
    /\ uplink \in {"none", "plain", "ack"}
    /\ netDown \in Counter
    /\ air \subseteq Frame

(* A frame newer than the last one is accepted whenever fewer than         *)
(* MaxFCntGap counters lie between, across every roll-over of the low      *)
(* half; the first of a session as long as it fits in it                   *)
(* (LoRaMacCryptoGetFCntDown, the gap check, CheckFCntDown and the MIC).   *)
Fresh(last, f) ==
    IF last = FCntDownInitialValue THEN f.n < HalfRange
    ELSE last < f.n /\ f.n - last < MaxFCntGap
FreshAccepted == \A f \in air : Fresh(lastDown, f) => Outcome(lastDown, f) = "OK"

(* Within a session the counter only grows, so no frame, however late or   *)
(* often it comes, is accepted twice (CheckFCntDown, UpdateFCntDown).      *)
CounterOnlyGrows ==
    [][lastDown' # lastDown =>
        \/ lastDown = FCntDownInitialValue
        \/ lastDown' = FCntDownInitialValue /\ netDown' = 0
        \/ lastDown' > lastDown]_linkVars

(* The node owes an acknowledgement only for a confirmed downlink of this  *)
(* session that it accepted and that the header of its last one still      *)
(* names: repetitions of anything else, be they confirmed, do not ask      *)
(* again, and a join carries nothing over (SrvAckRequested, LastRxMic).    *)
(* Only a frame a whole low half late can be acknowledged after newer ones.*)
AckAnswersAccepted ==
    srvAckRequested => lastRxMic # NoMic /\ LowHalf(lastRxMic) = LowHalf(lastDown)
=============================================================================
