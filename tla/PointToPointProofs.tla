------------------------- MODULE PointToPointProofs -------------------------
(***************************************************************************)
(* Proofs about the point-to-point radio for any number of calls, from     *)
(* both tasks, and of packets.  The inductive invariant follows a packet   *)
(* from the flag that announces it to its callback: what the buffer holds  *)
(* while the flag is up, what the handler is about to read, and what it    *)
(* has read.                                                               *)
(***************************************************************************)
EXTENDS PointToPoint, TLAPS

(* What may be given out at any time, and what may be given out once.      *)
Loose(p) == p \in {OWN} \cup overrun
Fresh(p) == Loose(p) \/ p \in good \ delivered

(* The flags announce a packet without errors.                             *)
Pending == "RX_DONE" \in irqStatus /\ "CRC_ERROR" \notin irqStatus

(* Packets carry the numbers of those heard.                               *)
Numbers ==
    /\ heard \in Nat
    /\ good \subseteq 1..heard /\ delivered \subseteq -1..heard
    /\ buffer \in -1..heard /\ payload \in -1..heard

(* An announced packet was not yet given out.                              *)
AnnouncedFresh == Pending => Fresh(buffer)

(* Nor was the one the handler has decided to read; whatever was heard     *)
(* since the flags were cleared is an overrun.                             *)
ReadFresh ==
    /\ place \in {"clear", "txDone", "getPayload"} /\ HasPacket => Fresh(buffer)
    /\ place \in {"txDone", "getPayload"} /\ Pending => Loose(buffer)

(* Nor the one it has read, and no flag announces it again.                *)
GivenFresh ==
    place = "rxDone" /\ HasPacket =>
        /\ Fresh(payload)
        /\ Pending => Loose(buffer) \/ buffer # payload

FreshInv == Numbers /\ AnnouncedFresh /\ ReadFresh /\ GivenFresh

(* The variables the invariant speaks of.                                  *)
packetVars == <<place, irqStatus, buffer, irqRegs, payload, heard, good, delivered, overrun>>

-----------------------------------------------------------------------------
(* The radio starts with no packet.                                        *)
LEMMA FreshInit == Init => FreshInv
  BY DEF Init, FreshInv, Numbers, AnnouncedFresh, ReadFresh, GivenFresh, Pending, HasPacket,
         NONE, OWN

(* Nothing changes while none of these variables does.                     *)
LEMMA FreshUnchanged == FreshInv /\ UNCHANGED packetVars => FreshInv'
  BY DEF FreshInv, Numbers, AnnouncedFresh, ReadFresh, GivenFresh, Pending, HasPacket, Fresh,
         Loose, packetVars

(* Calls, commands and what the chip does besides hearing packets leave    *)
(* the packet flags alone; a frame to send takes the packet's place.       *)
LEMMA FreshOutside ==
    ASSUME FreshInv,
           \/ \E t \in Tasks : Call(t) \/ Command(t)
           \/ TransmissionEnds \/ ActivityDetected
    PROVE  FreshInv'
<1>1. ASSUME NEW t \in Tasks, Call(t) PROVE FreshInv'
  <2>1. UNCHANGED packetVars
    BY <1>1, Zenon DEF Call, packetVars, chipVars, driverVars, observerVars
  <2> QED BY <2>1, FreshUnchanged
<1>2. ASSUME NEW t \in Tasks, SetAntenna(t) \/ SX126xSetDioIrqParams(t) \/ SetChip(t)
      PROVE  FreshInv'
  <2>1. UNCHANGED packetVars
    BY <1>2, Zenon DEF SetAntenna, SX126xSetDioIrqParams, SetChip, Does, packetVars, observerVars
  <2> QED BY <2>1, FreshUnchanged
<1>3. ASSUME NEW t \in Tasks, SX126xSetPayload(t) PROVE FreshInv'
  <2>1. /\ buffer' = OWN
        /\ UNCHANGED <<place, irqStatus, irqRegs, payload, heard, good, delivered, overrun>>
    BY <1>3, Zenon DEF SX126xSetPayload, Does, observerVars
  <2> QED BY <2>1 DEF FreshInv, Numbers, AnnouncedFresh, ReadFresh, GivenFresh, Pending,
                      HasPacket, Fresh, Loose, OWN
<1>4. ASSUME TransmissionEnds \/ ActivityDetected PROVE FreshInv'
  <2>1. /\ \E fs \in {{"TX_DONE"}, {"CAD_DONE"}, {"CAD_DONE", "CAD_ACTIVITY_DETECTED"}} :
              irqStatus' = irqStatus \cup (fs \cap dioMask)
        /\ UNCHANGED <<place, buffer, irqRegs, payload, heard, good, delivered, overrun>>
    BY <1>4, Zenon DEF TransmissionEnds, ActivityDetected, Raises
  <2>2. Pending' = Pending
    BY <2>1 DEF Pending
  <2> QED BY <2>1, <2>2 DEF FreshInv, Numbers, AnnouncedFresh, ReadFresh, GivenFresh, HasPacket,
                            Fresh, Loose
<1> QED BY <1>1, <1>2, <1>3, <1>4, Zenon DEF Command

(* A packet is new; announced, it is not among those to read, and its      *)
(* errors are.                                                             *)
LEMMA FreshHeard == FreshInv /\ PacketHeard => FreshInv'
<1> SUFFICES ASSUME FreshInv, PacketHeard PROVE FreshInv'
  OBVIOUS
<1>1. /\ heard' = heard + 1 /\ buffer' = heard + 1
      /\ overrun' = IF Announced THEN overrun ELSE overrun \cup {heard + 1}
      /\ UNCHANGED <<place, irqRegs, payload, delivered>>
      /\ \/ irqStatus' = irqStatus \cup ({"RX_DONE"} \cap dioMask) /\ good' = good \cup {heard + 1}
         \/ irqStatus' = irqStatus \cup ({"RX_DONE", "CRC_ERROR"} \cap dioMask) /\ good' = good
  BY Zenon DEF PacketHeard, Raises
<1>2. /\ good \subseteq good' /\ overrun \subseteq overrun'
      /\ \A p : Fresh(p) => Fresh(p)'
  BY <1>1 DEF Fresh, Loose
<1>3. Numbers'
  <2>1. heard \in Nat /\ 1..heard \subseteq 1..(heard + 1) /\ -1..heard \subseteq -1..(heard + 1)
        /\ heard + 1 \in 1..(heard + 1) /\ heard + 1 \in -1..(heard + 1)
    BY DEF FreshInv, Numbers
  <2>2. heard' \in Nat /\ buffer' \in -1..heard' /\ payload' \in -1..heard'
    BY <1>1, <2>1 DEF FreshInv, Numbers
  <2>3. good' \subseteq 1..heard' /\ delivered' \subseteq -1..heard'
    BY <1>1, <2>1 DEF FreshInv, Numbers
  <2> QED BY <2>2, <2>3 DEF Numbers
<1>4. heard + 1 \notin delivered /\ heard + 1 # payload
  BY DEF FreshInv, Numbers
<1>5. CASE Announced
  <2>1. place \notin {"clear", "txDone", "getPayload"}
    BY <1>5 DEF Announced
  <2>2. Pending' => heard + 1 \in good'
    BY <1>1, <1>5 DEF Announced, Pending
  <2>3. AnnouncedFresh'
    BY <1>1, <1>4, <2>2 DEF AnnouncedFresh, Fresh
  <2>4. GivenFresh'
    BY <1>1, <1>2, <1>4 DEF FreshInv, GivenFresh, HasPacket
  <2> QED BY <1>1, <1>3, <2>1, <2>3, <2>4 DEF FreshInv, ReadFresh
<1>6. CASE ~Announced
  <2>1. Loose(buffer)'
    BY <1>1, <1>6 DEF Loose
  <2>2. AnnouncedFresh' /\ ReadFresh'
    BY <2>1 DEF AnnouncedFresh, ReadFresh, Fresh
  <2>3. GivenFresh'
    BY <1>1, <1>2, <2>1 DEF FreshInv, GivenFresh, HasPacket
  <2> QED BY <1>3, <2>2, <2>3 DEF FreshInv
<1> QED BY <1>5, <1>6

(* The handler reads, clears and gives out in this order.                  *)
LEMMA FreshHandled ==
    ASSUME FreshInv, LoRaTaskWakes \/ RadioBgIrqProcess
    PROVE  FreshInv'
<1>1. CASE LoRaTaskWakes
  <2>1. /\ place = "wait" /\ place' \in {"wait", "get"}
        /\ UNCHANGED <<irqStatus, buffer, irqRegs, payload, heard, good, delivered, overrun>>
    BY <1>1, SMT DEF LoRaTaskWakes, At, GoesOn, After, chipVars, observerVars
  <2> QED BY <2>1 DEF FreshInv, Numbers, AnnouncedFresh, ReadFresh, GivenFresh, Pending, Fresh,
                      Loose
<1>2. CASE SX126xGetIrqStatus
  <2>1. /\ place' = "clear" /\ irqRegs' = irqStatus
        /\ UNCHANGED <<irqStatus, buffer, payload, heard, good, delivered, overrun>>
    BY <1>2, SMT DEF SX126xGetIrqStatus, At, GoesOn, After, chipVars, observerVars
  <2> QED BY <2>1 DEF FreshInv, Numbers, AnnouncedFresh, ReadFresh, GivenFresh, Pending,
                      HasPacket, Fresh, Loose
<1>3. CASE SX126xClearIrqStatus
  <2>1. /\ place = "clear" /\ place' = "txDone" /\ irqStatus' = {}
        /\ UNCHANGED <<irqRegs, buffer, payload, heard, good, delivered, overrun>>
    BY <1>3, SMT DEF SX126xClearIrqStatus, At, GoesOn, After, driverVars, observerVars
  <2> QED BY <2>1 DEF FreshInv, Numbers, AnnouncedFresh, ReadFresh, GivenFresh, Pending,
                      HasPacket, Fresh, Loose
<1>4. CASE HandleTxDone
  <2>1. /\ place = "txDone" /\ place' = "getPayload"
        /\ UNCHANGED <<irqStatus, irqRegs, buffer, payload, heard, good, delivered, overrun>>
    BY <1>4, SMT DEF HandleTxDone, At, GoesOn, After, chipVars, driverVars
  <2> QED BY <2>1 DEF FreshInv, Numbers, AnnouncedFresh, ReadFresh, GivenFresh, Pending,
                      HasPacket, Fresh, Loose
<1>5. CASE SX126xGetPayload
  <2>1. /\ place = "getPayload" /\ place' = "rxDone"
        /\ payload' = IF "RX_DONE" \in irqRegs THEN buffer ELSE payload
        /\ UNCHANGED <<irqStatus, irqRegs, buffer, heard, good, delivered, overrun>>
    BY <1>5, SMT DEF SX126xGetPayload, At, GoesOn, After, chipVars, observerVars
  <2> QED BY <2>1 DEF FreshInv, Numbers, AnnouncedFresh, ReadFresh, GivenFresh, Pending,
                      HasPacket, Fresh, Loose
<1>6. CASE HandleRxDone
  <2>1. /\ place = "rxDone" /\ place' = "cadDone"
        /\ delivered' = IF HasPacket THEN delivered \cup {payload} ELSE delivered
        /\ UNCHANGED <<irqStatus, irqRegs, buffer, payload, heard, good, overrun>>
    BY <1>6, SMT DEF HandleRxDone, At, GoesOn, After, chipVars, driverVars
  <2>2. AnnouncedFresh'
    BY <2>1 DEF FreshInv, AnnouncedFresh, GivenFresh, Pending, Fresh, Loose
  <2> QED BY <2>1, <2>2 DEF FreshInv, Numbers, ReadFresh, GivenFresh
<1>7. CASE HandleCadDone
  <2>1. /\ place = "cadDone" /\ place' = "wait"
        /\ UNCHANGED <<irqStatus, irqRegs, buffer, payload, heard, good, delivered, overrun>>
    BY <1>7, SMT DEF HandleCadDone, At, GoesOn, After, chipVars, driverVars, observerVars
  <2> QED BY <2>1 DEF FreshInv, Numbers, AnnouncedFresh, ReadFresh, GivenFresh, Pending, Fresh,
                      Loose
<1>8. CASE CallbackReturns
  <2>1. UNCHANGED packetVars
    BY <1>8, Zenon DEF CallbackReturns, packetVars, chipVars, driverVars, observerVars
  <2> QED BY <2>1, FreshUnchanged
<1> QED BY <1>1, <1>2, <1>3, <1>4, <1>5, <1>6, <1>7, <1>8, Zenon DEF RadioBgIrqProcess

LEMMA FreshNext == FreshInv /\ [Next]_vars => FreshInv'
<1> SUFFICES ASSUME FreshInv, [Next]_vars PROVE FreshInv'
  OBVIOUS
<1>1. CASE \E t \in Tasks : Call(t)
  BY <1>1, FreshOutside, Zenon
<1>2. CASE Command("app") \/ Command("lora")
  BY <1>2, FreshOutside, Zenon DEF Tasks
<1>3. CASE LoRaTaskWakes \/ RadioBgIrqProcess
  BY <1>3, FreshHandled, Zenon
<1>4. CASE TransmissionEnds \/ ActivityDetected
  BY <1>4, FreshOutside, Zenon
<1>5. CASE PacketHeard
  BY <1>5, FreshHeard, Zenon
<1>6. CASE UNCHANGED vars
  <2>1. UNCHANGED packetVars
    BY <1>6, Zenon DEF vars, packetVars, chipVars, driverVars, observerVars
  <2> QED BY <2>1, FreshUnchanged
<1> QED BY <1>1, <1>2, <1>3, <1>4, <1>5, <1>6, Zenon DEF Next, LoRaTask, Chips

(* No packet reaches the receive callback a second time and none that      *)
(* failed its CRC, but for the sketch's own frame and for overruns:        *)
(* however the calls of both tasks, the handler and the chip interleave    *)
(* (RadioBgIrqProcess).                                                    *)
THEOREM PacketsDeliveredOnce == Spec => DeliveredOnce
<1>1. FreshInv => (GivesPacket => payload \in {OWN} \cup overrun \cup (good \ delivered))
  BY DEF FreshInv, GivenFresh, GivesPacket, Fresh, Loose
<1> QED BY <1>1, FreshInit, FreshNext, PTL DEF Spec, DeliveredOnce
=============================================================================
