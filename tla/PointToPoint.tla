---------------------------- MODULE PointToPoint ----------------------------
(***************************************************************************)
(* The point-to-point radio (DFRobot_LoRaRadio.cpp) over the SX126x driver *)
(* (radio.c, sx126x.c).  A call of the sketch is a short program of        *)
(* commands to the chip and the antenna switch.  No lock covers such a     *)
(* program: the sketch's task and the LoRa task, which handles interrupts  *)
(* and runs the callbacks, both call and interleave between any two        *)
(* commands, and the chip raises flags whenever it likes.  A single        *)
(* command on the bus is atomic.                                           *)
(*                                                                         *)
(* Packets heard are numbered, the sketch's own frames are all OWN.  The   *)
(* chip receives continuously, as this class configures it.  Timeouts have *)
(* no callback here and change nothing, so the driver's OperatingMode,     *)
(* which only they read, is left out; deepSleepMs ends the program.        *)
(***************************************************************************)
EXTENDS Integers, Sequences

CONSTANTS
    MaxCalls,      \* bound on the sketch's calls
    MaxPackets     \* bound on the packets heard

ASSUME PointToPointAssumption == MaxCalls \in Nat /\ MaxPackets \in Nat

VARIABLES
    todo,          \* by task, the commands of its calls still to carry out
    place,         \* where RadioBgIrqProcess is; "wait" outside
    inCallback,    \* whether it runs a callback, before going on at place
    chip,          \* what the chip is doing
    antenna,       \* LORA_ANTPWR
    dioMask,       \* the interrupts SX126xSetDioIrqParams enabled
    irqStatus,     \* the chip's interrupt flags
    buffer,        \* what is at the base address of the chip's buffer
    irqFired,      \* IrqFired
    loraIntSem,    \* the binary semaphore
    irqRegs,       \* the flags RadioBgIrqProcess read
    payload,       \* RadioRxPayload
    heard, good,   \* how many packets were heard, and which without error
    calls,
    unreported,    \* whether the end of a frame awaits its callback
    wiped,         \* whether the last frame to end was wiped unread
    delivered,     \* the packets given to the receive callback
    overrun        \* the packets heard when their flags would not be read
                   \* together with them

chipVars     == <<chip, antenna, dioMask, irqStatus, buffer, heard, good>>
driverVars   == <<irqFired, loraIntSem, irqRegs, payload>>
observerVars == <<unreported, wiped, delivered, overrun>>
vars         == <<todo, place, inCallback, calls, chipVars, driverVars, observerVars>>

Tasks  == {"app", "lora"}
Flags  == {"TX_DONE", "RX_DONE", "CRC_ERROR", "CAD_DONE", "CAD_ACTIVITY_DETECTED"}
Modes  == {"STDBY", "TX", "RX", "CAD"}
Places == {"wait", "get", "clear", "txDone", "getPayload", "rxDone", "cadDone"}
NONE   == 0
OWN    == -1

(* The commands of a program, with what they set.                          *)
Antenna(on) == <<"antenna", on>>
Irqs(fs)    == <<"irqs", fs>>
Payload     == <<"payload", OWN>>
Chip(m)     == <<"chip", m>>

RadioStandby == <<Antenna(FALSE), Chip("STDBY")>>
RadioRx      == <<Antenna(TRUE), Irqs(Flags), Chip("RX")>>
RadioSend    == <<Antenna(TRUE), Irqs({"TX_DONE"}), Payload, Chip("TX")>>
RadioStartCad ==
    <<Antenna(TRUE), Irqs({"CAD_DONE", "CAD_ACTIVITY_DETECTED"}), Chip("CAD")>>

(* sendData; startRx; startCad; and stopRx, setBW, setSF and setEIRP,      *)
(* which all put the radio into standby.                                   *)
Programs == {RadioSend, RadioRx, RadioStartCad, RadioStandby}

(* Mutants: the flags are cleared before they are read, or not at all.     *)
AfterClearingFirst ==
    [wait |-> "clear", clear |-> "get", get |-> "txDone", txDone |-> "getPayload",
     getPayload |-> "rxDone", rxDone |-> "cadDone", cadDone |-> "wait"]
AfterWithoutClearing ==
    [wait |-> "get", get |-> "txDone", clear |-> "txDone", txDone |-> "getPayload",
     getPayload |-> "rxDone", rxDone |-> "cadDone", cadDone |-> "wait"]

(* Where RadioBgIrqProcess goes on from each of its places.                *)
After == [wait |-> "get", get |-> "clear", clear |-> "txDone", txDone |-> "getPayload",
          getPayload |-> "rxDone", rxDone |-> "cadDone", cadDone |-> "wait"]

Init ==
    /\ todo = [t \in Tasks |-> << >>]
    /\ place = "wait" /\ inCallback = FALSE
    /\ chip = "STDBY" /\ antenna = FALSE
    /\ dioMask = Flags /\ irqStatus = {}
    /\ buffer = NONE
    /\ irqFired = FALSE /\ loraIntSem = FALSE
    /\ irqRegs = {} /\ payload = NONE
    /\ heard = 0 /\ good = {} /\ calls = 0
    /\ unreported = FALSE /\ wiped = FALSE
    /\ delivered = {} /\ overrun = {}

-----------------------------------------------------------------------------
(* A call, from the sketch's task or from a callback.                      *)
Call(t) ==
    /\ calls < MaxCalls
    /\ todo[t] = << >>
    /\ t = "lora" => inCallback
    /\ calls' = calls + 1
    /\ \E p \in Programs : todo' = [todo EXCEPT ![t] = p]
    /\ UNCHANGED <<place, inCallback, chipVars, driverVars, observerVars>>

(* The next command of a task's program.                                   *)
Does(t, op) ==
    /\ todo[t] # << >>
    /\ Head(todo[t])[1] = op
    /\ todo' = [todo EXCEPT ![t] = Tail(@)]
    /\ UNCHANGED <<place, inCallback, calls, irqRegs, payload, heard, good, observerVars>>
Value(t) == Head(todo[t])[2]

SetAntenna(t) ==
    /\ Does(t, "antenna")
    /\ antenna' = Value(t)
    /\ UNCHANGED <<chip, dioMask, irqStatus, buffer, irqFired, loraIntSem>>

(* DIO1 rises when an enabled flag is up and none was: RadioOnDioIrq wakes *)
(* the LoRa task.                                                          *)
DioLine(up, before) ==
    /\ irqFired' = (irqFired \/ (up /\ ~before))
    /\ loraIntSem' = (loraIntSem \/ (up /\ ~before))
IsUp(mask, flags) == mask \cap flags # {}

SX126xSetDioIrqParams(t) ==
    /\ Does(t, "irqs")
    /\ dioMask' = Value(t)
    /\ DioLine(IsUp(dioMask', irqStatus), IsUp(dioMask, irqStatus))
    /\ UNCHANGED <<chip, antenna, irqStatus, buffer>>

SX126xSetPayload(t) ==
    /\ Does(t, "payload")
    /\ buffer' = OWN
    /\ UNCHANGED <<chip, antenna, dioMask, irqStatus, irqFired, loraIntSem>>

SetChip(t) ==
    /\ Does(t, "chip")
    /\ chip' = Value(t)
    /\ UNCHANGED <<antenna, dioMask, irqStatus, buffer, irqFired, loraIntSem>>

-----------------------------------------------------------------------------
(* The chip raises the flags that are enabled.                             *)
Raises(fs) ==
    /\ irqStatus' = irqStatus \cup (fs \cap dioMask)
    /\ DioLine(IsUp(dioMask, irqStatus'), IsUp(dioMask, irqStatus))
    /\ UNCHANGED <<todo, place, inCallback, calls, antenna, dioMask, irqRegs, payload, delivered>>

TransmissionEnds ==
    /\ chip = "TX"
    /\ chip' = "STDBY"
    /\ Raises({"TX_DONE"})
    /\ unreported' = (unreported \/ "TX_DONE" \in dioMask)
    /\ wiped' = IF "TX_DONE" \in dioMask THEN place = "clear" ELSE wiped
    /\ UNCHANGED <<buffer, heard, good, overrun>>

(* What is heard between the reading of the flags and that of the payload, *)
(* or while the receive flags are off, has none when its payload is read.  *)
Announced ==
    /\ {"RX_DONE", "CRC_ERROR"} \subseteq dioMask
    /\ place \notin {"clear", "txDone", "getPayload"}

PacketHeard ==
    /\ chip = "RX" /\ antenna
    /\ heard < MaxPackets
    /\ heard' = heard + 1
    /\ buffer' = heard + 1
    /\ \/ Raises({"RX_DONE"}) /\ good' = good \cup {heard + 1}
       \/ Raises({"RX_DONE", "CRC_ERROR"}) /\ UNCHANGED good
    /\ overrun' = IF Announced THEN overrun ELSE overrun \cup {heard + 1}
    /\ UNCHANGED <<chip, unreported, wiped>>

ActivityDetected ==
    /\ chip = "CAD"
    /\ chip' = "STDBY"
    /\ \E fs \in {{"CAD_DONE"}, {"CAD_DONE", "CAD_ACTIVITY_DETECTED"}} : Raises(fs)
    /\ UNCHANGED <<buffer, heard, good, unreported, wiped, overrun>>

-----------------------------------------------------------------------------
(* loraRadioTask and RadioBgIrqProcess.                                    *)
At(p) == place = p /\ ~inCallback
GoesOn == place' = After[place] /\ UNCHANGED <<todo, calls>>

LoRaTaskWakes ==
    /\ loraIntSem /\ At("wait")
    /\ loraIntSem' = FALSE
    /\ irqFired' = FALSE
    /\ IF irqFired THEN GoesOn ELSE UNCHANGED <<todo, place, calls>>
    /\ UNCHANGED <<inCallback, chipVars, irqRegs, payload, observerVars>>

SX126xGetIrqStatus ==
    /\ At("get") /\ GoesOn
    /\ irqRegs' = irqStatus
    /\ UNCHANGED <<inCallback, chipVars, irqFired, loraIntSem, payload, observerVars>>

SX126xClearIrqStatus ==
    /\ At("clear") /\ GoesOn
    /\ irqStatus' = {}
    /\ UNCHANGED <<inCallback, chip, antenna, dioMask, buffer, heard, good, driverVars,
                   observerVars>>

HandleTxDone ==
    /\ At("txDone") /\ GoesOn
    /\ inCallback' = ("TX_DONE" \in irqRegs)
    /\ unreported' = IF "TX_DONE" \in irqRegs THEN "TX_DONE" \in irqStatus ELSE unreported
    /\ UNCHANGED <<chipVars, driverVars, wiped, delivered, overrun>>

SX126xGetPayload ==
    /\ At("getPayload") /\ GoesOn
    /\ payload' = IF "RX_DONE" \in irqRegs THEN buffer ELSE payload
    /\ UNCHANGED <<inCallback, chipVars, irqFired, loraIntSem, irqRegs, observerVars>>

(* loraRxCb gets the packet, RxError what failed its CRC.                  *)
HasPacket == "RX_DONE" \in irqRegs /\ "CRC_ERROR" \notin irqRegs
HandleRxDone ==
    /\ At("rxDone") /\ GoesOn
    /\ inCallback' = ("RX_DONE" \in irqRegs)
    /\ delivered' = IF HasPacket THEN delivered \cup {payload} ELSE delivered
    /\ UNCHANGED <<chipVars, driverVars, unreported, wiped, overrun>>

HandleCadDone ==
    /\ At("cadDone") /\ GoesOn
    /\ inCallback' = ("CAD_DONE" \in irqRegs)
    /\ UNCHANGED <<chipVars, driverVars, observerVars>>

CallbackReturns ==
    /\ inCallback /\ todo["lora"] = << >>
    /\ inCallback' = FALSE
    /\ UNCHANGED <<todo, place, calls, chipVars, driverVars, observerVars>>

-----------------------------------------------------------------------------
Command(t) ==
    \/ SetAntenna(t) \/ SX126xSetDioIrqParams(t) \/ SX126xSetPayload(t) \/ SetChip(t)

RadioBgIrqProcess ==
    \/ SX126xGetIrqStatus \/ SX126xClearIrqStatus \/ HandleTxDone
    \/ SX126xGetPayload \/ HandleRxDone \/ HandleCadDone \/ CallbackReturns

LoRaTask == LoRaTaskWakes \/ RadioBgIrqProcess \/ Command("lora")

Chips == TransmissionEnds \/ PacketHeard \/ ActivityDetected

Next == (\E t \in Tasks : Call(t)) \/ Command("app") \/ LoRaTask \/ Chips

Spec == Init /\ [][Next]_vars

(* The tasks run and callbacks return.                                     *)
FairSpec == Spec /\ WF_vars(Command("app")) /\ WF_vars(LoRaTask)

-----------------------------------------------------------------------------
(* Every variable has the type the code gives it.                          *)
TypeOK ==
    /\ chip \in Modes /\ place \in Places
    /\ dioMask \subseteq Flags /\ irqStatus \subseteq Flags /\ irqRegs \subseteq Flags
    /\ {buffer, payload} \subseteq -1..MaxPackets
    /\ {antenna, inCallback, irqFired, loraIntSem, unreported, wiped} \subseteq BOOLEAN
    /\ delivered \subseteq -1..MaxPackets
    /\ good \subseteq 1..MaxPackets /\ overrun \subseteq 1..MaxPackets
    /\ heard \in 0..MaxPackets /\ calls \in 0..MaxCalls

(* Every frame whose end the chip was asked to report is reported to the   *)
(* sketch, whatever flags of earlier receptions and detections, new masks  *)
(* and a line that is still up come in between.  The one way to lose the   *)
(* callback is an end that falls between the handler's reading of the      *)
(* flags and its clearing of all of them, as radio.c orders the two.       *)
FrameReported == unreported ~> ~unreported \/ wiped

(* The receive callback gets no packet a second time and none that failed  *)
(* its CRC, whichever tasks call and also where one reading reports a sent *)
(* frame and a packet.  It may get the sketch's own frame instead, for     *)
(* both are kept at the same place of the chip's buffer, and an overrun    *)
(* packet, whose flags are not those the handler decides by, twice or with *)
(* errors.                                                                 *)
GivesPacket == HasPacket /\ place = "rxDone" /\ place' # place
DeliveredOnce ==
    [][GivesPacket => payload \in {OWN} \cup overrun \cup (good \ delivered)]_vars

(* Not kept: while no call is under way, a chip that sends or listens has  *)
(* its antenna.  stopRx of one task turns it off in the middle of sendData *)
(* or startRx of the other, before or after the chip is set.               *)
AntennaOn ==
    (\A t \in Tasks : todo[t] = << >>) /\ chip # "STDBY" => antenna
=============================================================================
