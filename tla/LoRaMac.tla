------------------------------ MODULE LoRaMac ------------------------------
(***************************************************************************)
(* Data uplinks of a joined class A or class C node (src/mac/LoRaMac.c).   *)
(* Three contexts interleave: the application task (LoRaMacMcpsRequest),   *)
(* the timer task (the On...TimerEvent callbacks) and the LoRa task, which *)
(* sleeps on a semaphore that only the radio's DIO interrupt gives and     *)
(* then runs Radio.BgIrqProcess and LoRaMacProcess once.                   *)
(*                                                                         *)
(* Frames are reduced to what the properties tell apart: which request a   *)
(* frame belongs to, the counter in its header, the counter of its MIC.    *)
(* Time is reduced to how far it has run since the last transmission.      *)
(***************************************************************************)
EXTENDS Integers, FiniteSets

CONSTANTS
    RequestTypes,    \* the request types the application makes
    DeviceClass,     \* Nvm.MacGroup2.DeviceClass
    ChannelsNbTrans, \* Nvm.MacGroup2.MacParams.ChannelsNbTrans
    NbTrials,        \* NbTrials of a confirmed request, at most MAX_ACK_RETRIES
    TxPlans,         \* what ScheduleTx may find: a channel, none yet, none although
                     \* there is nothing left to wait for, none at all
    Downlinks,       \* what the network may send
    TxMayTimeOut,    \* whether a transmission may end in a radio timeout
    FCntModulus,     \* 2^16: the header carries the low bits of the counter
    FlagModulus,     \* 2^8: rxtimeoutflag is an uint8_t
    MaxRequests,     \* bound on the requests the application makes
    MaxSleeps        \* bound on the deep sleeps

Mcps == {"MCPS_UNCONFIRMED", "MCPS_CONFIRMED"}

ASSUME UplinkAssumption ==
    /\ RequestTypes \subseteq Mcps
    /\ DeviceClass \in {"CLASS_A", "CLASS_C"}
    /\ ChannelsNbTrans \in Nat \ {0}
    /\ NbTrials \in Nat \ {0}
    /\ TxPlans \subseteq {"OK", "RESTRICTED", "NO_WAIT", "ERROR"}
    /\ Downlinks \subseteq {"ACK", "DATA", "PROPRIETARY", "INVALID"}
    /\ TxMayTimeOut \in BOOLEAN
    /\ FCntModulus \in Nat \ {0}
    /\ FlagModulus \in Nat \ {0}
    /\ MaxRequests \in Nat
    /\ MaxSleeps \in Nat

VARIABLES
    macState,      \* MacCtx.MacState, the set of its bits; LORAMAC_IDLE is {}
    macFlags,      \* MacCtx.MacFlags, the set of its bits
    nodeAckRequested,
    ackTimeoutRetry,
    ackTimeoutRetries,
    ackTimeoutRetriesCounter,
    channelsNbTransCounter,
    mcpsConfirm,   \* MacCtx.McpsConfirm
    rxSlot,        \* MacCtx.RxSlot
    indSlot,       \* MacCtx.McpsIndication.RxSlot
    txMsg,         \* MacCtx.TxMsg: the request and the header's counter
    fCntUp,        \* Nvm.Crypto.FCntList.FCntUp
    rxtimeoutflag,
    frame,         \* what Radio.Send was last given, and how often for its request
    unscheduled,   \* observer: a repetition was neither sent nor delayed
    cutShort,      \* observer: an exchange was ended from outside LoRaMacProcess
    chip,          \* what the transceiver is doing
    opMode,        \* what the driver takes it to be doing
    rxContinuous,  \* RxContinuous of the driver
    irq,           \* the transceiver's interrupt status register
    rxFrame,       \* the downlink in the transceiver's buffer
    loraIntSem,    \* the binary semaphore the LoRa task takes
    radioEvents,   \* LoRaMacRadioEvents
    timers,        \* the running timers
    elapsed,       \* TimerGetElapsedTime(LastTxDoneTime), see Delays
    task,          \* where the LoRa task is
    events,        \* the snapshot LoRaMacHandleIrqEvents works on
    request,       \* the request LoRaMacMcpsRequest is about to send
    requests,      \* how many requests were made
    sleeps

retry    == <<nodeAckRequested, ackTimeoutRetry, ackTimeoutRetries,
              ackTimeoutRetriesCounter, channelsNbTransCounter>>
slotVars == <<rxSlot, indSlot>>
txVars   == <<txMsg, fCntUp, frame, unscheduled>>
radio    == <<chip, opMode, rxContinuous, irq, rxFrame>>
taskVars == <<task, events, radioEvents, loraIntSem>>
appVars  == <<request, requests, sleeps, cutShort>>
vars     == <<macState, macFlags, retry, mcpsConfirm, slotVars, txVars, rxtimeoutflag,
              radio, timers, elapsed, taskVars, appVars>>

-----------------------------------------------------------------------------
(* UpdateRxSlotIdleState; the slot a node is in when no window is open.    *)
IdleSlot == IF DeviceClass = "CLASS_C" THEN "CLASS_C" ELSE "NONE"

(* LoRaMacProcess switches requests off while it checks what is done.      *)
AllowRequestsAlways == TRUE
AllowRequests == task \notin {"mcps", "requestEvents"}

(* How far a timer must run, on the scale of elapsed.  The acknowledge     *)
(* timer runs one to three seconds longer than the second window's.        *)
Delays == [RxWindow1 |-> 1, RxWindow2 |-> 2, AckTimeout |-> 3]

Init ==
    /\ macState = {}
    /\ macFlags = {}
    /\ nodeAckRequested = FALSE
    /\ ackTimeoutRetry = FALSE
    /\ ackTimeoutRetries = 1
    /\ ackTimeoutRetriesCounter = 1
    /\ channelsNbTransCounter = 0
    /\ mcpsConfirm = [request |-> "MCPS_UNCONFIRMED", status |-> "OK",
                      ack |-> FALSE, counter |-> 0]
    /\ rxSlot = IdleSlot
    /\ indSlot = "WIN_1"
    /\ txMsg = [request |-> 0, fCnt |-> 0]
    /\ fCntUp = 0
    /\ rxtimeoutflag = 0
    /\ frame = [request |-> 0, fCnt |-> 0, mic |-> 0, confirmed |-> FALSE, times |-> 0]
    /\ unscheduled = FALSE /\ cutShort = FALSE
    /\ chip = IF DeviceClass = "CLASS_C" THEN "rx" ELSE "idle"
    /\ opMode = IF DeviceClass = "CLASS_C" THEN "rx" ELSE "idle"
    /\ rxContinuous = (DeviceClass = "CLASS_C")
    /\ irq = {}
    /\ rxFrame = "INVALID"
    /\ loraIntSem = 0
    /\ radioEvents = {}
    /\ timers = {}
    /\ elapsed = 3
    /\ task = "wait"
    /\ events = {}
    /\ request = "none"
    /\ requests = 0
    /\ sleeps = 0

-----------------------------------------------------------------------------
(* PrepareFrame: the header carries the low bits of the counter.           *)
HeaderFCntWide(counter) == counter
HeaderFCnt(counter) == counter % FCntModulus

(* SecureFrame: a repetition keeps its counter, a new frame takes the next.*)
SecureCounterAlwaysNext(nbTrans, trial) == fCntUp + 1
SecureCounter(nbTrans, trial) == IF nbTrans >= 1 \/ trial > 1 THEN fCntUp ELSE fCntUp + 1

(* SendFrameOnChannel; its callers set the confirm's status to ERROR.      *)
SendFrameOnChannel(msg, ackRequested, trial, nbTrans, state) ==
    LET mic == SecureCounter(nbTrans, trial) IN
    /\ fCntUp' = mic
    /\ frame' = [request |-> msg.request, fCnt |-> msg.fCnt, mic |-> mic,
                  confirmed |-> ackRequested,
                  times |-> IF msg.request = frame.request THEN frame.times + 1 ELSE 1]
    /\ macState' = state \cup {"TX_RUNNING"}
    /\ channelsNbTransCounter' = IF ackRequested THEN nbTrans ELSE nbTrans + 1
    /\ chip' = "tx"
    /\ opMode' = "tx"
    /\ UNCHANGED <<rxContinuous, irq, rxFrame>>

(* LoRaMacMcpsRequest up to the check that the MAC is free.  A confirmed   *)
(* request after a receive timeout declares the MAC idle first.            *)
McpsRequest(type) ==
    LET forced == type = "MCPS_CONFIRMED" /\ rxtimeoutflag > 0 IN
    /\ request = "none"
    /\ requests < MaxRequests
    /\ macState' = IF forced THEN {} ELSE macState
    /\ rxtimeoutflag' = IF forced THEN 0 ELSE rxtimeoutflag
    /\ IF macState' # {} \/ ~AllowRequests
       THEN UNCHANGED <<mcpsConfirm, retry, request, requests>>
       ELSE /\ mcpsConfirm' = [request |-> "MCPS_UNCONFIRMED", status |-> "ERROR",
                               ack |-> FALSE, counter |-> 0]
            /\ ackTimeoutRetriesCounter' = 1
            /\ ackTimeoutRetries' = IF type = "MCPS_CONFIRMED" THEN NbTrials ELSE 1
            /\ request' = type
            /\ requests' = requests + 1
            /\ UNCHANGED <<nodeAckRequested, ackTimeoutRetry, channelsNbTransCounter>>
    /\ cutShort' = (cutShort \/ macState' # macState)
    /\ UNCHANGED <<macFlags, slotVars, txVars, radio, timers, elapsed, taskVars, sleeps>>

(* Send: PrepareFrame and ScheduleTx(false), then the rest of              *)
(* LoRaMacMcpsRequest.                                                     *)
Send ==
    LET confirm == [mcpsConfirm EXCEPT !.ack = FALSE, !.counter = fCntUp + 1]
        ackRequested == request = "MCPS_CONFIRMED"
    IN
    /\ request # "none"
    /\ request' = "none"
    /\ txMsg' = [request |-> requests, fCnt |-> HeaderFCnt(fCntUp + 1)]
    /\ \/ /\ "OK" \in TxPlans
          /\ SendFrameOnChannel(txMsg', ackRequested, ackTimeoutRetriesCounter,
                                channelsNbTransCounter, macState)
          /\ nodeAckRequested' = ackRequested
          /\ mcpsConfirm' = [confirm EXCEPT !.status = "ERROR", !.request = request]
          /\ macFlags' = macFlags \cup {"McpsReq"}
       \/ /\ TxPlans # {"OK"}
          /\ nodeAckRequested' = FALSE
          /\ mcpsConfirm' = confirm
          /\ UNCHANGED <<macFlags, macState, channelsNbTransCounter, fCntUp, frame, radio>>
    /\ UNCHANGED <<ackTimeoutRetry, ackTimeoutRetries, ackTimeoutRetriesCounter, slotVars,
                   unscheduled, rxtimeoutflag, timers, elapsed, taskVars, requests, sleeps,
                   cutShort>>

(* startDeepSleep and the wake-up: the MAC state is forced to idle, timers,*)
(* tasks, events and rxtimeoutflag are gone, the rest is in RTC memory and *)
(* LoRaMacInitialization of a joined node leaves it alone.                 *)
DeepSleep ==
    /\ sleeps < MaxSleeps
    /\ sleeps' = sleeps + 1
    /\ request = "none"
    /\ macState' = {}
    /\ chip' = "idle" /\ opMode' = "idle" /\ rxContinuous' = FALSE /\ irq' = {}
    /\ loraIntSem' = 0
    /\ radioEvents' = {} /\ events' = {}
    /\ timers' = {}
    /\ elapsed' = 3
    /\ task' = "wait"
    /\ rxtimeoutflag' = 0
    /\ UNCHANGED <<macFlags, retry, mcpsConfirm, slotVars, txVars, rxFrame, request, requests,
                   cutShort>>

-----------------------------------------------------------------------------
(* The transceiver.  Every end of an operation raises DIO1, whose handler  *)
(* RadioOnDioIrq gives the semaphore.                                      *)
DioIrq(bits) ==
    /\ irq' = irq \cup bits
    /\ loraIntSem' = 1
    /\ UNCHANGED <<macState, macFlags, retry, mcpsConfirm, slotVars, txVars, rxtimeoutflag,
                   opMode, rxContinuous, timers, elapsed, task, events, radioEvents, appVars>>

TransmissionEnds ==
    /\ chip = "tx"
    /\ chip' = "idle"
    /\ \/ DioIrq({"TX_DONE"})
       \/ TxMayTimeOut /\ DioIrq({"RX_TX_TIMEOUT"})
    /\ UNCHANGED rxFrame

ReceptionEnds ==
    /\ chip = "rx"
    /\ chip' = IF rxContinuous THEN "rx" ELSE "idle"
    /\ \/ \E d \in Downlinks : rxFrame' = d /\ DioIrq({"RX_DONE"})
       \/ rxFrame' = rxFrame /\ DioIrq({"RX_DONE", "CRC_ERROR"})

(* The window closes: the symbol timeout, or the chip's own timeout when a *)
(* preamble was found but no frame came of it.                             *)
ReceptionTimesOut ==
    /\ chip = "rx" /\ ~rxContinuous
    /\ chip' = "idle"
    /\ DioIrq({"RX_TX_TIMEOUT"})
    /\ UNCHANGED rxFrame

(* RadioBgIrqProcess, from the semaphore to the snapshot of the events.    *)
BgIrqProcess ==
    LET afterTx == IF "TX_DONE" \in irq THEN "idle" ELSE opMode
        afterRx == IF "RX_DONE" \in irq /\ ~rxContinuous THEN "idle" ELSE afterTx
        timedOut(mode) == "RX_TX_TIMEOUT" \in irq /\ afterRx = mode
        raised == [TxDone    |-> "TX_DONE" \in irq,
                   RxDone    |-> "RX_DONE" \in irq /\ "CRC_ERROR" \notin irq,
                   RxError   |-> "RX_DONE" \in irq /\ "CRC_ERROR" \in irq,
                   TxTimeout |-> timedOut("tx"),
                   RxTimeout |-> timedOut("rx")]
    IN
    /\ task = "wait"
    /\ loraIntSem = 1
    /\ loraIntSem' = 0
    /\ irq' = {}
    /\ opMode' = IF "RX_TX_TIMEOUT" \in irq THEN "idle" ELSE afterRx
    /\ timers' = IF "RX_DONE" \in irq \/ timedOut("rx") THEN timers \ {"RadioRx"} ELSE timers
    /\ events' = radioEvents \cup {e \in DOMAIN raised : raised[e]}
    /\ radioEvents' = {}
    /\ task' = "events"
    /\ UNCHANGED <<macState, macFlags, retry, mcpsConfirm, slotVars, txVars, rxtimeoutflag,
                   chip, rxContinuous, rxFrame, elapsed, appVars>>

-----------------------------------------------------------------------------
(* LoRaMacHandleIrqEvents: the events of the snapshot in the code's order. *)
Before == [TxDone    |-> {},
           RxDone    |-> {"TxDone"},
           TxTimeout |-> {"TxDone", "RxDone"},
           RxError   |-> {"TxDone", "RxDone", "TxTimeout"},
           RxTimeout |-> {"TxDone", "RxDone", "TxTimeout", "RxError"}]

Handling(e) ==
    /\ task = "events"
    /\ e \in events
    /\ events \cap Before[e] = {}
    /\ events' = events \ {e}
    /\ UNCHANGED <<task, radioEvents, loraIntSem, appVars, txVars, ackTimeoutRetries,
                   ackTimeoutRetriesCounter, channelsNbTransCounter>>

RadioSleep == chip' = "idle" /\ opMode' = "idle" /\ UNCHANGED <<rxContinuous, irq, rxFrame>>
RadioSleepUnlessClassC == IF DeviceClass = "CLASS_C" THEN UNCHANGED radio ELSE RadioSleep

ProcessRadioTxDone ==
    /\ Handling("TxDone")
    /\ RadioSleepUnlessClassC
    /\ timers' = timers \cup {"RxWindow1", "RxWindow2"} \cup
           (IF DeviceClass = "CLASS_C" \/ nodeAckRequested THEN {"AckTimeout"} ELSE {})
    /\ elapsed' = 0
    /\ mcpsConfirm' = IF nodeAckRequested THEN mcpsConfirm ELSE [mcpsConfirm EXCEPT !.status = "OK"]
    /\ UNCHANGED <<macState, macFlags, nodeAckRequested, ackTimeoutRetry, slotVars, rxtimeoutflag>>

(* ProcessRadioRxDone.  INVALID stands for every frame that ends in        *)
(* PrepareRxDoneAbort: another node's, a repeated counter, a wrong MIC...  *)
ProcessRadioRxDone ==
    LET aborts == rxFrame = "INVALID"
        valid == rxFrame \in {"ACK", "DATA"}
        acked == rxFrame = "ACK"
        stopsAck == IF nodeAckRequested THEN aborts \/ acked
                                        ELSE ~aborts /\ DeviceClass = "CLASS_C"
    IN
    /\ Handling("RxDone")
    /\ RadioSleep
    /\ indSlot' = rxSlot
    /\ rxSlot' = IdleSlot
    /\ mcpsConfirm' = [mcpsConfirm EXCEPT !.ack = acked, !.status = IF valid THEN "OK" ELSE @]
    /\ macState' = IF aborts THEN macState \cup {"RX_ABORT"} ELSE macState
    /\ macFlags' = macFlags \cup {"McpsInd", "MacDone"}
    /\ timers' = timers \ ({"RxWindow2"} \cup (IF stopsAck THEN {"AckTimeout"} ELSE {}))
    /\ ackTimeoutRetry' = (ackTimeoutRetry \/ (stopsAck /\ nodeAckRequested))
    /\ UNCHANGED <<nodeAckRequested, rxtimeoutflag, elapsed>>

ProcessRadioTxTimeout ==
    /\ Handling("TxTimeout")
    /\ RadioSleepUnlessClassC
    /\ rxSlot' = IdleSlot
    /\ mcpsConfirm' = [mcpsConfirm EXCEPT !.status = "TX_TIMEOUT"]
    /\ ackTimeoutRetry' = (ackTimeoutRetry \/ nodeAckRequested)
    /\ macFlags' = macFlags \cup {"MacDone"}
    /\ UNCHANGED <<macState, nodeAckRequested, indSlot, rxtimeoutflag, timers, elapsed>>

(* Window 1 closed without a frame: is it too late for window 2, and is    *)
(* there no window left to wait for?                                       *)
RxWindow2Missed == rxSlot = "WIN_1" /\ elapsed >= Delays["RxWindow2"]
LastWindowAny == DeviceClass # "CLASS_C"
LastWindowSecond == rxSlot # "WIN_1" /\ DeviceClass # "CLASS_C"
LastWindow == RxWindow2Missed \/ (rxSlot # "WIN_1" /\ DeviceClass # "CLASS_C")

HandleRadioRxErrorTimeout ==
    /\ RadioSleepUnlessClassC
    /\ mcpsConfirm' = IF nodeAckRequested THEN [mcpsConfirm EXCEPT !.status = "RX_FAILED"]
                                          ELSE mcpsConfirm
    /\ timers' = IF RxWindow2Missed THEN timers \ {"RxWindow2"} ELSE timers
    /\ macFlags' = IF LastWindow THEN macFlags \cup {"MacDone"} ELSE macFlags
    /\ rxSlot' = IdleSlot
    /\ UNCHANGED <<macState, nodeAckRequested, ackTimeoutRetry, indSlot, elapsed>>

ProcessRadioRxError ==
    Handling("RxError") /\ HandleRadioRxErrorTimeout /\ UNCHANGED rxtimeoutflag

ProcessRadioRxTimeout ==
    /\ Handling("RxTimeout")
    /\ HandleRadioRxErrorTimeout
    /\ rxtimeoutflag' = (rxtimeoutflag + 1) % FlagModulus

-----------------------------------------------------------------------------
(* The rest of LoRaMacProcess.                                             *)
EventsHandled ==
    /\ task = "events" /\ events = {}
    /\ task' = IF "MacDone" \in macFlags THEN "rxAbort" ELSE "indications"
    /\ UNCHANGED <<macState, macFlags, retry, mcpsConfirm, slotVars, txVars, rxtimeoutflag,
                   radio, timers, elapsed, events, radioEvents, loraIntSem, appVars>>

StateAfterAbortKept == macState \ {"TX_RUNNING"}
StateAfterAbort == macState \ {"RX_ABORT", "TX_RUNNING"}

CheckForRxAbort ==
    /\ task = "rxAbort"
    /\ task' = "mcps"
    /\ macState' = IF "RX_ABORT" \in macState THEN StateAfterAbort ELSE macState
    /\ UNCHANGED <<macFlags, retry, mcpsConfirm, slotVars, txVars, rxtimeoutflag,
                   radio, timers, elapsed, events, radioEvents, loraIntSem, appVars>>

CheckRetransUnconfirmedOneMore == channelsNbTransCounter > ChannelsNbTrans
CheckRetransUnconfirmedUplink ==
    \/ channelsNbTransCounter >= ChannelsNbTrans
    \/ "McpsInd" \in macFlags /\ (DeviceClass = "CLASS_A" \/ indSlot = "WIN_1")

CheckRetransConfirmedOneMore == ackTimeoutRetriesCounter > ackTimeoutRetries
CheckRetransConfirmedUplink ==
    \/ ackTimeoutRetriesCounter >= ackTimeoutRetries
    \/ "McpsInd" \in macFlags /\ mcpsConfirm.ack

StopRetransmissionKeepsCount(state) ==
    /\ macState' = state \ {"TX_RUNNING"}
    /\ nodeAckRequested' = FALSE
    /\ ackTimeoutRetry' = FALSE
    /\ UNCHANGED channelsNbTransCounter
StopRetransmission(state) ==
    /\ channelsNbTransCounter' = 0
    /\ nodeAckRequested' = FALSE
    /\ ackTimeoutRetry' = FALSE
    /\ macState' = state \ {"TX_RUNNING"}

(* OnTxDelayedTimerEvent from ScheduleTx(true) on, the txDelayed timer and *)
(* the TX_DELAYED state being cleared; trial is AckTimeoutRetriesCounter   *)
(* and retrying AckTimeoutRetry when it is called.  Restricted by the duty *)
(* cycle with nothing to wait for, ScheduleTx answers OK and does nothing. *)
ScheduleDelayedTx(trial, retrying) ==
    LET state == macState \ {"TX_DELAYED"} IN
    \/ /\ "OK" \in TxPlans
       /\ SendFrameOnChannel(txMsg, nodeAckRequested, trial, channelsNbTransCounter, state)
       /\ mcpsConfirm' = [mcpsConfirm EXCEPT !.status = "ERROR"]
       /\ timers' = timers \ {"TxDelayed"}
       /\ ackTimeoutRetry' = retrying
       /\ UNCHANGED <<nodeAckRequested, unscheduled>>
    \/ /\ "RESTRICTED" \in TxPlans
       /\ macState' = state \cup {"TX_DELAYED"}
       /\ timers' = timers \cup {"TxDelayed"}
       /\ ackTimeoutRetry' = retrying
       /\ UNCHANGED <<fCntUp, frame, unscheduled, channelsNbTransCounter, radio, mcpsConfirm,
                      nodeAckRequested>>
    \/ /\ "NO_WAIT" \in TxPlans
       /\ macState' = state
       /\ timers' = timers \ {"TxDelayed"}
       /\ ackTimeoutRetry' = retrying
       /\ unscheduled' = TRUE
       /\ UNCHANGED <<fCntUp, frame, channelsNbTransCounter, radio, mcpsConfirm, nodeAckRequested>>
    \/ /\ "ERROR" \in TxPlans
       /\ mcpsConfirm' = [mcpsConfirm EXCEPT !.status = "TX_DR_PAYLOAD_SIZE_ERROR"]
       /\ StopRetransmission(state)
       /\ timers' = timers \ {"TxDelayed"}
       /\ UNCHANGED <<fCntUp, frame, unscheduled, radio>>

(* LoRaMacHandleMcpsRequest, by whether the exchange is over.              *)
Confirmed == mcpsConfirm.request = "MCPS_CONFIRMED"
ExchangeOver == IF Confirmed THEN ackTimeoutRetry /\ CheckRetransConfirmedUplink
                             ELSE CheckRetransUnconfirmedUplink
AwaitsAck == Confirmed /\ ~ackTimeoutRetry

HandleMcpsRequest ==
    /\ task = "mcps"
    /\ task' = "requestEvents"
    /\ \/ /\ "McpsReq" \notin macFlags \/ AwaitsAck
          /\ UNCHANGED <<macState, macFlags, retry, mcpsConfirm, txVars, radio, timers>>
       \/ /\ "McpsReq" \in macFlags /\ ExchangeOver
          /\ StopRetransmission(macState \ {"TX_DELAYED"})
          /\ timers' = timers \ {"TxDelayed"}
          /\ UNCHANGED <<macFlags, ackTimeoutRetries, ackTimeoutRetriesCounter,
                         mcpsConfirm, txVars, radio>>
       \/ /\ "McpsReq" \in macFlags /\ ~ExchangeOver /\ ~AwaitsAck
          /\ macFlags' = macFlags \ {"MacDone"}
          /\ ackTimeoutRetriesCounter' = ackTimeoutRetriesCounter + (IF Confirmed THEN 1 ELSE 0)
          /\ ScheduleDelayedTx(ackTimeoutRetriesCounter', FALSE)
          /\ UNCHANGED <<txMsg, ackTimeoutRetries>>
    /\ UNCHANGED <<slotVars, rxtimeoutflag, elapsed, events, radioEvents, loraIntSem, appVars>>

(* LoRaMacHandleRequestEvents up to the MacMcpsConfirm callback.           *)
HandleRequestEvents ==
    /\ task = "requestEvents"
    /\ IF macState # {}
       THEN task' = "indications" /\ UNCHANGED macFlags
       ELSE IF "McpsReq" \in macFlags
            THEN task' = "confirm" /\ macFlags' = macFlags \ {"McpsReq"}
            ELSE task' = "indications" /\ macFlags' = macFlags \ {"MacDone"}
    /\ UNCHANGED <<macState, retry, mcpsConfirm, slotVars, txVars, rxtimeoutflag,
                   radio, timers, elapsed, events, radioEvents, loraIntSem, appVars>>

McpsConfirmReturns ==
    /\ task = "confirm"
    /\ task' = "indications"
    /\ macFlags' = macFlags \ {"MacDone"}
    /\ UNCHANGED <<macState, retry, mcpsConfirm, slotVars, txVars, rxtimeoutflag,
                   radio, timers, elapsed, events, radioEvents, loraIntSem, appVars>>

HandleIndicationEvents ==
    /\ task = "indications"
    /\ task' = "window"
    /\ macFlags' = macFlags \ {"McpsInd"}
    /\ UNCHANGED <<macState, retry, mcpsConfirm, slotVars, txVars, rxtimeoutflag,
                   radio, timers, elapsed, events, radioEvents, loraIntSem, appVars>>

(* OpenContinuousRxCWindow; RegionRxConfig refuses while the radio is busy.*)
OpenContinuousRxCWindow ==
    /\ task = "window"
    /\ task' = "wait"
    /\ IF rxSlot = "CLASS_C" /\ opMode = "idle"
       THEN chip' = "rx" /\ opMode' = "rx" /\ rxContinuous' = TRUE /\ UNCHANGED <<irq, rxFrame>>
       ELSE UNCHANGED radio
    /\ UNCHANGED <<macState, macFlags, retry, mcpsConfirm, slotVars, txVars, rxtimeoutflag,
                   timers, elapsed, events, radioEvents, loraIntSem, appVars>>

-----------------------------------------------------------------------------
(* The timer task.                                                         *)
Expired(t) == t \in timers /\ elapsed >= Delays[t]

(* OnRxWindow1TimerEvent, OnRxWindow2TimerEvent: RxWindowSetup puts the    *)
(* radio in standby and opens the window whatever the radio was doing.     *)
RxWindowSetup(t, slot) ==
    /\ Expired(t)
    /\ timers' = (timers \ {t}) \cup {"RadioRx"}
    /\ chip' = "rx" /\ opMode' = "rx" /\ rxContinuous' = FALSE
    /\ rxSlot' = slot
    /\ UNCHANGED <<macState, macFlags, retry, mcpsConfirm, indSlot, txVars, rxtimeoutflag,
                   irq, rxFrame, elapsed, taskVars, appVars>>

OnRxWindow1TimerEvent == RxWindowSetup("RxWindow1", "WIN_1")

(* While window 1 is still open the callback returns and the periodic      *)
(* timer calls it again.                                                   *)
OnRxWindow2TimerEvent == rxSlot # "WIN_1" /\ RxWindowSetup("RxWindow2", "WIN_2")

OnAckTimeoutTimerEvent ==
    /\ Expired("AckTimeout")
    /\ timers' = timers \ {"AckTimeout"}
    /\ ackTimeoutRetry' = (ackTimeoutRetry \/ nodeAckRequested)
    /\ macFlags' = IF DeviceClass = "CLASS_C" THEN macFlags \cup {"MacDone"} ELSE macFlags
    /\ UNCHANGED <<macState, nodeAckRequested, ackTimeoutRetries, ackTimeoutRetriesCounter,
                   channelsNbTransCounter, mcpsConfirm, slotVars, txVars, rxtimeoutflag,
                   radio, elapsed, taskVars, appVars>>

OnTxDelayedTimerEvent ==
    /\ "TxDelayed" \in timers
    /\ ScheduleDelayedTx(ackTimeoutRetriesCounter, ackTimeoutRetry)
    /\ cutShort' = (cutShort \/ macState' \cap {"TX_RUNNING", "TX_DELAYED"} = {})
    /\ UNCHANGED <<macFlags, ackTimeoutRetries, ackTimeoutRetriesCounter, slotVars, txMsg,
                   rxtimeoutflag, elapsed, taskVars, request, requests, sleeps>>

(* RadioOnRxTimeoutIrq, three seconds into a window: the event is reported *)
(* but nobody gives the semaphore.                                         *)
RadioOnRxTimeoutIrq ==
    /\ "RadioRx" \in timers
    /\ elapsed >= Delays["RxWindow2"]
    /\ timers' = timers \ {"RadioRx"}
    /\ radioEvents' = radioEvents \cup {"RxTimeout"}
    /\ UNCHANGED <<macState, macFlags, retry, mcpsConfirm, slotVars, txVars, rxtimeoutflag,
                   radio, elapsed, task, events, loraIntSem, appVars>>

(* Time passes; the timer task, the highest priority, is never a whole     *)
(* delay late, nor does LoRaMacMcpsRequest take that long.                 *)
Tick ==
    /\ elapsed < 3
    /\ request = "none"
    /\ ~Expired("RxWindow1")
    /\ Expired("RxWindow2") => rxSlot = "WIN_1"
    /\ elapsed' = elapsed + 1
    /\ UNCHANGED <<macState, macFlags, retry, mcpsConfirm, slotVars, txVars, rxtimeoutflag,
                   radio, timers, taskVars, appVars>>

-----------------------------------------------------------------------------
LoRaTask ==
    \/ BgIrqProcess
    \/ ProcessRadioTxDone \/ ProcessRadioRxDone \/ ProcessRadioTxTimeout
    \/ ProcessRadioRxError \/ ProcessRadioRxTimeout
    \/ EventsHandled \/ CheckForRxAbort \/ HandleMcpsRequest \/ HandleRequestEvents
    \/ McpsConfirmReturns \/ HandleIndicationEvents \/ OpenContinuousRxCWindow

TimerTask ==
    \/ OnRxWindow1TimerEvent \/ OnRxWindow2TimerEvent \/ OnAckTimeoutTimerEvent
    \/ OnTxDelayedTimerEvent \/ RadioOnRxTimeoutIrq

Radio == TransmissionEnds \/ ReceptionEnds \/ ReceptionTimesOut

Next ==
    \/ \E type \in RequestTypes : McpsRequest(type)
    \/ Send \/ DeepSleep
    \/ LoRaTask \/ TimerTask \/ Radio \/ Tick

Spec == Init /\ [][Next]_vars

(* Each task keeps running, the application finishes a request it began,   *)
(* the radio finishes what it does and time passes.                        *)
FairSpec ==
    /\ Spec
    /\ WF_vars(LoRaTask) /\ WF_vars(Send)
    /\ WF_vars(TransmissionEnds) /\ WF_vars(ReceptionTimesOut)
    /\ WF_vars(OnRxWindow1TimerEvent) /\ WF_vars(OnRxWindow2TimerEvent)
    /\ WF_vars(OnAckTimeoutTimerEvent) /\ WF_vars(OnTxDelayedTimerEvent)
    /\ WF_vars(Tick)

-----------------------------------------------------------------------------
McpsConfirm ==
    [request : Mcps, ack : BOOLEAN, counter : Nat,
     status : {"OK", "ERROR", "TX_TIMEOUT", "RX_FAILED", "TX_DR_PAYLOAD_SIZE_ERROR"}]

MacTypeOK ==
    /\ macState \subseteq {"TX_RUNNING", "TX_DELAYED", "RX_ABORT"}
    /\ macFlags \subseteq {"McpsReq", "McpsInd", "MacDone"}
    /\ nodeAckRequested \in BOOLEAN
    /\ ackTimeoutRetry \in BOOLEAN
    /\ mcpsConfirm \in McpsConfirm
    /\ rxSlot \in {"NONE", "WIN_1", "WIN_2", "CLASS_C"}
    /\ indSlot \in {"NONE", "WIN_1", "WIN_2", "CLASS_C"}

CounterTypeOK ==
    /\ ackTimeoutRetries \in Nat \ {0}
    /\ ackTimeoutRetriesCounter \in Nat \ {0}
    /\ channelsNbTransCounter \in Nat
    /\ txMsg \in [request : Nat, fCnt : 0..(FCntModulus - 1)]
    /\ fCntUp \in Nat
    /\ rxtimeoutflag \in 0..(FlagModulus - 1)
    /\ frame \in [request : Nat, fCnt : 0..(FCntModulus - 1), mic : Nat,
                  confirmed : BOOLEAN, times : Nat]
    /\ unscheduled \in BOOLEAN
    /\ cutShort \in BOOLEAN
    /\ request \in Mcps \cup {"none"}
    /\ requests \in 0..MaxRequests
    /\ sleeps \in 0..MaxSleeps

RadioTypeOK ==
    /\ chip \in {"idle", "tx", "rx"}
    /\ opMode \in {"idle", "tx", "rx"}
    /\ rxContinuous \in BOOLEAN
    /\ irq \subseteq {"TX_DONE", "RX_DONE", "CRC_ERROR", "RX_TX_TIMEOUT"}
    /\ rxFrame \in {"ACK", "DATA", "PROPRIETARY", "INVALID"}

TaskTypeOK ==
    /\ loraIntSem \in {0, 1}
    /\ radioEvents \subseteq DOMAIN Before
    /\ events \subseteq DOMAIN Before
    /\ timers \subseteq {"RxWindow1", "RxWindow2", "AckTimeout", "TxDelayed", "RadioRx"}
    /\ elapsed \in 0..3
    /\ task \in {"wait", "events", "rxAbort", "mcps", "requestEvents", "confirm",
                 "indications", "window"}

(* Every variable has the type its declaration in LoRaMac.c, radio.c or    *)
(* DFRobot_LoRaWAN.cpp gives it; the header counter fits its 16 bits and   *)
(* rxtimeoutflag its 8.                                                    *)
TypeOK == MacTypeOK /\ CounterTypeOK /\ RadioTypeOK /\ TaskTypeOK

(* A frame is secured with the counter its header carries, also when it is *)
(* repeated (PrepareFrame against SecureFrame).                            *)
HeaderMatchesMic == frame.fCnt = frame.mic % FCntModulus

(* The confirm names the counter its frame went out with.                  *)
Confirms == task = "requestEvents" /\ task' = "confirm"
ConfirmNamesCounter == [][Confirms => mcpsConfirm.counter = frame.mic]_vars

(* No two requests are sent under one counter, and counters only grow.     *)
CounterNeverReused ==
    [][frame' # frame => \/ frame'.mic > frame.mic
                         \/ /\ frame'.mic = frame.mic
                            /\ frame'.request = frame.request]_vars

(* The MAC takes no request before it has confirmed the last one.          *)
OneRequestAtATime ==
    [][request = "none" /\ request' # "none" => "McpsReq" \notin macFlags]_vars

(* Nothing but its end or a deep sleep takes the transceiver from a        *)
(* transmission: no window timer and no next frame cuts it off.            *)
TransmissionUndisturbed ==
    [][chip = "tx" /\ sleeps' = sleeps
           => frame' = frame /\ (chip' = "tx" \/ irq' # irq)]_vars

(* The application hears of its request when the exchange is over: no      *)
(* transmission under way, no window open and none still to open.          *)
ConfirmAfterWindows ==
    [][Confirms => chip = "idle" /\ timers \cap {"RxWindow1", "RxWindow2"} = {}]_vars

(* A delayed transmission always has its timer, and an aborted reception   *)
(* is always followed up: neither leaves the MAC busy with nothing under   *)
(* way that would free it, whatever was forced in between.                 *)
BusyForAReason ==
    /\ "TX_DELAYED" \in macState => "TxDelayed" \in timers
    /\ "RX_ABORT" \in macState => "MacDone" \in macFlags

(* A frame goes out at most as often as its request allows: NbTrials times *)
(* when it is confirmed, ChannelsNbTrans times when it is not, whatever was*)
(* received, delayed or not sent in between.  Where an exchange was ended  *)
(* from outside LoRaMacProcess the code does not keep this: the request    *)
(* that forces the MAC to idle sets the counter back while the LoRa task   *)
(* or the txDelayed timer still repeats the old frame.                     *)
TrialsBounded ==
    frame.times <= (IF frame.confirmed THEN NbTrials ELSE ChannelsNbTrans) \/ cutShort

(* What LoRaMacProcess compares before it repeats an unconfirmed frame.    *)
RepetitionsBounded == channelsNbTransCounter <= ChannelsNbTrans

(* What makes the counters right as long as nothing forces the MAC to idle *)
(* (a confirmed request after a receive timeout, a deep sleep, a delayed   *)
(* transmission that fails; in class C also one neither sent nor delayed,  *)
(* whose state an aborted reception then clears): while                    *)
(* channelsNbTransCounter says that a frame is being repeated, that frame  *)
(* is the one in TxMsg, secured with the current counter, and the MAC is   *)
(* busy or LoRaMacProcess is about to decide on it; while it says so of    *)
(* none, no request is unconfirmed but the one whose confirm is next.      *)
NeverForced ==
    /\ RequestTypes = {"MCPS_UNCONFIRMED"} /\ MaxSleeps = 0 /\ "ERROR" \notin TxPlans
    /\ DeviceClass = "CLASS_A" \/ "NO_WAIT" \notin TxPlans

NothingConfirmed ==
    /\ ~nodeAckRequested
    /\ ackTimeoutRetriesCounter = 1
    /\ mcpsConfirm.request = "MCPS_UNCONFIRMED"
    /\ request \in {"none", "MCPS_UNCONFIRMED"}

NothingRepeated ==
    channelsNbTransCounter = 0 =>
        /\ macState \subseteq {"RX_ABORT"}
        /\ "TxDelayed" \notin timers
        /\ "McpsReq" \in macFlags =>
               task = "requestEvents" /\ macState = {} /\ request = "none"

RepeatsCurrent ==
    channelsNbTransCounter # 0 =>
        /\ "McpsReq" \in macFlags /\ request = "none"
        /\ \/ "TX_RUNNING" \in macState
           \/ task = "mcps" /\ "McpsInd" \in macFlags
           \/ DeviceClass = "CLASS_C" /\ "TX_DELAYED" \in macState
        /\ txMsg.fCnt = HeaderFCnt(fCntUp) /\ frame.request = txMsg.request

ConfirmsCurrent ==
    "McpsReq" \in macFlags => frame.mic = fCntUp /\ mcpsConfirm.counter = fCntUp

AbortsHandled ==
    "RX_ABORT" \in macState =>
        {"MacDone", "McpsInd"} \subseteq macFlags /\ task \in {"events", "rxAbort"}

DelaysWithinRepetitions ==
    /\ RepetitionsBounded
    /\ "TX_DELAYED" \in macState => channelsNbTransCounter < ChannelsNbTrans
    /\ "TxDelayed" \in timers => "TX_DELAYED" \in macState

UplinkInv ==
    /\ NothingConfirmed /\ NothingRepeated /\ RepeatsCurrent /\ ConfirmsCurrent
    /\ AbortsHandled /\ DelaysWithinRepetitions
    /\ HeaderMatchesMic /\ frame.mic <= fCntUp

(* Every request that was sent is confirmed in the end, unless a repetition*)
(* was neither sent nor delayed: ScheduleTx returns OK then, and nothing   *)
(* is under way that would make LoRaMacProcess run again.                  *)
SentRequestsConfirmed ==
    "McpsReq" \in macFlags ~> "McpsReq" \notin macFlags \/ unscheduled

(* The same without the exception, and for confirmed requests, whose trials*)
(* LoRaMac.h counts up to the one after which the MAC gives up.  The code  *)
(* does not keep it: AckTimeout is reported to nobody.                     *)
EveryRequestConfirmed == "McpsReq" \in macFlags ~> "McpsReq" \notin macFlags
=============================================================================
