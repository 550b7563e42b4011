--------------------------- MODULE LoRaMacProofs ---------------------------
(***************************************************************************)
(* Proofs about the uplinks of LoRaMac.c for every value of the constants: *)
(* types, what keeps the MAC busy and how often a confirmed frame is tried *)
(* hold of every node; that counters are used rightly is proved of nodes   *)
(* whose MAC nothing forces to idle (NeverForced), and the order of        *)
(* transmission, windows and confirm of those of them in class A.  The     *)
(* last sections are about the downlink's counter (FCntDown) and the queue *)
(* of MLME confirms (ConfirmQueue).                                        *)
(***************************************************************************)
EXTENDS LoRaMac, FCntDown, ConfirmQueue, TLAPS

(* The groups of variables that UNCHANGED names are always expanded.       *)
USE UplinkAssumption DEF Mcps, McpsConfirm, retry, slotVars, txVars, radio, taskVars, appVars

(* What Radio.Send is given has the type of a frame.                       *)
LEMMA FrameType ==
    ASSUME CounterTypeOK, NEW msg \in [request : Nat, fCnt : 0..(FCntModulus - 1)],
           NEW ackRequested \in BOOLEAN, NEW trial, NEW nbTrans, NEW state,
           SendFrameOnChannel(msg, ackRequested, trial, nbTrans, state)
    PROVE  /\ fCntUp' \in Nat
           /\ frame' \in [request : Nat, fCnt : 0..(FCntModulus - 1), mic : Nat,
                          confirmed : BOOLEAN, times : Nat]
           /\ frame'.request = msg.request /\ frame'.confirmed = ackRequested
           /\ frame'.times = IF msg.request = frame.request THEN frame.times + 1 ELSE 1
<1>1. fCntUp' \in Nat
  BY DEF CounterTypeOK, SendFrameOnChannel, SecureCounter
<1>2. CASE msg.request = frame.request
  BY <1>1, <1>2 DEF CounterTypeOK, SendFrameOnChannel
<1>3. CASE msg.request # frame.request
  BY <1>1, <1>3 DEF CounterTypeOK, SendFrameOnChannel
<1> QED
  BY <1>1, <1>2, <1>3

(* The state after the join has the declared types.                        *)
LEMMA TypeInit == Init => TypeOK
<1> SUFFICES ASSUME Init PROVE TypeOK
  OBVIOUS
<1>1. MacTypeOK
  <2>1. mcpsConfirm \in McpsConfirm
    BY DEF Init
  <2> QED
    BY <2>1 DEF Init, MacTypeOK, IdleSlot
<1>2. CounterTypeOK
  <2>1. frame \in [request : Nat, fCnt : 0..(FCntModulus - 1), mic : Nat,
                  confirmed : BOOLEAN, times : Nat]
    BY DEF Init
  <2>2. txMsg \in [request : Nat, fCnt : 0..(FCntModulus - 1)]
    BY DEF Init
  <2> QED
    <3>1. unscheduled \in BOOLEAN /\ cutShort \in BOOLEAN
      BY DEF Init
    <3>2. /\ ackTimeoutRetries \in Nat \ {0} /\ ackTimeoutRetriesCounter \in Nat \ {0}
          /\ channelsNbTransCounter \in Nat /\ fCntUp \in Nat
          /\ rxtimeoutflag \in 0..(FlagModulus - 1) /\ request \in Mcps \cup {"none"}
          /\ requests \in 0..MaxRequests /\ sleeps \in 0..MaxSleeps
      BY DEF Init
    <3> QED
      BY <2>1, <2>2, <3>1, <3>2 DEF CounterTypeOK
<1>3. RadioTypeOK
  <2>1. rxContinuous \in BOOLEAN
    BY DEF Init
  <2> QED
    BY <2>1 DEF Init, RadioTypeOK
<1>4. TaskTypeOK
  BY DEF Init, TaskTypeOK
<1> QED
  BY <1>1, <1>2, <1>3, <1>4 DEF TypeOK

(* Send only sets four fields of the confirm.                               *)
LEMMA SendConfirm ==
    ASSUME TypeOK, Send
    PROVE  \E status \in {mcpsConfirm.status, "ERROR"},
             type \in {mcpsConfirm.request, request} :
               mcpsConfirm' = [mcpsConfirm EXCEPT !.ack = FALSE, !.counter = fCntUp + 1,
                                                  !.status = status, !.request = type]
  BY DEF TypeOK, MacTypeOK, Send

(* Every step keeps the declared types, one action at a time.              *)
LEMMA TypeNext == ASSUME TypeOK, [Next]_vars PROVE TypeOK'
<1> USE DEF TypeOK
<1>1. ASSUME NEW type \in RequestTypes, McpsRequest(type) PROVE TypeOK'
  <2>1. MacTypeOK'
    <3>1. mcpsConfirm' = mcpsConfirm \/ mcpsConfirm' = [request |-> "MCPS_UNCONFIRMED",
               status |-> "ERROR", ack |-> FALSE, counter |-> 0]
      BY <1>1 DEF McpsRequest
    <3>2. [request |-> "MCPS_UNCONFIRMED", status |-> "ERROR", ack |-> FALSE, counter |-> 0]
              \in McpsConfirm
      OBVIOUS
    <3>3. mcpsConfirm' \in McpsConfirm
      BY <3>1, <3>2 DEF MacTypeOK
    <3> QED
      BY <1>1, <3>3 DEF MacTypeOK, McpsRequest
  <2>2. CounterTypeOK'
    BY <1>1 DEF CounterTypeOK, McpsRequest
  <2>3. RadioTypeOK'
    BY <1>1 DEF RadioTypeOK, McpsRequest
  <2>4. TaskTypeOK'
    BY <1>1 DEF TaskTypeOK, McpsRequest, Before
  <2> QED
    BY <2>1, <2>2, <2>3, <2>4
<1>2. CASE Send
  <2>1. MacTypeOK'
    <3>2. request \in Mcps /\ fCntUp + 1 \in Nat
      BY <1>2 DEF CounterTypeOK, Send
    <3>3. mcpsConfirm' \in McpsConfirm
      BY <1>2, SendConfirm, <3>2 DEF MacTypeOK
    <3> QED
      BY <1>2, <3>3 DEF MacTypeOK, Send, SendFrameOnChannel
  <2>2. CounterTypeOK'
    <3>1. txMsg' \in [request : Nat, fCnt : 0..(FCntModulus - 1)]
      BY <1>2 DEF CounterTypeOK, Send, HeaderFCnt
    <3>2. CASE SendFrameOnChannel(txMsg', request = "MCPS_CONFIRMED",
                   ackTimeoutRetriesCounter, channelsNbTransCounter, macState)
      <4>1. fCntUp' \in Nat /\ frame' \in [request : Nat, fCnt : 0..(FCntModulus - 1),
                                           mic : Nat, confirmed : BOOLEAN, times : Nat]
        BY <3>1, <3>2, FrameType
      <4>2. channelsNbTransCounter' \in Nat
        BY <3>2 DEF SendFrameOnChannel, CounterTypeOK
      <4> QED
        BY <1>2, <3>1, <4>1, <4>2 DEF CounterTypeOK, Send
    <3>3. CASE UNCHANGED <<channelsNbTransCounter, fCntUp, frame>>
      BY <1>2, <3>1, <3>3 DEF CounterTypeOK, Send
    <3> QED
      BY <1>2, <3>2, <3>3 DEF Send
  <2>3. RadioTypeOK'
    BY <1>2 DEF RadioTypeOK, Send, SendFrameOnChannel, SecureCounter, HeaderFCnt
  <2>4. TaskTypeOK'
    BY <1>2 DEF TaskTypeOK, Send, SendFrameOnChannel, SecureCounter, HeaderFCnt, Before
  <2> QED
    BY <2>1, <2>2, <2>3, <2>4
<1>3. CASE DeepSleep
  <2>1. MacTypeOK'
    BY <1>3 DEF MacTypeOK, DeepSleep
  <2>2. CounterTypeOK'
    BY <1>3 DEF CounterTypeOK, DeepSleep
  <2>3. RadioTypeOK'
    BY <1>3 DEF RadioTypeOK, DeepSleep
  <2>4. TaskTypeOK'
    BY <1>3 DEF TaskTypeOK, DeepSleep, Before
  <2> QED
    BY <2>1, <2>2, <2>3, <2>4
<1>4. CASE TransmissionEnds
  <2>1. MacTypeOK'
    BY <1>4 DEF MacTypeOK, TransmissionEnds, DioIrq
  <2>2. CounterTypeOK'
    BY <1>4 DEF CounterTypeOK, TransmissionEnds, DioIrq
  <2>3. RadioTypeOK'
    BY <1>4 DEF RadioTypeOK, TransmissionEnds, DioIrq
  <2>4. TaskTypeOK'
    BY <1>4 DEF TaskTypeOK, TransmissionEnds, DioIrq, Before
  <2> QED
    BY <2>1, <2>2, <2>3, <2>4
<1>5. CASE ReceptionEnds
  <2>1. MacTypeOK'
    BY <1>5 DEF MacTypeOK, ReceptionEnds, DioIrq
  <2>2. CounterTypeOK'
    BY <1>5 DEF CounterTypeOK, ReceptionEnds, DioIrq
  <2>3. RadioTypeOK'
    BY <1>5 DEF RadioTypeOK, ReceptionEnds, DioIrq
  <2>4. TaskTypeOK'
    BY <1>5 DEF TaskTypeOK, ReceptionEnds, DioIrq, Before
  <2> QED
    BY <2>1, <2>2, <2>3, <2>4
<1>6. CASE ReceptionTimesOut
  <2>1. MacTypeOK'
    BY <1>6 DEF MacTypeOK, ReceptionTimesOut, DioIrq
  <2>2. CounterTypeOK'
    BY <1>6 DEF CounterTypeOK, ReceptionTimesOut, DioIrq
  <2>3. RadioTypeOK'
    BY <1>6 DEF RadioTypeOK, ReceptionTimesOut, DioIrq
  <2>4. TaskTypeOK'
    BY <1>6 DEF TaskTypeOK, ReceptionTimesOut, DioIrq, Before
  <2> QED
    BY <2>1, <2>2, <2>3, <2>4
<1>7. CASE BgIrqProcess
  <2>1. MacTypeOK'
    BY <1>7 DEF MacTypeOK, BgIrqProcess
  <2>2. CounterTypeOK'
    BY <1>7 DEF CounterTypeOK, BgIrqProcess
  <2>3. RadioTypeOK'
    BY <1>7 DEF RadioTypeOK, BgIrqProcess
  <2>4. TaskTypeOK'
    BY <1>7 DEF TaskTypeOK, BgIrqProcess, Before
  <2> QED
    BY <2>1, <2>2, <2>3, <2>4
<1>8. CASE ProcessRadioTxDone
  <2>1. MacTypeOK'
    BY <1>8 DEF MacTypeOK, ProcessRadioTxDone, Handling, RadioSleepUnlessClassC, RadioSleep
  <2>2. CounterTypeOK'
    BY <1>8 DEF CounterTypeOK, ProcessRadioTxDone, Handling, RadioSleepUnlessClassC, RadioSleep
  <2>3. RadioTypeOK'
    BY <1>8 DEF RadioTypeOK, ProcessRadioTxDone, Handling, RadioSleepUnlessClassC, RadioSleep
  <2>4. TaskTypeOK'
    BY <1>8 DEF TaskTypeOK, ProcessRadioTxDone, Handling, RadioSleepUnlessClassC, RadioSleep,
          Before
  <2> QED
    BY <2>1, <2>2, <2>3, <2>4
<1>9. CASE ProcessRadioRxDone
  <2>1. MacTypeOK'
    BY <1>9 DEF MacTypeOK, ProcessRadioRxDone, Handling, RadioSleep, IdleSlot
  <2>2. CounterTypeOK'
    BY <1>9 DEF CounterTypeOK, ProcessRadioRxDone, Handling, RadioSleep, IdleSlot
  <2>3. RadioTypeOK'
    BY <1>9 DEF RadioTypeOK, ProcessRadioRxDone, Handling, RadioSleep, IdleSlot
  <2>4. TaskTypeOK'
    BY <1>9 DEF TaskTypeOK, ProcessRadioRxDone, Handling, RadioSleep, IdleSlot, Before
  <2> QED
    BY <2>1, <2>2, <2>3, <2>4
<1>10. CASE ProcessRadioTxTimeout
  <2>1. MacTypeOK'
    BY <1>10 DEF MacTypeOK, ProcessRadioTxTimeout, Handling, RadioSleepUnlessClassC, RadioSleep,
          IdleSlot
  <2>2. CounterTypeOK'
    BY <1>10 DEF CounterTypeOK, ProcessRadioTxTimeout, Handling, RadioSleepUnlessClassC,
          RadioSleep, IdleSlot
  <2>3. RadioTypeOK'
    BY <1>10 DEF RadioTypeOK, ProcessRadioTxTimeout, Handling, RadioSleepUnlessClassC,
          RadioSleep, IdleSlot
  <2>4. TaskTypeOK'
    BY <1>10 DEF TaskTypeOK, ProcessRadioTxTimeout, Handling, RadioSleepUnlessClassC,
          RadioSleep, IdleSlot, Before
  <2> QED
    BY <2>1, <2>2, <2>3, <2>4
<1>11. CASE ProcessRadioRxError
  <2>1. MacTypeOK'
    BY <1>11 DEF MacTypeOK, ProcessRadioRxError, HandleRadioRxErrorTimeout, Handling,
          RadioSleepUnlessClassC, RadioSleep, IdleSlot
  <2>2. CounterTypeOK'
    BY <1>11 DEF CounterTypeOK, ProcessRadioRxError, HandleRadioRxErrorTimeout, Handling,
          RadioSleepUnlessClassC, RadioSleep, IdleSlot
  <2>3. RadioTypeOK'
    BY <1>11 DEF RadioTypeOK, ProcessRadioRxError, HandleRadioRxErrorTimeout, Handling,
          RadioSleepUnlessClassC, RadioSleep, IdleSlot
  <2>4. TaskTypeOK'
    BY <1>11 DEF TaskTypeOK, ProcessRadioRxError, HandleRadioRxErrorTimeout, Handling,
          RadioSleepUnlessClassC, RadioSleep, IdleSlot, Before
  <2> QED
    BY <2>1, <2>2, <2>3, <2>4
<1>12. CASE ProcessRadioRxTimeout
  <2>1. MacTypeOK'
    BY <1>12 DEF MacTypeOK, ProcessRadioRxTimeout, HandleRadioRxErrorTimeout, Handling,
          RadioSleepUnlessClassC, RadioSleep, IdleSlot
  <2>2. CounterTypeOK'
    BY <1>12 DEF CounterTypeOK, ProcessRadioRxTimeout, HandleRadioRxErrorTimeout, Handling,
          RadioSleepUnlessClassC, RadioSleep, IdleSlot
  <2>3. RadioTypeOK'
    BY <1>12 DEF RadioTypeOK, ProcessRadioRxTimeout, HandleRadioRxErrorTimeout, Handling,
          RadioSleepUnlessClassC, RadioSleep, IdleSlot
  <2>4. TaskTypeOK'
    BY <1>12 DEF TaskTypeOK, ProcessRadioRxTimeout, HandleRadioRxErrorTimeout, Handling,
          RadioSleepUnlessClassC, RadioSleep, IdleSlot, Before
  <2> QED
    BY <2>1, <2>2, <2>3, <2>4
<1>13. CASE EventsHandled
  <2>1. MacTypeOK'
    BY <1>13 DEF MacTypeOK, EventsHandled
  <2>2. CounterTypeOK'
    BY <1>13 DEF CounterTypeOK, EventsHandled
  <2>3. RadioTypeOK'
    BY <1>13 DEF RadioTypeOK, EventsHandled
  <2>4. TaskTypeOK'
    BY <1>13 DEF TaskTypeOK, EventsHandled, Before
  <2> QED
    BY <2>1, <2>2, <2>3, <2>4
<1>14. CASE CheckForRxAbort
  <2>1. MacTypeOK'
    BY <1>14 DEF MacTypeOK, CheckForRxAbort, StateAfterAbort
  <2>2. CounterTypeOK'
    BY <1>14 DEF CounterTypeOK, CheckForRxAbort, StateAfterAbort
  <2>3. RadioTypeOK'
    BY <1>14 DEF RadioTypeOK, CheckForRxAbort, StateAfterAbort
  <2>4. TaskTypeOK'
    BY <1>14 DEF TaskTypeOK, CheckForRxAbort, StateAfterAbort, Before
  <2> QED
    BY <2>1, <2>2, <2>3, <2>4
<1>15. CASE HandleMcpsRequest
  <2>1. MacTypeOK'
    <3>1. mcpsConfirm' = mcpsConfirm \/ \E status \in {"ERROR", "TX_DR_PAYLOAD_SIZE_ERROR"} :
               mcpsConfirm' = [mcpsConfirm EXCEPT !.status = status]
      BY <1>15 DEF HandleMcpsRequest, ScheduleDelayedTx
    <3>2. mcpsConfirm' \in McpsConfirm
      BY <3>1 DEF MacTypeOK
    <3> HIDE DEF McpsConfirm
    <3> QED
      BY <1>15, <3>2 DEF MacTypeOK, HandleMcpsRequest, ScheduleDelayedTx, StopRetransmission,
            SendFrameOnChannel
  <2>2. CounterTypeOK'
    <3>1. ASSUME SendFrameOnChannel(txMsg, nodeAckRequested, ackTimeoutRetriesCounter',
                     channelsNbTransCounter, macState \ {"TX_DELAYED"})
          PROVE  /\ fCntUp' \in Nat /\ channelsNbTransCounter' \in Nat
                 /\ frame' \in [request : Nat, fCnt : 0..(FCntModulus - 1), mic : Nat,
                                confirmed : BOOLEAN, times : Nat]
      <4>1. channelsNbTransCounter' \in Nat
        BY <3>1 DEF CounterTypeOK, SendFrameOnChannel
      <4> QED
        BY <3>1, <4>1, FrameType DEF MacTypeOK, CounterTypeOK
    <3>3. /\ fCntUp' \in Nat /\ frame' \in [request : Nat, fCnt : 0..(FCntModulus - 1),
                                           mic : Nat, confirmed : BOOLEAN, times : Nat]
          /\ channelsNbTransCounter' \in Nat
      BY <1>15, <3>1 DEF CounterTypeOK, HandleMcpsRequest, ScheduleDelayedTx,
            StopRetransmission
    <3>4. unscheduled' \in BOOLEAN /\ cutShort' \in BOOLEAN
      BY <1>15 DEF CounterTypeOK, HandleMcpsRequest, ScheduleDelayedTx
    <3>5. /\ ackTimeoutRetriesCounter' \in Nat \ {0}
          /\ UNCHANGED <<ackTimeoutRetries, txMsg, rxtimeoutflag, request, requests, sleeps>>
      BY <1>15 DEF CounterTypeOK, HandleMcpsRequest, ScheduleDelayedTx
    <3> QED
      BY <3>3, <3>4, <3>5 DEF CounterTypeOK
  <2>3. RadioTypeOK'
    BY <1>15 DEF RadioTypeOK, HandleMcpsRequest, ScheduleDelayedTx, StopRetransmission,
          SendFrameOnChannel, SecureCounter
  <2>4. TaskTypeOK'
    BY <1>15 DEF TaskTypeOK, HandleMcpsRequest, ScheduleDelayedTx, StopRetransmission,
          SendFrameOnChannel, SecureCounter, Before
  <2> QED
    BY <2>1, <2>2, <2>3, <2>4
<1>16. CASE HandleRequestEvents
  <2>1. MacTypeOK'
    BY <1>16 DEF MacTypeOK, HandleRequestEvents
  <2>2. CounterTypeOK'
    BY <1>16 DEF CounterTypeOK, HandleRequestEvents
  <2>3. RadioTypeOK'
    BY <1>16 DEF RadioTypeOK, HandleRequestEvents
  <2>4. TaskTypeOK'
    BY <1>16 DEF TaskTypeOK, HandleRequestEvents, Before
  <2> QED
    BY <2>1, <2>2, <2>3, <2>4
<1>17. CASE McpsConfirmReturns
  <2>1. MacTypeOK'
    BY <1>17 DEF MacTypeOK, McpsConfirmReturns
  <2>2. CounterTypeOK'
    BY <1>17 DEF CounterTypeOK, McpsConfirmReturns
  <2>3. RadioTypeOK'
    BY <1>17 DEF RadioTypeOK, McpsConfirmReturns
  <2>4. TaskTypeOK'
    BY <1>17 DEF TaskTypeOK, McpsConfirmReturns, Before
  <2> QED
    BY <2>1, <2>2, <2>3, <2>4
<1>18. CASE HandleIndicationEvents
  <2>1. MacTypeOK'
    BY <1>18 DEF MacTypeOK, HandleIndicationEvents
  <2>2. CounterTypeOK'
    BY <1>18 DEF CounterTypeOK, HandleIndicationEvents
  <2>3. RadioTypeOK'
    BY <1>18 DEF RadioTypeOK, HandleIndicationEvents
  <2>4. TaskTypeOK'
    BY <1>18 DEF TaskTypeOK, HandleIndicationEvents, Before
  <2> QED
    BY <2>1, <2>2, <2>3, <2>4
<1>19. CASE OpenContinuousRxCWindow
  <2>1. MacTypeOK'
    BY <1>19 DEF MacTypeOK, OpenContinuousRxCWindow
  <2>2. CounterTypeOK'
    BY <1>19 DEF CounterTypeOK, OpenContinuousRxCWindow
  <2>3. RadioTypeOK'
    BY <1>19 DEF RadioTypeOK, OpenContinuousRxCWindow
  <2>4. TaskTypeOK'
    BY <1>19 DEF TaskTypeOK, OpenContinuousRxCWindow, Before
  <2> QED
    BY <2>1, <2>2, <2>3, <2>4
<1>20. CASE OnRxWindow1TimerEvent
  <2>1. MacTypeOK'
    BY <1>20 DEF MacTypeOK, OnRxWindow1TimerEvent, RxWindowSetup
  <2>2. CounterTypeOK'
    BY <1>20 DEF CounterTypeOK, OnRxWindow1TimerEvent, RxWindowSetup
  <2>3. RadioTypeOK'
    BY <1>20 DEF RadioTypeOK, OnRxWindow1TimerEvent, RxWindowSetup
  <2>4. TaskTypeOK'
    BY <1>20 DEF TaskTypeOK, OnRxWindow1TimerEvent, RxWindowSetup, Before
  <2> QED
    BY <2>1, <2>2, <2>3, <2>4
<1>21. CASE OnRxWindow2TimerEvent
  <2>1. MacTypeOK'
    BY <1>21 DEF MacTypeOK, OnRxWindow2TimerEvent, RxWindowSetup
  <2>2. CounterTypeOK'
    BY <1>21 DEF CounterTypeOK, OnRxWindow2TimerEvent, RxWindowSetup
  <2>3. RadioTypeOK'
    BY <1>21 DEF RadioTypeOK, OnRxWindow2TimerEvent, RxWindowSetup
  <2>4. TaskTypeOK'
    BY <1>21 DEF TaskTypeOK, OnRxWindow2TimerEvent, RxWindowSetup, Before
  <2> QED
    BY <2>1, <2>2, <2>3, <2>4
<1>22. CASE OnAckTimeoutTimerEvent
  <2>1. MacTypeOK'
    BY <1>22 DEF MacTypeOK, OnAckTimeoutTimerEvent
  <2>2. CounterTypeOK'
    BY <1>22 DEF CounterTypeOK, OnAckTimeoutTimerEvent
  <2>3. RadioTypeOK'
    BY <1>22 DEF RadioTypeOK, OnAckTimeoutTimerEvent
  <2>4. TaskTypeOK'
    BY <1>22 DEF TaskTypeOK, OnAckTimeoutTimerEvent, Before
  <2> QED
    BY <2>1, <2>2, <2>3, <2>4
<1>23. CASE OnTxDelayedTimerEvent
  <2>1. MacTypeOK'
    <3>1. mcpsConfirm' = mcpsConfirm \/ \E status \in {"ERROR", "TX_DR_PAYLOAD_SIZE_ERROR"} :
               mcpsConfirm' = [mcpsConfirm EXCEPT !.status = status]
      BY <1>23 DEF OnTxDelayedTimerEvent, ScheduleDelayedTx
    <3>2. mcpsConfirm' \in McpsConfirm
      BY <3>1 DEF MacTypeOK
    <3> HIDE DEF McpsConfirm
    <3> QED
      BY <1>23, <3>2 DEF MacTypeOK, OnTxDelayedTimerEvent, ScheduleDelayedTx,
            StopRetransmission, SendFrameOnChannel
  <2>2. CounterTypeOK'
    <3>1. ASSUME SendFrameOnChannel(txMsg, nodeAckRequested, ackTimeoutRetriesCounter,
                     channelsNbTransCounter, macState \ {"TX_DELAYED"})
          PROVE  /\ fCntUp' \in Nat /\ channelsNbTransCounter' \in Nat
                 /\ frame' \in [request : Nat, fCnt : 0..(FCntModulus - 1), mic : Nat,
                                confirmed : BOOLEAN, times : Nat]
      <4>1. channelsNbTransCounter' \in Nat
        BY <3>1 DEF CounterTypeOK, SendFrameOnChannel
      <4> QED
        BY <3>1, <4>1, FrameType DEF MacTypeOK, CounterTypeOK
    <3>3. /\ fCntUp' \in Nat /\ frame' \in [request : Nat, fCnt : 0..(FCntModulus - 1),
                                           mic : Nat, confirmed : BOOLEAN, times : Nat]
          /\ channelsNbTransCounter' \in Nat
      BY <1>23, <3>1 DEF CounterTypeOK, OnTxDelayedTimerEvent, ScheduleDelayedTx,
            StopRetransmission
    <3>4. unscheduled' \in BOOLEAN /\ cutShort' \in BOOLEAN
      BY <1>23 DEF CounterTypeOK, OnTxDelayedTimerEvent, ScheduleDelayedTx
    <3>5. /\ ackTimeoutRetriesCounter' \in Nat \ {0}
          /\ UNCHANGED <<ackTimeoutRetries, txMsg, rxtimeoutflag, request, requests, sleeps>>
      BY <1>23 DEF CounterTypeOK, OnTxDelayedTimerEvent, ScheduleDelayedTx
    <3> QED
      BY <3>3, <3>4, <3>5 DEF CounterTypeOK
  <2>3. RadioTypeOK'
    BY <1>23 DEF RadioTypeOK, OnTxDelayedTimerEvent, ScheduleDelayedTx, StopRetransmission,
          SendFrameOnChannel, SecureCounter
  <2>4. TaskTypeOK'
    BY <1>23 DEF TaskTypeOK, OnTxDelayedTimerEvent, ScheduleDelayedTx, StopRetransmission,
          SendFrameOnChannel, SecureCounter, Before
  <2> QED
    BY <2>1, <2>2, <2>3, <2>4
<1>24. CASE RadioOnRxTimeoutIrq
  <2>1. MacTypeOK'
    BY <1>24 DEF MacTypeOK, RadioOnRxTimeoutIrq
  <2>2. CounterTypeOK'
    BY <1>24 DEF CounterTypeOK, RadioOnRxTimeoutIrq
  <2>3. RadioTypeOK'
    BY <1>24 DEF RadioTypeOK, RadioOnRxTimeoutIrq
  <2>4. TaskTypeOK'
    BY <1>24 DEF TaskTypeOK, RadioOnRxTimeoutIrq, Before
  <2> QED
    BY <2>1, <2>2, <2>3, <2>4
<1>25. CASE Tick
  <2>1. MacTypeOK'
    BY <1>25 DEF MacTypeOK, Tick
  <2>2. CounterTypeOK'
    BY <1>25 DEF CounterTypeOK, Tick
  <2>3. RadioTypeOK'
    BY <1>25 DEF RadioTypeOK, Tick
  <2>4. TaskTypeOK'
    BY <1>25 DEF TaskTypeOK, Tick, Before
  <2> QED
    BY <2>1, <2>2, <2>3, <2>4
<1>26. CASE UNCHANGED vars
  <2>1. MacTypeOK'
    BY <1>26 DEF MacTypeOK, vars
  <2>2. CounterTypeOK'
    BY <1>26 DEF CounterTypeOK, vars
  <2>3. RadioTypeOK'
    BY <1>26 DEF RadioTypeOK, vars
  <2>4. TaskTypeOK'
    BY <1>26 DEF TaskTypeOK, vars, Before
  <2> QED
    BY <2>1, <2>2, <2>3, <2>4
<1> QED
  BY <1>1, <1>2, <1>3, <1>4, <1>5, <1>6, <1>7, <1>8, <1>9, <1>10, <1>11, <1>12, <1>13,
     <1>14, <1>15, <1>16, <1>17, <1>18, <1>19, <1>20, <1>21, <1>22, <1>23, <1>24, <1>25,
     <1>26 DEF Next, LoRaTask, TimerTask, Radio

(* Every variable of the uplink keeps the type its declaration gives it.   *)
THEOREM TypeCorrect == Spec => []TypeOK
  BY TypeInit, TypeNext, PTL DEF Spec

-----------------------------------------------------------------------------
(* BusyForAReason made inductive: PrepareRxDoneAbort leaves MacDone set, and *)
(* LoRaMacHandleIrqEvents hands over to CheckForRxAbort in the same pass,   *)
(* before anything that clears MacDone.                                    *)
BusyInv == BusyForAReason /\ AbortsHandled

(* The MAC is idle after the join.                                         *)
LEMMA BusyInit == Init => BusyInv
  BY DEF Init, BusyInv, BusyForAReason, AbortsHandled

(* Every step keeps a delay with its timer and an abort with its MacDone.  *)
LEMMA BusyNext == ASSUME TypeOK, BusyInv, [Next]_vars PROVE BusyInv'
<1> USE DEF BusyInv, BusyForAReason, AbortsHandled
<1>1. ASSUME NEW type \in RequestTypes, McpsRequest(type) PROVE BusyInv'
  BY <1>1 DEF McpsRequest
<1>2. CASE Send
  BY <1>2 DEF Send, SendFrameOnChannel, SecureCounter
<1>3. CASE DeepSleep
  BY <1>3 DEF DeepSleep
<1>4. CASE TransmissionEnds
  BY <1>4 DEF TransmissionEnds, DioIrq
<1>5. CASE ReceptionEnds
  BY <1>5 DEF ReceptionEnds, DioIrq
<1>6. CASE ReceptionTimesOut
  BY <1>6 DEF ReceptionTimesOut, DioIrq
<1>7. CASE BgIrqProcess
  BY <1>7 DEF BgIrqProcess
<1>8. CASE ProcessRadioTxDone
  BY <1>8 DEF ProcessRadioTxDone, Handling
<1>9. CASE ProcessRadioRxDone
  BY <1>9 DEF ProcessRadioRxDone, Handling
<1>10. CASE ProcessRadioTxTimeout
  BY <1>10 DEF ProcessRadioTxTimeout, Handling
<1>11. CASE ProcessRadioRxError
  BY <1>11 DEF ProcessRadioRxError, HandleRadioRxErrorTimeout, Handling
<1>12. CASE ProcessRadioRxTimeout
  BY <1>12 DEF ProcessRadioRxTimeout, HandleRadioRxErrorTimeout, Handling
<1>13. CASE EventsHandled
  BY <1>13 DEF EventsHandled
<1>14. CASE CheckForRxAbort
  BY <1>14 DEF CheckForRxAbort, StateAfterAbort
<1>15. CASE HandleMcpsRequest
  BY <1>15 DEF HandleMcpsRequest, ScheduleDelayedTx, StopRetransmission, SendFrameOnChannel,
        SecureCounter
<1>16. CASE HandleRequestEvents
  BY <1>16 DEF HandleRequestEvents
<1>17. CASE McpsConfirmReturns
  BY <1>17 DEF McpsConfirmReturns
<1>18. CASE HandleIndicationEvents
  BY <1>18 DEF HandleIndicationEvents
<1>19. CASE OpenContinuousRxCWindow
  BY <1>19 DEF OpenContinuousRxCWindow
<1>20. CASE OnRxWindow1TimerEvent
  BY <1>20 DEF OnRxWindow1TimerEvent, RxWindowSetup
<1>21. CASE OnRxWindow2TimerEvent
  BY <1>21 DEF OnRxWindow2TimerEvent, RxWindowSetup
<1>22. CASE OnAckTimeoutTimerEvent
  BY <1>22 DEF OnAckTimeoutTimerEvent
<1>23. CASE OnTxDelayedTimerEvent
  BY <1>23 DEF OnTxDelayedTimerEvent, ScheduleDelayedTx, StopRetransmission, SendFrameOnChannel,
        SecureCounter
<1>24. CASE RadioOnRxTimeoutIrq
  BY <1>24 DEF RadioOnRxTimeoutIrq
<1>25. CASE Tick
  BY <1>25 DEF Tick
<1>26. CASE UNCHANGED vars
  BY <1>26 DEF vars
<1> QED
  BY <1>1, <1>2, <1>3, <1>4, <1>5, <1>6, <1>7, <1>8, <1>9, <1>10, <1>11, <1>12, <1>13,
     <1>14, <1>15, <1>16, <1>17, <1>18, <1>19, <1>20, <1>21, <1>22, <1>23, <1>24, <1>25,
     <1>26 DEF Next, LoRaTask, TimerTask, Radio

(* A delayed transmission has its timer and an aborted reception is        *)
(* followed up, in class A and C, whatever idle state is forced between.   *)
THEOREM BusyForAReasonAlways == Spec => []BusyForAReason
<1>1. BusyInv => BusyForAReason
  BY DEF BusyInv
<1> QED
  BY <1>1, TypeCorrect, BusyInit, BusyNext, PTL DEF Spec

-----------------------------------------------------------------------------
(* TrialsBounded made inductive.  Unless an exchange was cut short, a      *)
(* request that waits for its confirm is being exchanged, with counters    *)
(* that have kept up with how often its frame went out, is about to be     *)
(* confirmed, or was put to sleep and nothing will wake the LoRa task.     *)
Asleep ==
    /\ chip = "idle" /\ timers = {} /\ loraIntSem = 0 /\ task = "wait" /\ macState = {}
Over == task = "requestEvents" /\ macState = {}
CountersKeepUp ==
    IF nodeAckRequested
    THEN /\ frame.times <= ackTimeoutRetriesCounter
         /\ ackTimeoutRetriesCounter <= ackTimeoutRetries /\ ackTimeoutRetries = NbTrials
         /\ "TX_DELAYED" \in macState => frame.times < ackTimeoutRetriesCounter
    ELSE /\ frame.times <= channelsNbTransCounter
         /\ "TX_DELAYED" \in macState => channelsNbTransCounter < ChannelsNbTrans
Exchanging ==
    /\ macState # {} \/ task = "mcps"
    /\ frame.request = txMsg.request /\ frame.confirmed = nodeAckRequested
    /\ Confirmed <=> nodeAckRequested
    /\ CountersKeepUp

RequestsInOrder ==
    /\ frame.request <= requests /\ txMsg.request <= requests
    /\ request # "none" => /\ frame.request < requests
                           /\ ackTimeoutRetriesCounter = 1
                           /\ request = "MCPS_CONFIRMED" => ackTimeoutRetries = NbTrials

UnconfirmedAccounted ==
    /\ "TxDelayed" \in timers => "TX_DELAYED" \in macState
    /\ macState \cap {"TX_RUNNING", "TX_DELAYED"} # {} => "McpsReq" \in macFlags
    /\ "McpsReq" \in macFlags => Asleep \/ (request = "none" /\ (Over \/ Exchanging))

TrialsInv == cutShort \/ (TrialsBounded /\ RequestsInOrder /\ UnconfirmedAccounted)

(* Nothing was sent after the join.                                        *)
LEMMA TrialsInit == Init => TrialsInv
  BY DEF Init, TrialsInv, TrialsBounded, RequestsInOrder, UnconfirmedAccounted

(* A repetition for which the counters leave room is counted, whether it   *)
(* is sent, delayed or dropped; one that fails is followed by its confirm. *)
LEMMA ScheduleKeeps ==
    ASSUME TypeOK, TrialsBounded, RequestsInOrder,
           frame.request = txMsg.request, frame.confirmed = nodeAckRequested,
           Confirmed <=> nodeAckRequested,
           IF nodeAckRequested
           THEN /\ frame.times < ackTimeoutRetriesCounter'
                /\ ackTimeoutRetriesCounter' <= ackTimeoutRetries /\ ackTimeoutRetries = NbTrials
           ELSE /\ frame.times <= channelsNbTransCounter
                /\ channelsNbTransCounter < ChannelsNbTrans,
           ackTimeoutRetriesCounter' \in Nat, NEW retrying \in BOOLEAN,
           ScheduleDelayedTx(ackTimeoutRetriesCounter', retrying),
           \/ task' = "requestEvents" /\ macState \cap {"RX_ABORT"} = {}
           \/ macState' \cap {"TX_RUNNING", "TX_DELAYED"} # {},
           "McpsReq" \in macFlags', request' = "none",
           UNCHANGED <<ackTimeoutRetries, txMsg, requests>>
    PROVE  (TrialsBounded /\ RequestsInOrder /\ UnconfirmedAccounted)'
<1> USE DEF TypeOK, MacTypeOK, CounterTypeOK, TrialsBounded, RequestsInOrder,
            UnconfirmedAccounted, Over, Exchanging, CountersKeepUp, Confirmed
<1>1. mcpsConfirm'.request = mcpsConfirm.request
  BY DEF ScheduleDelayedTx
<1>2. CASE /\ SendFrameOnChannel(txMsg, nodeAckRequested, ackTimeoutRetriesCounter',
                                channelsNbTransCounter, macState \ {"TX_DELAYED"})
           /\ timers' = timers \ {"TxDelayed"} /\ UNCHANGED nodeAckRequested
  <2>1. /\ frame'.request = frame.request /\ frame'.confirmed = nodeAckRequested
        /\ frame'.times = frame.times + 1
    BY <1>2, FrameType
  <2>2. /\ "TX_RUNNING" \in macState' /\ "TX_DELAYED" \notin macState'
        /\ ~nodeAckRequested => channelsNbTransCounter' = channelsNbTransCounter + 1
    BY <1>2 DEF SendFrameOnChannel
  <2>3. Exchanging'
    BY <1>1, <1>2, <2>1, <2>2
  <2> QED
    BY <1>2, <2>1, <2>2, <2>3
<1>3. CASE /\ macState' = (macState \ {"TX_DELAYED"}) \cup {"TX_DELAYED"}
           /\ UNCHANGED <<frame, channelsNbTransCounter, nodeAckRequested>>
  BY <1>1, <1>3
<1>4. CASE /\ macState' = macState \ {"TX_DELAYED"} /\ timers' = timers \ {"TxDelayed"}
           /\ UNCHANGED <<frame, channelsNbTransCounter, nodeAckRequested>>
  BY <1>1, <1>4
<1>5. CASE /\ StopRetransmission(macState \ {"TX_DELAYED"})
           /\ timers' = timers \ {"TxDelayed"} /\ UNCHANGED frame
  <2>1. macState' = macState \ {"TX_DELAYED", "TX_RUNNING"}
    BY <1>5 DEF StopRetransmission
  <2> QED
    BY <1>5, <2>1
<1> QED
  BY <1>2, <1>3, <1>4, <1>5 DEF ScheduleDelayedTx

(* CheckRetransConfirmedUplink and CheckRetransUnconfirmedUplink stop      *)
(* LoRaMacHandleMcpsRequest from starting a trial too many.                *)
LEMMA TrialsNext == ASSUME TypeOK, BusyInv, TrialsInv, [Next]_vars PROVE TrialsInv'
<1> SUFFICES ASSUME ~cutShort'
             PROVE  (TrialsBounded /\ RequestsInOrder /\ UnconfirmedAccounted)'
  BY DEF TrialsInv
<1> ~cutShort
  BY DEF Next, McpsRequest, Send, DeepSleep, LoRaTask, TimerTask, Radio, BgIrqProcess,
         ProcessRadioTxDone, ProcessRadioRxDone, ProcessRadioTxTimeout, ProcessRadioRxError,
         ProcessRadioRxTimeout, Handling, EventsHandled, CheckForRxAbort, HandleMcpsRequest,
         HandleRequestEvents, McpsConfirmReturns, HandleIndicationEvents,
         OpenContinuousRxCWindow, OnRxWindow1TimerEvent, OnRxWindow2TimerEvent, RxWindowSetup,
         OnAckTimeoutTimerEvent, OnTxDelayedTimerEvent, RadioOnRxTimeoutIrq, Tick,
         TransmissionEnds, ReceptionEnds, ReceptionTimesOut, DioIrq, vars
<1> TrialsBounded /\ RequestsInOrder /\ UnconfirmedAccounted
  BY DEF TrialsInv
<1> USE DEF TypeOK, MacTypeOK, CounterTypeOK, BusyInv, BusyForAReason, AbortsHandled,
      TrialsBounded, RequestsInOrder, UnconfirmedAccounted, Asleep, Over, Exchanging,
      CountersKeepUp, Confirmed
<1> DEFINE Goal == TrialsBounded /\ RequestsInOrder /\ UnconfirmedAccounted
<1>1. ASSUME NEW type \in RequestTypes, McpsRequest(type) PROVE Goal'
  <2>1. /\ macState' = macState
        /\ UNCHANGED <<macFlags, nodeAckRequested, channelsNbTransCounter, txVars, chip,
                       timers, loraIntSem, task>>
    BY <1>1 DEF McpsRequest
  <2>2. CASE macState' # {} \/ ~AllowRequests
    BY <1>1, <2>1, <2>2 DEF McpsRequest
  <2>3. CASE macState' = {} /\ AllowRequests
    <3>1. /\ request = "none" /\ request' = type /\ requests' = requests + 1
          /\ ackTimeoutRetriesCounter' = 1
          /\ type = "MCPS_CONFIRMED" => ackTimeoutRetries' = NbTrials
      BY <1>1, <2>3 DEF McpsRequest
    <3>2. "McpsReq" \in macFlags => Asleep
      BY <2>1, <2>3 DEF AllowRequests
    <3> QED
      BY <2>1, <2>3, <3>1, <3>2
  <2> QED
    BY <2>2, <2>3
<1>2. CASE Send
  <2>1. /\ request \in Mcps /\ request' = "none" /\ txMsg'.request = requests
        /\ txMsg' \in [request : Nat, fCnt : 0..(FCntModulus - 1)]
        /\ "TX_DELAYED" \notin macState /\ "TxDelayed" \notin timers
        /\ UNCHANGED <<ackTimeoutRetries, ackTimeoutRetriesCounter, timers, task, requests,
                       loraIntSem>>
    BY <1>2 DEF Send, HeaderFCnt
  <2>2. CASE /\ SendFrameOnChannel(txMsg', request = "MCPS_CONFIRMED",
                     ackTimeoutRetriesCounter, channelsNbTransCounter, macState)
             /\ nodeAckRequested' = (request = "MCPS_CONFIRMED")
             /\ mcpsConfirm'.request = request /\ macFlags' = macFlags \cup {"McpsReq"}
    <3>1. /\ frame'.request = requests /\ frame'.times = 1
          /\ frame'.confirmed <=> request = "MCPS_CONFIRMED"
          /\ frame'.confirmed = nodeAckRequested'
      <4>1. PICK ack \in BOOLEAN : ack = (request = "MCPS_CONFIRMED")
        OBVIOUS
      <4>2. /\ SendFrameOnChannel(txMsg', ack, ackTimeoutRetriesCounter,
                                 channelsNbTransCounter, macState)
            /\ nodeAckRequested' = ack
        BY <2>2, <4>1
      <4>3. /\ frame'.request = txMsg'.request /\ frame'.confirmed = ack
            /\ frame'.times = IF txMsg'.request = frame.request THEN frame.times + 1 ELSE 1
        BY <2>1, <4>2, FrameType
      <4>4. frame'.request = requests /\ frame'.times = 1
        BY <2>1, <4>3
      <4>5. frame'.confirmed = nodeAckRequested'
        BY <4>2, <4>3
      <4>6. frame'.confirmed <=> request = "MCPS_CONFIRMED"
        BY <4>1, <4>3
      <4> QED
        BY <4>4, <4>5, <4>6
    <3>2. /\ macState' = macState \cup {"TX_RUNNING"}
          /\ request # "MCPS_CONFIRMED" => channelsNbTransCounter' >= 1
      BY <2>2 DEF SendFrameOnChannel
    <3>3. Exchanging'
      <4>1. Confirmed' <=> nodeAckRequested'
        BY <2>1, <2>2
      <4>2. CountersKeepUp'
        BY <2>1, <2>2, <3>1, <3>2
      <4> QED
        BY <2>1, <3>1, <3>2, <4>1, <4>2
    <3>4. TrialsBounded'
      BY <3>1
    <3> QED
      BY <2>1, <2>2, <3>1, <3>2, <3>3, <3>4
  <2>3. CASE UNCHANGED <<macFlags, macState, frame, chip>>
    BY <2>1, <2>3
  <2>4. \/ /\ SendFrameOnChannel(txMsg', request = "MCPS_CONFIRMED",
                    ackTimeoutRetriesCounter, channelsNbTransCounter, macState)
           /\ nodeAckRequested' = (request = "MCPS_CONFIRMED")
           /\ mcpsConfirm'.request = request /\ macFlags' = macFlags \cup {"McpsReq"}
        \/ UNCHANGED <<macFlags, macState, frame, chip>>
    BY <1>2 DEF Send
  <2> QED
    BY <2>2, <2>3, <2>4
<1>3. CASE DeepSleep
  BY <1>3 DEF DeepSleep
<1>4. CASE TransmissionEnds
  <2>1. /\ chip # "idle"
        /\ UNCHANGED <<macState, macFlags, retry, mcpsConfirm, txVars, timers, task,
                       request, requests>>
    BY <1>4 DEF TransmissionEnds, DioIrq
  <2> QED
    BY <2>1
<1>5. CASE ReceptionEnds
  <2>1. /\ chip # "idle"
        /\ UNCHANGED <<macState, macFlags, retry, mcpsConfirm, txVars, timers, task,
                       request, requests>>
    BY <1>5 DEF ReceptionEnds, DioIrq
  <2> QED
    BY <2>1
<1>6. CASE ReceptionTimesOut
  BY <1>6 DEF ReceptionTimesOut, DioIrq
<1>7. CASE BgIrqProcess
  BY <1>7 DEF BgIrqProcess
<1>8. CASE ProcessRadioTxDone
  BY <1>8 DEF ProcessRadioTxDone, Handling
<1>9. CASE ProcessRadioRxDone
  BY <1>9 DEF ProcessRadioRxDone, Handling
<1>10. CASE ProcessRadioTxTimeout
  BY <1>10 DEF ProcessRadioTxTimeout, Handling
<1>11. CASE ProcessRadioRxError
  BY <1>11 DEF ProcessRadioRxError, HandleRadioRxErrorTimeout, Handling
<1>12. CASE ProcessRadioRxTimeout
  BY <1>12 DEF ProcessRadioRxTimeout, HandleRadioRxErrorTimeout, Handling
<1>13. CASE EventsHandled
  BY <1>13 DEF EventsHandled
<1>14. CASE CheckForRxAbort
  BY <1>14 DEF CheckForRxAbort, StateAfterAbort
<1>15. CASE HandleMcpsRequest
  <2>1. /\ task = "mcps" /\ task' = "requestEvents" /\ "RX_ABORT" \notin macState
        /\ UNCHANGED <<mcpsConfirm.request, txMsg, ackTimeoutRetries, request, requests>>
    BY <1>15 DEF HandleMcpsRequest, ScheduleDelayedTx, SendFrameOnChannel
  <2>2. CASE UNCHANGED <<macState, macFlags, retry, frame, timers>>
    BY <2>1, <2>2
  <2>3. CASE /\ StopRetransmission(macState \ {"TX_DELAYED"})
             /\ timers' = timers \ {"TxDelayed"}
             /\ UNCHANGED <<macFlags, ackTimeoutRetriesCounter, frame>>
    <3>1. macState' = {}
      BY <2>1, <2>3 DEF StopRetransmission
    <3> QED
      BY <2>1, <2>3, <3>1
  <2>4. CASE /\ "McpsReq" \in macFlags /\ ~ExchangeOver /\ ~AwaitsAck
             /\ macFlags' = macFlags \ {"MacDone"}
             /\ ackTimeoutRetriesCounter'
                    = ackTimeoutRetriesCounter + (IF Confirmed THEN 1 ELSE 0)
             /\ ScheduleDelayedTx(ackTimeoutRetriesCounter', FALSE)
    <3>1. Exchanging /\ request = "none"
      BY <2>1, <2>4
    <3>2. IF nodeAckRequested
          THEN /\ frame.times < ackTimeoutRetriesCounter'
               /\ ackTimeoutRetriesCounter' <= ackTimeoutRetries
               /\ ackTimeoutRetries = NbTrials
          ELSE /\ frame.times <= channelsNbTransCounter
               /\ channelsNbTransCounter < ChannelsNbTrans
      BY <2>4, <3>1 DEF ExchangeOver, AwaitsAck, CheckRetransConfirmedUplink,
                        CheckRetransUnconfirmedUplink
    <3>3. macState \cap {"RX_ABORT"} = {} /\ "McpsReq" \in macFlags'
          /\ ackTimeoutRetriesCounter' \in Nat /\ request' = "none"
          /\ ScheduleDelayedTx(ackTimeoutRetriesCounter', FALSE)
      <4>1. macState \cap {"RX_ABORT"} = {}
        BY <2>1
      <4>2. "McpsReq" \in macFlags' /\ request' = "none"
        BY <2>1, <2>4, <3>1
      <4>3. ackTimeoutRetriesCounter' \in Nat
        BY <2>4
      <4>4. ScheduleDelayedTx(ackTimeoutRetriesCounter', FALSE)
        BY <2>4
      <4> QED
        BY <4>1, <4>2, <4>3, <4>4
    <3> HIDE DEF TypeOK, MacTypeOK, CounterTypeOK, BusyInv, TrialsBounded, RequestsInOrder,
             UnconfirmedAccounted
    <3> QED
      BY <2>1, <3>1, <3>2, <3>3, ScheduleKeeps DEF Goal
  <2> QED
    BY <1>15, <2>2, <2>3, <2>4 DEF HandleMcpsRequest
<1>16. CASE HandleRequestEvents
  <2>1. UNCHANGED <<macState, retry, mcpsConfirm, txVars, timers, request, requests>>
    BY <1>16 DEF HandleRequestEvents
  <2>2. CASE macState # {}
    <3>1. task = "requestEvents" /\ UNCHANGED macFlags
      BY <1>16, <2>2 DEF HandleRequestEvents
    <3>2. "McpsReq" \in macFlags => request = "none" /\ Exchanging /\ Exchanging'
      BY <2>1, <2>2, <3>1
    <3> QED
      BY <2>1, <2>2, <3>1, <3>2
  <2>3. CASE macState = {}
    <3>1. "McpsReq" \notin macFlags'
      BY <1>16, <2>3 DEF HandleRequestEvents
    <3> QED
      BY <2>1, <2>3, <3>1
  <2> QED
    BY <2>2, <2>3
<1>17. CASE McpsConfirmReturns
  BY <1>17 DEF McpsConfirmReturns
<1>18. CASE HandleIndicationEvents
  BY <1>18 DEF HandleIndicationEvents
<1>19. CASE OpenContinuousRxCWindow
  BY <1>19 DEF OpenContinuousRxCWindow
<1>20. CASE OnRxWindow1TimerEvent
  <2>1. /\ timers # {}
        /\ "TxDelayed" \in timers' => "TxDelayed" \in timers
        /\ UNCHANGED <<macState, macFlags, retry, mcpsConfirm, txVars, task, request,
                       requests>>
    BY <1>20 DEF OnRxWindow1TimerEvent, RxWindowSetup, Expired
  <2> QED
    BY <2>1
<1>21. CASE OnRxWindow2TimerEvent
  <2>1. /\ timers # {}
        /\ "TxDelayed" \in timers' => "TxDelayed" \in timers
        /\ UNCHANGED <<macState, macFlags, retry, mcpsConfirm, txVars, task, request,
                       requests>>
    BY <1>21 DEF OnRxWindow2TimerEvent, RxWindowSetup, Expired
  <2> QED
    BY <2>1
<1>22. CASE OnAckTimeoutTimerEvent
  BY <1>22 DEF OnAckTimeoutTimerEvent
<1>23. CASE OnTxDelayedTimerEvent
  <2>1. /\ "TX_DELAYED" \in macState /\ Exchanging /\ request = "none"
        /\ macState' \cap {"TX_RUNNING", "TX_DELAYED"} # {}
        /\ ScheduleDelayedTx(ackTimeoutRetriesCounter, ackTimeoutRetry)
        /\ UNCHANGED <<macFlags, ackTimeoutRetries, ackTimeoutRetriesCounter, txMsg, request,
                       requests>>
    BY <1>23 DEF OnTxDelayedTimerEvent
  <2>2. /\ "McpsReq" \in macFlags' /\ request' = "none"
        /\ ackTimeoutRetriesCounter' \in Nat /\ ackTimeoutRetry \in BOOLEAN
        /\ ScheduleDelayedTx(ackTimeoutRetriesCounter', ackTimeoutRetry)
    BY <2>1
  <2>3. IF nodeAckRequested
        THEN /\ frame.times < ackTimeoutRetriesCounter'
             /\ ackTimeoutRetriesCounter' <= ackTimeoutRetries /\ ackTimeoutRetries = NbTrials
        ELSE /\ frame.times <= channelsNbTransCounter
             /\ channelsNbTransCounter < ChannelsNbTrans
    BY <2>1
  <2> HIDE DEF TypeOK, MacTypeOK, CounterTypeOK, BusyInv, TrialsBounded, RequestsInOrder,
           UnconfirmedAccounted
  <2> QED
    BY <2>1, <2>2, <2>3, ScheduleKeeps DEF Goal
<1>24. CASE RadioOnRxTimeoutIrq
  BY <1>24 DEF RadioOnRxTimeoutIrq
<1>25. CASE Tick
  BY <1>25 DEF Tick
<1>26. CASE UNCHANGED vars
  BY <1>26 DEF vars
<1> QED
  BY <1>1, <1>2, <1>3, <1>4, <1>5, <1>6, <1>7, <1>8, <1>9, <1>10, <1>11, <1>12, <1>13,
     <1>14, <1>15, <1>16, <1>17, <1>18, <1>19, <1>20, <1>21, <1>22, <1>23, <1>24, <1>25,
     <1>26 DEF Next, LoRaTask, TimerTask, Radio

(* Whatever the network sends, the duty cycle delays or the radio misses, a *)
(* frame goes out no more often than its request allows, in class A and C,  *)
(* confirmed or not, unless its exchange was ended from outside.            *)
THEOREM TrialsBoundedAlways == Spec => []TrialsBounded
<1>1. TrialsInv => TrialsBounded
  BY DEF TrialsInv, TrialsBounded
<1> QED
  BY <1>1, TypeCorrect, BusyInit, BusyNext, TrialsInit, TrialsNext, PTL DEF Spec

-----------------------------------------------------------------------------
(* Nothing is repeated or waits for its confirm after the join.            *)
LEMMA UplinkInit == Init => UplinkInv
<1> SUFFICES ASSUME Init PROVE UplinkInv
  OBVIOUS
<1> QED
  BY DEF Init, UplinkInv, NothingConfirmed, NothingRepeated, RepeatsCurrent, ConfirmsCurrent,
        AbortsHandled, DelaysWithinRepetitions, RepetitionsBounded, HeaderMatchesMic, HeaderFCnt

(* Every step of a MAC that nothing forces to idle keeps the agreement of  *)
(* its state, its flags and its repetition counter.                        *)
LEMMA UplinkNext == ASSUME NeverForced, TypeOK, UplinkInv, [Next]_vars PROVE UplinkInv'
<1> USE DEF NeverForced, TypeOK, MacTypeOK, CounterTypeOK, TaskTypeOK, UplinkInv,
      NothingConfirmed, NothingRepeated, RepeatsCurrent, ConfirmsCurrent, AbortsHandled,
      DelaysWithinRepetitions, RepetitionsBounded, HeaderMatchesMic, HeaderFCnt
<1>1. ASSUME NEW type \in RequestTypes, McpsRequest(type) PROVE UplinkInv'
  <2>1. NothingConfirmed'
    BY <1>1 DEF McpsRequest, AllowRequests
  <2>2. NothingRepeated'
    BY <1>1 DEF McpsRequest, AllowRequests
  <2>3. RepeatsCurrent'
    BY <1>1 DEF McpsRequest, AllowRequests
  <2>4. ConfirmsCurrent'
    BY <1>1 DEF McpsRequest, AllowRequests
  <2>5. AbortsHandled'
    BY <1>1 DEF McpsRequest, AllowRequests
  <2>6. DelaysWithinRepetitions'
    BY <1>1 DEF McpsRequest, AllowRequests
  <2>7. (HeaderMatchesMic /\ frame.mic <= fCntUp)'
    BY <1>1 DEF McpsRequest, AllowRequests
  <2> QED
    BY <2>1, <2>2, <2>3, <2>4, <2>5, <2>6, <2>7
<1>2. CASE Send
  <2>1. /\ request = "MCPS_UNCONFIRMED" /\ request' = "none" /\ channelsNbTransCounter = 0
        /\ "McpsReq" \notin macFlags
        /\ SecureCounter(channelsNbTransCounter, ackTimeoutRetriesCounter) = fCntUp + 1
    BY <1>2 DEF Send, SecureCounter
  <2>2. nodeAckRequested' = FALSE /\ ackTimeoutRetriesCounter' = 1
    BY <1>2, <2>1 DEF Send
  <2>3. /\ mcpsConfirm' \in McpsConfirm
        /\ mcpsConfirm'.request = "MCPS_UNCONFIRMED" /\ mcpsConfirm'.counter = fCntUp + 1
    <3>1. \E status \in {mcpsConfirm.status, "ERROR"} :
               mcpsConfirm' = [mcpsConfirm EXCEPT !.ack = FALSE, !.counter = fCntUp + 1,
                              !.status = status, !.request = "MCPS_UNCONFIRMED"]
      BY <1>2, <2>1, SendConfirm
    <3>2. mcpsConfirm \in McpsConfirm /\ fCntUp + 1 \in Nat
      OBVIOUS
    <3> HIDE DEF TypeOK
    <3> QED
      BY <3>1, <3>2
  <2>4. CASE UNCHANGED <<macFlags, macState, channelsNbTransCounter, fCntUp, frame>>
    <3>1. UNCHANGED <<timers, task>>
      BY <1>2 DEF Send
    <3> QED
      BY <2>1, <2>2, <2>3, <2>4, <3>1
  <2>5. CASE /\ SendFrameOnChannel(txMsg', FALSE, ackTimeoutRetriesCounter,
                                   channelsNbTransCounter, macState)
             /\ macFlags' = macFlags \cup {"McpsReq"}
    <3>1. UNCHANGED <<timers, task>> /\ txMsg'.fCnt = HeaderFCnt(fCntUp + 1)
      BY <1>2 DEF Send
    <3>2. /\ fCntUp' = fCntUp + 1 /\ channelsNbTransCounter' = 1
          /\ macState' = macState \cup {"TX_RUNNING"}
          /\ frame' = [request |-> txMsg'.request, fCnt |-> txMsg'.fCnt, mic |-> fCntUp + 1,
                        confirmed |-> FALSE, times |-> frame'.times]
      BY <2>1, <2>5 DEF SendFrameOnChannel
    <3>3. AbortsHandled'
      BY <2>5, <3>1, <3>2
    <3>4. NothingConfirmed' /\ NothingRepeated' /\ RepeatsCurrent' /\ ConfirmsCurrent'
      BY <2>1, <2>2, <2>3, <2>5, <3>1, <3>2
    <3>5. DelaysWithinRepetitions'
      BY <2>1, <3>1, <3>2
    <3>6. HeaderMatchesMic' /\ frame'.mic <= fCntUp'
      BY <3>1, <3>2
    <3> QED
      BY <3>3, <3>4, <3>5, <3>6
  <2> QED
    BY <1>2, <2>1, <2>4, <2>5 DEF Send
<1>3. CASE DeepSleep
  BY <1>3 DEF DeepSleep
<1>4. CASE TransmissionEnds
  <2>1. UNCHANGED <<macState, macFlags, retry, mcpsConfirm, txVars, timers, task, request>>
    BY <1>4 DEF TransmissionEnds, DioIrq
  <2> QED
    BY <2>1
<1>5. CASE ReceptionEnds
  <2>1. UNCHANGED <<macState, macFlags, retry, mcpsConfirm, txVars, timers, task, request>>
    BY <1>5 DEF ReceptionEnds, DioIrq
  <2> QED
    BY <2>1
<1>6. CASE ReceptionTimesOut
  BY <1>6 DEF ReceptionTimesOut, DioIrq
<1>7. CASE BgIrqProcess
  BY <1>7 DEF BgIrqProcess
<1>8. CASE ProcessRadioTxDone
  BY <1>8 DEF ProcessRadioTxDone, Handling
<1>9. CASE ProcessRadioRxDone
  BY <1>9 DEF ProcessRadioRxDone, Handling
<1>10. CASE ProcessRadioTxTimeout
  BY <1>10 DEF ProcessRadioTxTimeout, Handling
<1>11. CASE ProcessRadioRxError
  BY <1>11 DEF ProcessRadioRxError, HandleRadioRxErrorTimeout, Handling
<1>12. CASE ProcessRadioRxTimeout
  BY <1>12 DEF ProcessRadioRxTimeout, HandleRadioRxErrorTimeout, Handling
<1>13. CASE EventsHandled
  BY <1>13 DEF EventsHandled
<1>14. CASE CheckForRxAbort
  BY <1>14 DEF CheckForRxAbort, StateAfterAbort
<1>15. CASE HandleMcpsRequest
  BY <1>15 DEF HandleMcpsRequest, ScheduleDelayedTx, StopRetransmission, SendFrameOnChannel,
        SecureCounter, ExchangeOver, AwaitsAck, Confirmed, CheckRetransUnconfirmedUplink
<1>16. CASE HandleRequestEvents
  <2>1. NothingConfirmed'
    BY <1>16 DEF HandleRequestEvents
  <2>2. NothingRepeated'
    <3>1. CASE macState = {}
      BY <1>16, <3>1 DEF HandleRequestEvents
    <3>2. CASE macState # {}
      BY <1>16, <3>2 DEF HandleRequestEvents
    <3> QED
      BY <3>1, <3>2
  <2>3. RepeatsCurrent'
    BY <1>16 DEF HandleRequestEvents
  <2>4. ConfirmsCurrent'
    BY <1>16 DEF HandleRequestEvents
  <2>5. AbortsHandled'
    BY <1>16 DEF HandleRequestEvents
  <2>6. DelaysWithinRepetitions'
    BY <1>16 DEF HandleRequestEvents
  <2>7. (HeaderMatchesMic /\ frame.mic <= fCntUp)'
    BY <1>16 DEF HandleRequestEvents
  <2> QED
    BY <2>1, <2>2, <2>3, <2>4, <2>5, <2>6, <2>7
<1>17. CASE McpsConfirmReturns
  BY <1>17 DEF McpsConfirmReturns
<1>18. CASE HandleIndicationEvents
  BY <1>18 DEF HandleIndicationEvents
<1>19. CASE OpenContinuousRxCWindow
  BY <1>19 DEF OpenContinuousRxCWindow
<1>20. CASE OnRxWindow1TimerEvent
  BY <1>20 DEF OnRxWindow1TimerEvent, RxWindowSetup
<1>21. CASE OnRxWindow2TimerEvent
  BY <1>21 DEF OnRxWindow2TimerEvent, RxWindowSetup
<1>22. CASE OnAckTimeoutTimerEvent
  BY <1>22 DEF OnAckTimeoutTimerEvent
<1>23. CASE OnTxDelayedTimerEvent
  BY <1>23 DEF OnTxDelayedTimerEvent, ScheduleDelayedTx, StopRetransmission, SendFrameOnChannel,
        SecureCounter
<1>24. CASE RadioOnRxTimeoutIrq
  BY <1>24 DEF RadioOnRxTimeoutIrq
<1>25. CASE Tick
  BY <1>25 DEF Tick
<1>26. CASE UNCHANGED vars
  BY <1>26 DEF vars
<1> QED
  BY <1>1, <1>2, <1>3, <1>4, <1>5, <1>6, <1>7, <1>8, <1>9, <1>10, <1>11, <1>12, <1>13,
     <1>14, <1>15, <1>16, <1>17, <1>18, <1>19, <1>20, <1>21, <1>22, <1>23, <1>24, <1>25,
     <1>26 DEF Next, LoRaTask, TimerTask, Radio

(* The confirm that LoRaMacHandleRequestEvents gives is the current one.   *)
LEMMA ConfirmStep ==
    ASSUME TypeOK, UplinkInv, [Next]_vars, Confirms
    PROVE  mcpsConfirm.counter = frame.mic
<1>. SUFFICES "McpsReq" \in macFlags
  BY DEF UplinkInv, ConfirmsCurrent
<1>1. ASSUME NEW type \in RequestTypes, McpsRequest(type) PROVE "McpsReq" \in macFlags
  BY <1>1 DEF Confirms, McpsRequest
<1>2. CASE Send
  BY <1>2 DEF Confirms, Send, SendFrameOnChannel, SecureCounter
<1>3. CASE DeepSleep
  BY <1>3 DEF Confirms, DeepSleep
<1>4. CASE TransmissionEnds
  BY <1>4 DEF Confirms, TransmissionEnds, DioIrq
<1>5. CASE ReceptionEnds
  BY <1>5 DEF Confirms, ReceptionEnds, DioIrq
<1>6. CASE ReceptionTimesOut
  BY <1>6 DEF Confirms, ReceptionTimesOut, DioIrq
<1>7. CASE BgIrqProcess
  BY <1>7 DEF Confirms, BgIrqProcess
<1>8. CASE ProcessRadioTxDone
  BY <1>8 DEF Confirms, ProcessRadioTxDone, Handling
<1>9. CASE ProcessRadioRxDone
  BY <1>9 DEF Confirms, ProcessRadioRxDone, Handling
<1>10. CASE ProcessRadioTxTimeout
  BY <1>10 DEF Confirms, ProcessRadioTxTimeout, Handling
<1>11. CASE ProcessRadioRxError
  BY <1>11 DEF Confirms, ProcessRadioRxError, HandleRadioRxErrorTimeout, Handling
<1>12. CASE ProcessRadioRxTimeout
  BY <1>12 DEF Confirms, ProcessRadioRxTimeout, HandleRadioRxErrorTimeout, Handling
<1>13. CASE EventsHandled
  BY <1>13 DEF Confirms, EventsHandled
<1>14. CASE CheckForRxAbort
  BY <1>14 DEF Confirms, CheckForRxAbort, StateAfterAbort
<1>15. CASE HandleMcpsRequest
  BY <1>15 DEF Confirms, HandleMcpsRequest, ScheduleDelayedTx, StopRetransmission,
        SendFrameOnChannel, SecureCounter
<1>16. CASE HandleRequestEvents
  BY <1>16 DEF Confirms, HandleRequestEvents
<1>17. CASE McpsConfirmReturns
  BY <1>17 DEF Confirms, McpsConfirmReturns
<1>18. CASE HandleIndicationEvents
  BY <1>18 DEF Confirms, HandleIndicationEvents
<1>19. CASE OpenContinuousRxCWindow
  BY <1>19 DEF Confirms, OpenContinuousRxCWindow
<1>20. CASE OnRxWindow1TimerEvent
  BY <1>20 DEF Confirms, OnRxWindow1TimerEvent, RxWindowSetup
<1>21. CASE OnRxWindow2TimerEvent
  BY <1>21 DEF Confirms, OnRxWindow2TimerEvent, RxWindowSetup
<1>22. CASE OnAckTimeoutTimerEvent
  BY <1>22 DEF Confirms, OnAckTimeoutTimerEvent
<1>23. CASE OnTxDelayedTimerEvent
  BY <1>23 DEF Confirms, OnTxDelayedTimerEvent, ScheduleDelayedTx, StopRetransmission,
        SendFrameOnChannel, SecureCounter
<1>24. CASE RadioOnRxTimeoutIrq
  BY <1>24 DEF Confirms, RadioOnRxTimeoutIrq
<1>25. CASE Tick
  BY <1>25 DEF Confirms, Tick
<1>26. CASE UNCHANGED vars
  BY <1>26 DEF Confirms, vars
<1> QED
  BY <1>1, <1>2, <1>3, <1>4, <1>5, <1>6, <1>7, <1>8, <1>9, <1>10, <1>11, <1>12, <1>13,
     <1>14, <1>15, <1>16, <1>17, <1>18, <1>19, <1>20, <1>21, <1>22, <1>23, <1>24, <1>25,
     <1>26 DEF Next, LoRaTask, TimerTask, Radio

(* A transmission takes the next counter or repeats its frame.             *)
LEMMA CounterStep ==
    ASSUME NeverForced, TypeOK, UplinkInv, [Next]_vars, frame' # frame
    PROVE  \/ frame'.mic > frame.mic
           \/ frame'.mic = frame.mic /\ frame'.request = frame.request
<1> DEFINE Goal == \/ frame'.mic > frame.mic
                   \/ frame'.mic = frame.mic /\ frame'.request = frame.request
<1> HIDE DEF Goal
<1>r. ASSUME channelsNbTransCounter # 0,
             frame'.request = txMsg.request, frame'.mic = fCntUp
      PROVE  Goal
  BY <1>r DEF Goal, UplinkInv, RepeatsCurrent, ConfirmsCurrent
<1>1. ASSUME NEW type \in RequestTypes, McpsRequest(type) PROVE Goal
  BY <1>1 DEF McpsRequest
<1>2. CASE Send
  <2>1. CASE UNCHANGED frame
    BY <2>1
  <2>2. CASE SendFrameOnChannel(txMsg', request = "MCPS_CONFIRMED", ackTimeoutRetriesCounter,
                                channelsNbTransCounter, macState)
    <3>1. channelsNbTransCounter = 0 /\ ackTimeoutRetriesCounter = 1
      BY <1>2 DEF Send, TypeOK, CounterTypeOK, UplinkInv, RepeatsCurrent, NothingConfirmed
    <3>2. frame'.mic = fCntUp + 1
      BY <2>2, <3>1 DEF SendFrameOnChannel, SecureCounter
    <3> QED
      BY <3>2 DEF Goal, TypeOK, CounterTypeOK, UplinkInv
  <2> QED
    BY <1>2, <2>1, <2>2 DEF Send
<1>3. CASE DeepSleep
  BY <1>3 DEF DeepSleep
<1>4. CASE TransmissionEnds
  BY <1>4 DEF TransmissionEnds, DioIrq
<1>5. CASE ReceptionEnds
  BY <1>5 DEF ReceptionEnds, DioIrq
<1>6. CASE ReceptionTimesOut
  BY <1>6 DEF ReceptionTimesOut, DioIrq
<1>7. CASE BgIrqProcess
  BY <1>7 DEF BgIrqProcess
<1>8. CASE ProcessRadioTxDone
  BY <1>8 DEF ProcessRadioTxDone, Handling
<1>9. CASE ProcessRadioRxDone
  BY <1>9 DEF ProcessRadioRxDone, Handling
<1>10. CASE ProcessRadioTxTimeout
  BY <1>10 DEF ProcessRadioTxTimeout, Handling
<1>11. CASE ProcessRadioRxError
  BY <1>11 DEF ProcessRadioRxError, HandleRadioRxErrorTimeout, Handling
<1>12. CASE ProcessRadioRxTimeout
  BY <1>12 DEF ProcessRadioRxTimeout, HandleRadioRxErrorTimeout, Handling
<1>13. CASE EventsHandled
  BY <1>13 DEF EventsHandled
<1>14. CASE CheckForRxAbort
  BY <1>14 DEF CheckForRxAbort, StateAfterAbort
<1>15. CASE HandleMcpsRequest
  <2>1. "McpsReq" \in macFlags /\ channelsNbTransCounter # 0
    BY <1>15 DEF HandleMcpsRequest, txVars, StopRetransmission, UplinkInv, NothingRepeated
  <2>2. SecureCounter(channelsNbTransCounter, ackTimeoutRetriesCounter') = fCntUp
    BY <2>1 DEF SecureCounter, TypeOK, CounterTypeOK
  <2>3. /\ frame'.request = txMsg.request
        /\ frame'.mic = SecureCounter(channelsNbTransCounter, ackTimeoutRetriesCounter')
    BY <1>15 DEF HandleMcpsRequest, txVars, StopRetransmission, ScheduleDelayedTx,
                 SendFrameOnChannel
  <2>4. frame'.mic = fCntUp
    BY <2>2, <2>3
  <2> QED
    BY <1>r, <2>1, <2>3, <2>4 DEF Goal
<1>16. CASE HandleRequestEvents
  BY <1>16 DEF HandleRequestEvents
<1>17. CASE McpsConfirmReturns
  BY <1>17 DEF McpsConfirmReturns
<1>18. CASE HandleIndicationEvents
  BY <1>18 DEF HandleIndicationEvents
<1>19. CASE OpenContinuousRxCWindow
  BY <1>19 DEF OpenContinuousRxCWindow
<1>20. CASE OnRxWindow1TimerEvent
  BY <1>20 DEF OnRxWindow1TimerEvent, RxWindowSetup
<1>21. CASE OnRxWindow2TimerEvent
  BY <1>21 DEF OnRxWindow2TimerEvent, RxWindowSetup
<1>22. CASE OnAckTimeoutTimerEvent
  BY <1>22 DEF OnAckTimeoutTimerEvent
<1>23. CASE OnTxDelayedTimerEvent
  <2>1. channelsNbTransCounter # 0
    BY <1>23 DEF OnTxDelayedTimerEvent, UplinkInv, NothingRepeated
  <2>2. SecureCounter(channelsNbTransCounter, ackTimeoutRetriesCounter) = fCntUp
    BY <2>1 DEF SecureCounter, TypeOK, CounterTypeOK
  <2>3. /\ frame'.request = txMsg.request
        /\ frame'.mic = SecureCounter(channelsNbTransCounter, ackTimeoutRetriesCounter)
    BY <1>23 DEF OnTxDelayedTimerEvent, StopRetransmission, ScheduleDelayedTx,
                 SendFrameOnChannel
  <2>4. frame'.mic = fCntUp
    BY <2>2, <2>3
  <2> QED
    BY <1>r, <2>1, <2>3, <2>4 DEF Goal
<1>24. CASE RadioOnRxTimeoutIrq
  BY <1>24 DEF RadioOnRxTimeoutIrq
<1>25. CASE Tick
  BY <1>25 DEF Tick
<1>26. CASE UNCHANGED vars
  BY <1>26 DEF vars
<1> QED
  BY <1>1, <1>2, <1>3, <1>4, <1>5, <1>6, <1>7, <1>8, <1>9, <1>10, <1>11, <1>12, <1>13,
     <1>14, <1>15, <1>16, <1>17, <1>18, <1>19, <1>20, <1>21, <1>22, <1>23, <1>24, <1>25,
     <1>26 DEF Goal, Next, LoRaTask, TimerTask, Radio

(* LoRaMacIsBusy lets a request in only when none is unconfirmed.          *)
LEMMA RequestStep ==
    ASSUME NeverForced, TypeOK, UplinkInv, [Next]_vars, request = "none", request' # "none"
    PROVE  "McpsReq" \notin macFlags
<1>1. ASSUME NEW type \in RequestTypes, McpsRequest(type) PROVE "McpsReq" \notin macFlags
  <2>1. macState = {} /\ AllowRequests
    BY <1>1 DEF McpsRequest, NeverForced
  <2> QED
    BY <2>1 DEF UplinkInv, NothingRepeated, RepeatsCurrent, AllowRequests
<1>2. CASE Send
  BY <1>2 DEF Send, SendFrameOnChannel, SecureCounter
<1>3. CASE DeepSleep
  BY <1>3 DEF DeepSleep
<1>4. CASE TransmissionEnds
  BY <1>4 DEF TransmissionEnds, DioIrq
<1>5. CASE ReceptionEnds
  BY <1>5 DEF ReceptionEnds, DioIrq
<1>6. CASE ReceptionTimesOut
  BY <1>6 DEF ReceptionTimesOut, DioIrq
<1>7. CASE BgIrqProcess
  BY <1>7 DEF BgIrqProcess
<1>8. CASE ProcessRadioTxDone
  BY <1>8 DEF ProcessRadioTxDone, Handling
<1>9. CASE ProcessRadioRxDone
  BY <1>9 DEF ProcessRadioRxDone, Handling
<1>10. CASE ProcessRadioTxTimeout
  BY <1>10 DEF ProcessRadioTxTimeout, Handling
<1>11. CASE ProcessRadioRxError
  BY <1>11 DEF ProcessRadioRxError, HandleRadioRxErrorTimeout, Handling
<1>12. CASE ProcessRadioRxTimeout
  BY <1>12 DEF ProcessRadioRxTimeout, HandleRadioRxErrorTimeout, Handling
<1>13. CASE EventsHandled
  BY <1>13 DEF EventsHandled
<1>14. CASE CheckForRxAbort
  BY <1>14 DEF CheckForRxAbort, StateAfterAbort
<1>15. CASE HandleMcpsRequest
  BY <1>15 DEF HandleMcpsRequest, ScheduleDelayedTx, StopRetransmission, SendFrameOnChannel,
        SecureCounter
<1>16. CASE HandleRequestEvents
  BY <1>16 DEF HandleRequestEvents
<1>17. CASE McpsConfirmReturns
  BY <1>17 DEF McpsConfirmReturns
<1>18. CASE HandleIndicationEvents
  BY <1>18 DEF HandleIndicationEvents
<1>19. CASE OpenContinuousRxCWindow
  BY <1>19 DEF OpenContinuousRxCWindow
<1>20. CASE OnRxWindow1TimerEvent
  BY <1>20 DEF OnRxWindow1TimerEvent, RxWindowSetup
<1>21. CASE OnRxWindow2TimerEvent
  BY <1>21 DEF OnRxWindow2TimerEvent, RxWindowSetup
<1>22. CASE OnAckTimeoutTimerEvent
  BY <1>22 DEF OnAckTimeoutTimerEvent
<1>23. CASE OnTxDelayedTimerEvent
  BY <1>23 DEF OnTxDelayedTimerEvent, ScheduleDelayedTx, StopRetransmission, SendFrameOnChannel,
        SecureCounter
<1>24. CASE RadioOnRxTimeoutIrq
  BY <1>24 DEF RadioOnRxTimeoutIrq
<1>25. CASE Tick
  BY <1>25 DEF Tick
<1>26. CASE UNCHANGED vars
  BY <1>26 DEF vars
<1> QED
  BY <1>1, <1>2, <1>3, <1>4, <1>5, <1>6, <1>7, <1>8, <1>9, <1>10, <1>11, <1>12, <1>13,
     <1>14, <1>15, <1>16, <1>17, <1>18, <1>19, <1>20, <1>21, <1>22, <1>23, <1>24, <1>25,
     <1>26 DEF Next, LoRaTask, TimerTask, Radio

(* The inductive invariant of a MAC that nothing forces to idle.           *)
LEMMA UnforcedInvariance ==
    ASSUME NeverForced
    PROVE  Spec => [](TypeOK /\ UplinkInv)
  BY TypeCorrect, UplinkInit, UplinkNext, PTL DEF Spec

(* Unforced, every frame, repetitions included, is secured with the        *)
(* counter its header carries: SecureFrame and PrepareFrame agree.         *)
THEOREM HeaderMatchesMicUnforced ==
    ASSUME NeverForced
    PROVE  Spec => []HeaderMatchesMic
<1>1. UplinkInv => HeaderMatchesMic
  BY DEF UplinkInv
<1> QED
  BY <1>1, UnforcedInvariance, PTL

(* Unforced, an unconfirmed frame goes out at most ChannelsNbTrans times.  *)
THEOREM RepetitionsBoundedUnforced ==
    ASSUME NeverForced
    PROVE  Spec => []RepetitionsBounded
<1>1. UplinkInv => RepetitionsBounded
  BY DEF UplinkInv, DelaysWithinRepetitions
<1> QED
  BY <1>1, UnforcedInvariance, PTL

(* Unforced, McpsConfirm.UpLinkCounter is the counter that was sent.       *)
THEOREM ConfirmNamesCounterUnforced ==
    ASSUME NeverForced
    PROVE  Spec => ConfirmNamesCounter
<1>1. TypeOK /\ UplinkInv /\ [Next]_vars => [Confirms => mcpsConfirm.counter = frame.mic]_vars
  BY ConfirmStep
<1> QED
  BY <1>1, UnforcedInvariance, PTL DEF Spec, ConfirmNamesCounter

(* Unforced, no counter secures two different requests.                    *)
THEOREM CounterNeverReusedUnforced ==
    ASSUME NeverForced
    PROVE  Spec => CounterNeverReused
<1>1. TypeOK /\ UplinkInv /\ [Next]_vars =>
          [frame' # frame => \/ frame'.mic > frame.mic
                             \/ /\ frame'.mic = frame.mic
                                /\ frame'.request = frame.request]_vars
  BY CounterStep
<1> QED
  BY <1>1, UnforcedInvariance, PTL DEF Spec, CounterNeverReused

(* Unforced, a request is only taken after the last one's confirm.         *)
THEOREM OneRequestAtATimeUnforced ==
    ASSUME NeverForced
    PROVE  Spec => OneRequestAtATime
<1>1. TypeOK /\ UplinkInv /\ [Next]_vars =>
          [request = "none" /\ request' # "none" => "McpsReq" \notin macFlags]_vars
  BY RequestStep
<1> QED
  BY <1>1, UnforcedInvariance, PTL DEF Spec, OneRequestAtATime
-----------------------------------------------------------------------------
(* The course of an exchange of a class A node that nothing forces to      *)
(* idle, phase by phase: what the transceiver, its driver, the timers and  *)
(* the LoRa task may be at together.  Windows open only in Waiting, frames *)
(* are given to the transceiver only in Resting and Deciding.              *)
Quiet ==
    /\ chip = "idle" /\ opMode = "idle" /\ irq = {} /\ loraIntSem = 0 /\ radioEvents = {}
Attentive ==
    /\ events = {} /\ "MacDone" \notin macFlags
    /\ task \in {"wait", "events", "indications", "window"}
Passing ==
    /\ events = {} /\ ("MacDone" \in macFlags => task = "confirm")
    /\ task \in {"wait", "requestEvents", "confirm", "indications", "window"}
Pending == "McpsReq" \in macFlags /\ "TX_RUNNING" \in macState

(* No transmission, or a delayed one, or one that was never scheduled.     *)
Resting ==
    /\ Quiet /\ rxSlot = "NONE" /\ timers \subseteq {"TxDelayed"} /\ Passing
    /\ "McpsReq" \in macFlags \/ task = "requestEvents" => "TX_RUNNING" \in macState

(* A frame is going out, or its end was not yet noticed by the LoRa task.  *)
Sending ==
    /\ rxSlot = "NONE" /\ timers = {} /\ Passing /\ Pending
    /\ opMode = "tx" /\ radioEvents = {}
    /\ \/ chip = "tx" /\ irq = {} /\ loraIntSem = 0
       \/ chip = "idle" /\ irq \in {{"TX_DONE"}, {"RX_TX_TIMEOUT"}} /\ loraIntSem = 1

(* Its end is about to be handled.                                         *)
Sent ==
    /\ Quiet /\ rxSlot = "NONE" /\ timers = {} /\ Pending /\ "MacDone" \notin macFlags
    /\ task = "events" /\ events \in {{"TxDone"}, {"TxTimeout"}}

(* The frame is out; window 1 opens next, then window 2, or only window 2. *)
Waiting ==
    /\ Quiet /\ rxSlot = "NONE" /\ Pending /\ Attentive
    /\ \/ timers = {"RxWindow1", "RxWindow2"} /\ elapsed <= 1
       \/ timers = {"RxWindow2"}

(* A receive window is open, or its end not yet handled; window 2 is still *)
(* to come if it is the first.                                             *)
InWindow ==
    /\ Pending /\ "MacDone" \notin macFlags
    /\ \/ rxSlot = "WIN_1" /\ timers \ {"RadioRx"} = {"RxWindow2"}
       \/ rxSlot = "WIN_2" /\ timers \ {"RadioRx"} = {}

Listening ==
    /\ InWindow /\ Attentive /\ opMode = "rx"
    /\ \/ chip = "rx" /\ irq = {} /\ loraIntSem = 0
       \/ /\ chip = "idle" /\ loraIntSem = 1
          /\ irq \in {{"RX_DONE"}, {"RX_DONE", "CRC_ERROR"}, {"RX_TX_TIMEOUT"}}
    /\ \/ "RadioRx" \in timers /\ radioEvents = {}
       \/ "RadioRx" \notin timers /\ radioEvents = {"RxTimeout"} /\ elapsed >= 2

(* What the window brought is about to be handled.                         *)
Received ==
    /\ InWindow /\ Quiet /\ "RadioRx" \notin timers /\ task = "events"
    /\ \/ events \in {{"RxDone"}, {"RxError"}, {"RxTimeout"}}
       \/ events \in {{"RxDone", "RxTimeout"}, {"RxError", "RxTimeout"}} /\ elapsed >= 2

(* The exchange is over; LoRaMacProcess decides on a repetition.           *)
(* No window is open or to come: repeat the frame or confirm the request.  *)
Deciding ==
    /\ Quiet /\ rxSlot = "NONE" /\ timers = {} /\ {"McpsReq", "MacDone"} \subseteq macFlags
    /\ \/ task = "events" /\ events \subseteq {"RxTimeout"} /\ Pending
       \/ task = "rxAbort" /\ events = {} /\ Pending
       \/ task = "mcps" /\ events = {}
       \/ task = "requestEvents" /\ events = {} /\ macState = {}

(* One part of the exchange is under way.                                  *)
Phases ==
    \/ Resting \/ Sending \/ Sent \/ Waiting \/ Listening \/ Received \/ Deciding

WindowInv == ~rxContinuous /\ Phases

(* What the types and UplinkInv say of the variables WindowInv is about.   *)
Facts ==
    /\ ~nodeAckRequested /\ mcpsConfirm.request = "MCPS_UNCONFIRMED"
    /\ "RX_ABORT" \in macState => "MacDone" \in macFlags /\ task \in {"events", "rxAbort"}
    /\ macState \subseteq {"TX_RUNNING", "TX_DELAYED", "RX_ABORT"}
    /\ "McpsReq" \notin macFlags => macState \subseteq {"RX_ABORT"} /\ "TxDelayed" \notin timers
    /\ "TxDelayed" \in timers => "McpsReq" \in macFlags
    /\ request # "none" => "McpsReq" \notin macFlags /\ request = "MCPS_UNCONFIRMED"
    /\ timers \subseteq {"RxWindow1", "RxWindow2", "AckTimeout", "TxDelayed", "RadioRx"}
    /\ elapsed \in 0..3
    /\ channelsNbTransCounter \in Nat
    /\ channelsNbTransCounter # 0 =>
           "TX_RUNNING" \in macState \/ (task = "mcps" /\ "McpsInd" \in macFlags)
    /\ channelsNbTransCounter = 0 /\ "McpsReq" \in macFlags =>
           task = "requestEvents" /\ macState = {}

(* They follow from what holds of every unforced node in class A.          *)
LEMMA FactsHold ==
    ASSUME NeverForced, DeviceClass = "CLASS_A", TypeOK, UplinkInv
    PROVE  Facts
BY DEF NeverForced, TypeOK, MacTypeOK, CounterTypeOK, TaskTypeOK, UplinkInv, NothingConfirmed,
    NothingRepeated, RepeatsCurrent, AbortsHandled, DelaysWithinRepetitions, Facts

(* A function to the Booleans that is true of one argument.                *)
LEMMA OneRaised ==
    ASSUME NEW r, NEW x \in DOMAIN r, r[x], \A y \in DOMAIN r \ {x} : ~r[y]
    PROVE  {e \in DOMAIN r : r[e]} = {x}
  BY Zenon

(* RadioBgIrqProcess reports one event for what the transceiver raised.    *)
LEMMA IrqReported ==
    ASSUME BgIrqProcess, ~rxContinuous, opMode \in {"tx", "rx"},
           NEW e, <<irq, e>> \in {<<{"TX_DONE"}, "TxDone">>, <<{"RX_DONE"}, "RxDone">>,
               <<{"RX_DONE", "CRC_ERROR"}, "RxError">>,
               <<{"RX_TX_TIMEOUT"}, IF opMode = "tx" THEN "TxTimeout" ELSE "RxTimeout">>}
    PROVE  events' = radioEvents \cup {e}
<1> DEFINE raised ==
       [TxDone    |-> "TX_DONE" \in irq,
        RxDone    |-> "RX_DONE" \in irq /\ "CRC_ERROR" \notin irq,
        RxError   |-> "RX_DONE" \in irq /\ "CRC_ERROR" \in irq,
        TxTimeout |-> "RX_TX_TIMEOUT" \in irq /\ opMode = "tx",
        RxTimeout |-> "RX_TX_TIMEOUT" \in irq /\ opMode = "rx"]
<1>1. events' = radioEvents \cup {x \in DOMAIN raised : raised[x]}
  <2>1. CASE irq = {"TX_DONE"}
    BY <2>1 DEF BgIrqProcess
  <2>2. CASE irq = {"RX_DONE"}
    BY <2>2 DEF BgIrqProcess
  <2>3. CASE irq = {"RX_DONE", "CRC_ERROR"}
    BY <2>3 DEF BgIrqProcess
  <2>4. CASE irq = {"RX_TX_TIMEOUT"}
    BY <2>4 DEF BgIrqProcess
  <2> QED
    BY <2>1, <2>2, <2>3, <2>4
<1>2. /\ DOMAIN raised = {"TxDone", "RxDone", "RxError", "TxTimeout", "RxTimeout"}
      /\ raised["TxDone"] <=> "TX_DONE" \in irq
      /\ raised["RxDone"] <=> "RX_DONE" \in irq /\ "CRC_ERROR" \notin irq
      /\ raised["RxError"] <=> "RX_DONE" \in irq /\ "CRC_ERROR" \in irq
      /\ raised["TxTimeout"] <=> "RX_TX_TIMEOUT" \in irq /\ opMode = "tx"
      /\ raised["RxTimeout"] <=> "RX_TX_TIMEOUT" \in irq /\ opMode = "rx"
  OBVIOUS
<1> HIDE DEF raised
<1>3. e \in DOMAIN raised /\ raised[e] /\ \A y \in DOMAIN raised \ {e} : ~raised[y]
  <2>1. CASE irq = {"TX_DONE"} /\ e = "TxDone"
    BY <2>1, <1>2
  <2>2. CASE irq = {"RX_DONE"} /\ e = "RxDone"
    BY <2>2, <1>2
  <2>3. CASE irq = {"RX_DONE", "CRC_ERROR"} /\ e = "RxError"
    BY <2>3, <1>2
  <2>4. CASE /\ irq = {"RX_TX_TIMEOUT"}
             /\ e = IF opMode = "tx" THEN "TxTimeout" ELSE "RxTimeout"
    BY <2>4, <1>2
  <2> QED
    BY <2>1, <2>2, <2>3, <2>4
<1> QED
  BY <1>1, <1>3, OneRaised

(* Every step stays in its phase or goes to the next.                      *)
LEMMA WindowNext ==
    ASSUME NeverForced, DeviceClass = "CLASS_A", TypeOK, UplinkInv, WindowInv, [Next]_vars
    PROVE  WindowInv'
<1> Facts
  BY FactsHold
<1> USE DEF Facts, WindowInv, Phases, Resting, Sending, Sent, Waiting, Listening, Received,
            Deciding, InWindow, Quiet, Attentive, Passing, Pending
<1>1. ASSUME NEW type \in RequestTypes, McpsRequest(type) PROVE WindowInv'
  BY <1>1 DEF McpsRequest, AllowRequests, NeverForced
<1>2. CASE Send
  BY <1>2 DEF Send, SendFrameOnChannel, NeverForced
<1>3. CASE DeepSleep
  BY <1>3 DEF DeepSleep, NeverForced, TypeOK, CounterTypeOK
<1>4. CASE TransmissionEnds
  <2>1. Sending /\ irq = {}
    BY <1>4 DEF TransmissionEnds
  <2>2. irq' \in {{"TX_DONE"}, {"RX_TX_TIMEOUT"}}
    BY <1>4, <2>1 DEF TransmissionEnds, DioIrq
  <2>3. chip' = "idle" /\ loraIntSem' = 1
    BY <1>4 DEF TransmissionEnds, DioIrq
  <2>4. Sending'
    BY <1>4, <2>1, <2>2, <2>3 DEF TransmissionEnds, DioIrq
  <2> QED
    BY <1>4, <2>4 DEF TransmissionEnds, DioIrq
<1>5. CASE ReceptionEnds
  <2>1. Listening /\ irq = {}
    BY <1>5 DEF ReceptionEnds
  <2>2. irq' \in {{"RX_DONE"}, {"RX_DONE", "CRC_ERROR"}}
    BY <1>5, <2>1 DEF ReceptionEnds, DioIrq
  <2>3. chip' = "idle" /\ loraIntSem' = 1
    BY <1>5 DEF ReceptionEnds, DioIrq
  <2>4. Listening'
    BY <1>5, <2>1, <2>2, <2>3 DEF ReceptionEnds, DioIrq
  <2> QED
    BY <1>5, <2>4 DEF ReceptionEnds, DioIrq
<1>6. CASE ReceptionTimesOut
  BY <1>6 DEF ReceptionTimesOut, DioIrq
<1>7. CASE BgIrqProcess
  <2>1. CASE Sending
    <3>1. irq \in {{"TX_DONE"}, {"RX_TX_TIMEOUT"}}
      BY <1>7, <2>1 DEF BgIrqProcess
    <3>2. opMode' = "idle" /\ timers' = {}
      BY <1>7, <2>1, <3>1 DEF BgIrqProcess
    <3>3. events' \in {{"TxDone"}, {"TxTimeout"}}
      <4>1. CASE irq = {"TX_DONE"}
        BY <1>7, <2>1, <4>1, IrqReported
      <4>2. CASE irq = {"RX_TX_TIMEOUT"}
        BY <1>7, <2>1, <4>2, IrqReported
      <4> QED
        BY <3>1, <4>1, <4>2
    <3>4. Sent'
      BY <1>7, <2>1, <3>2, <3>3 DEF BgIrqProcess
    <3> QED
      BY <1>7, <3>4 DEF BgIrqProcess
  <2>2. CASE Listening
    <3>1. irq \in {{"RX_DONE"}, {"RX_DONE", "CRC_ERROR"}, {"RX_TX_TIMEOUT"}}
      BY <1>7, <2>2 DEF BgIrqProcess
    <3>2. opMode' = "idle" /\ timers' = timers \ {"RadioRx"}
      BY <1>7, <2>2, <3>1 DEF BgIrqProcess
    <3>3. \E e \in {"RxDone", "RxError", "RxTimeout"} : events' = radioEvents \cup {e}
      <4>1. CASE irq = {"RX_DONE"}
        BY <1>7, <2>2, <4>1, IrqReported
      <4>2. CASE irq = {"RX_DONE", "CRC_ERROR"}
        BY <1>7, <2>2, <4>2, IrqReported
      <4>3. CASE irq = {"RX_TX_TIMEOUT"}
        BY <1>7, <2>2, <4>3, IrqReported
      <4> QED
        BY <3>1, <4>1, <4>2, <4>3
    <3>4. \/ events' \in {{"RxDone"}, {"RxError"}, {"RxTimeout"}}
          \/ events' \in {{"RxDone", "RxTimeout"}, {"RxError", "RxTimeout"}} /\ elapsed >= 2
      BY <2>2, <3>3
    <3>5. Received'
      BY <1>7, <2>2, <3>2, <3>4 DEF BgIrqProcess
    <3> QED
      BY <1>7, <3>5 DEF BgIrqProcess
  <2> QED
    BY <1>7, <2>1, <2>2 DEF BgIrqProcess
<1>8. CASE ProcessRadioTxDone
  BY <1>8 DEF ProcessRadioTxDone, Handling, Before, RadioSleepUnlessClassC, RadioSleep
<1>9. CASE ProcessRadioRxDone
  BY <1>9 DEF ProcessRadioRxDone, Handling, Before, RadioSleep, IdleSlot
<1>10. CASE ProcessRadioTxTimeout
  BY <1>10 DEF ProcessRadioTxTimeout, Handling, Before, RadioSleepUnlessClassC, RadioSleep,
     IdleSlot
<1>11. CASE ProcessRadioRxError
  BY <1>11 DEF ProcessRadioRxError, HandleRadioRxErrorTimeout, Handling, Before,
     RadioSleepUnlessClassC, RadioSleep, IdleSlot, LastWindow, RxWindow2Missed, Delays
<1>12. CASE ProcessRadioRxTimeout
  BY <1>12 DEF ProcessRadioRxTimeout, HandleRadioRxErrorTimeout, Handling, Before,
     RadioSleepUnlessClassC, RadioSleep, IdleSlot, LastWindow, RxWindow2Missed, Delays
<1>13. CASE EventsHandled
  BY <1>13 DEF EventsHandled
<1>14. CASE CheckForRxAbort
  BY <1>14 DEF CheckForRxAbort, StateAfterAbort
<1>15. CASE HandleMcpsRequest
  BY <1>15 DEF HandleMcpsRequest, ScheduleDelayedTx, StopRetransmission, SendFrameOnChannel,
     AwaitsAck, Confirmed, NeverForced, ExchangeOver, CheckRetransUnconfirmedUplink
<1>16. CASE HandleRequestEvents
  BY <1>16 DEF HandleRequestEvents
<1>17. CASE McpsConfirmReturns
  BY <1>17 DEF McpsConfirmReturns
<1>18. CASE HandleIndicationEvents
  BY <1>18 DEF HandleIndicationEvents
<1>19. CASE OpenContinuousRxCWindow
  BY <1>19 DEF OpenContinuousRxCWindow
<1>20. CASE OnRxWindow1TimerEvent
  BY <1>20 DEF OnRxWindow1TimerEvent, RxWindowSetup, Expired, Delays
<1>21. CASE OnRxWindow2TimerEvent
  BY <1>21 DEF OnRxWindow2TimerEvent, RxWindowSetup, Expired, Delays
<1>22. CASE OnAckTimeoutTimerEvent
  BY <1>22 DEF OnAckTimeoutTimerEvent, Expired
<1>23. CASE OnTxDelayedTimerEvent
  BY <1>23 DEF OnTxDelayedTimerEvent, ScheduleDelayedTx, SendFrameOnChannel, NeverForced
<1>24. CASE RadioOnRxTimeoutIrq
  BY <1>24 DEF RadioOnRxTimeoutIrq, Delays
<1>25. CASE Tick
  BY <1>25 DEF Tick, Expired, Delays
<1>26. CASE UNCHANGED vars
  BY <1>26 DEF vars
<1> QED
  BY <1>1, <1>2, <1>3, <1>4, <1>5, <1>6, <1>7, <1>8, <1>9, <1>10, <1>11, <1>12, <1>13,
     <1>14, <1>15, <1>16, <1>17, <1>18, <1>19, <1>20, <1>21, <1>22, <1>23, <1>24, <1>25,
     <1>26 DEF Next, LoRaTask, TimerTask, Radio

(* The node starts with nothing to send.                                   *)
LEMMA WindowInit == ASSUME Init, DeviceClass = "CLASS_A" PROVE WindowInv
  BY DEF Init, IdleSlot, WindowInv, Phases, Resting, Quiet, Passing

(* The inductive invariant of a class A node that nothing forces to idle.  *)
LEMMA WindowInvariance ==
    ASSUME NeverForced, DeviceClass = "CLASS_A"
    PROVE  Spec => [](TypeOK /\ UplinkInv /\ WindowInv)
  BY UnforcedInvariance, WindowInit, WindowNext, PTL DEF Spec

(* LoRaMacHandleRequestEvents confirms a request only in Deciding.         *)
LEMMA ConfirmWindowsStep ==
    ASSUME NeverForced, DeviceClass = "CLASS_A", TypeOK, UplinkInv, WindowInv, [Next]_vars
    PROVE  [Confirms => chip = "idle" /\ timers \cap {"RxWindow1", "RxWindow2"} = {}]_vars
<1> SUFFICES ASSUME Confirms PROVE chip = "idle" /\ timers \cap {"RxWindow1", "RxWindow2"} = {}
  OBVIOUS
<1>1. HandleRequestEvents
  BY DEF Confirms, Next, McpsRequest, Send, DeepSleep, LoRaTask, TimerTask, Radio, BgIrqProcess,
         ProcessRadioTxDone, ProcessRadioRxDone, ProcessRadioTxTimeout, ProcessRadioRxError,
         ProcessRadioRxTimeout, Handling, EventsHandled, CheckForRxAbort, HandleMcpsRequest,
         McpsConfirmReturns, HandleIndicationEvents, OpenContinuousRxCWindow,
         OnRxWindow1TimerEvent, OnRxWindow2TimerEvent, RxWindowSetup, OnAckTimeoutTimerEvent,
         OnTxDelayedTimerEvent, RadioOnRxTimeoutIrq, Tick, TransmissionEnds, ReceptionEnds,
         ReceptionTimesOut, DioIrq, vars
<1>2. macState = {} /\ "McpsReq" \in macFlags
  BY <1>1 DEF HandleRequestEvents, Confirms
<1>3. Deciding
  BY <1>2 DEF Confirms, WindowInv, Phases, Resting, Sending, Sent, Waiting, Listening, Received,
              InWindow, Attentive, Passing, Pending
<1> QED
  BY <1>3 DEF Deciding, Quiet

(* While a transmission is under way only its end touches the transceiver. *)
LEMMA UndisturbedStep ==
    ASSUME NeverForced, DeviceClass = "CLASS_A", TypeOK, UplinkInv, WindowInv, [Next]_vars
    PROVE  [chip = "tx" /\ sleeps' = sleeps
                => frame' = frame /\ (chip' = "tx" \/ irq' # irq)]_vars
<1> SUFFICES ASSUME chip = "tx", sleeps' = sleeps
             PROVE  frame' = frame /\ (chip' = "tx" \/ irq' # irq)
  OBVIOUS
<1>1. Sending /\ irq = {} /\ loraIntSem = 0
  BY DEF WindowInv, Phases, Resting, Sending, Sent, Waiting, Listening, Received, Deciding,
        Quiet
<1>2. /\ timers = {} /\ events = {} /\ task \notin {"events", "rxAbort", "mcps"}
      /\ request = "none" /\ ~(rxSlot = "CLASS_C")
  BY <1>1, FactsHold DEF Sending, Passing, Pending, Facts
<1>3. CASE TransmissionEnds
  BY <1>1, <1>3 DEF TransmissionEnds, DioIrq
<1>4. ~DeepSleep
  BY DEF DeepSleep, TypeOK, CounterTypeOK
<1> QED
  BY <1>1, <1>2, <1>3, <1>4
     DEF Next, McpsRequest, Send, LoRaTask, TimerTask, Radio, BgIrqProcess,
         ProcessRadioTxDone, ProcessRadioRxDone, ProcessRadioTxTimeout, ProcessRadioRxError,
         ProcessRadioRxTimeout, Handling, EventsHandled, CheckForRxAbort, HandleMcpsRequest,
         HandleRequestEvents, McpsConfirmReturns, HandleIndicationEvents,
         OpenContinuousRxCWindow, OnRxWindow1TimerEvent, OnRxWindow2TimerEvent, RxWindowSetup,
         Expired, OnAckTimeoutTimerEvent, OnTxDelayedTimerEvent, RadioOnRxTimeoutIrq, Tick,
         ReceptionEnds, ReceptionTimesOut, vars

(* Unforced, a class A node confirms a request when the exchange is over:  *)
(* nothing under way on the radio, no window open and none to come.        *)
THEOREM ConfirmAfterWindowsUnforced ==
    ASSUME NeverForced, DeviceClass = "CLASS_A"
    PROVE  Spec => ConfirmAfterWindows
<1>1. TypeOK /\ UplinkInv /\ WindowInv /\ [Next]_vars =>
          [Confirms => chip = "idle" /\ timers \cap {"RxWindow1", "RxWindow2"} = {}]_vars
  BY ConfirmWindowsStep
<1> QED
  BY <1>1, WindowInvariance, PTL DEF Spec, ConfirmAfterWindows

(* Unforced, no timer and no next frame cuts off a class A node's          *)
(* transmission: its end is what takes the transceiver out of it.          *)
THEOREM TransmissionUndisturbedUnforced ==
    ASSUME NeverForced, DeviceClass = "CLASS_A"
    PROVE  Spec => TransmissionUndisturbed
<1>1. TypeOK /\ UplinkInv /\ WindowInv /\ [Next]_vars =>
          [chip = "tx" /\ sleeps' = sleeps
               => frame' = frame /\ (chip' = "tx" \/ irq' # irq)]_vars
  BY UndisturbedStep
<1> QED
  BY <1>1, WindowInvariance, PTL DEF Spec, TransmissionUndisturbed

-----------------------------------------------------------------------------
(* The other counter of a session, the downlink's: FCntDown, for every   *)
(* width of the header's half and every gap within it.                     *)
HIDE UplinkAssumption DEF Mcps, McpsConfirm, retry, slotVars, txVars, radio, taskVars, appVars

(* Quotient and remainder by the width of the header's counter.           *)
LEMMA Division ==
    ASSUME NEW n \in Nat
    PROVE  \E q \in Nat : /\ LowHalf(n) \in 0..(HalfRange - 1)
                          /\ n = HalfRange * q + LowHalf(n)
<1>1. n % HalfRange \in 0..(HalfRange - 1)
    BY HalfRangeAssumption
<1>2. n = HalfRange * (n \div HalfRange) + (n % HalfRange)
    BY HalfRangeAssumption
<1>3. n \div HalfRange \in Nat
    BY HalfRangeAssumption
<1> QED BY <1>1, <1>2, <1>3 DEF LowHalf

(* Multiplication by the width, for the solver.                            *)
LEMMA Monotone ==
    ASSUME NEW a \in Int, NEW c \in Int, a <= c
    PROVE  HalfRange * a <= HalfRange * c
BY HalfRangeAssumption

(* Two steps of the high half.                                             *)
LEMMA Distribute ==
    ASSUME NEW a \in Int
    PROVE  /\ HalfRange * (a + 1) = HalfRange * a + HalfRange
           /\ HalfRange * (a + 2) = HalfRange * a + 2 * HalfRange
BY HalfRangeAssumption

(* The full counter spans at least two low halves.                         *)
LEMMA FullRangeFacts == FullRange \in Nat /\ FullRange >= HalfRange + HalfRange
<1>1. HalfRange * HalfRange >= HalfRange * 2
    BY HalfRangeAssumption
<1> QED BY <1>1, HalfRangeAssumption DEF FullRange

(* LoRaMacCryptoGetFCntDown extends the low half of any counter less than  *)
(* a low half ahead to that counter, and never takes it for a repetition.  *)
LEMMA Reconstruction ==
    ASSUME NEW last \in Counter, last # FCntDownInitialValue,
           NEW n \in NetCounter, last < n, n - last < HalfRange
    PROVE  /\ LowHalf(n) # LowHalf(last)
           /\ CurrentDown(last, LowHalf(n)) = n
<1> DEFINE b == LowHalf(last)
           d == LowHalf(n)
<1>0. last \in Nat /\ n \in Nat /\ n < FullRange /\ FullRange \in Nat
    BY FullRangeFacts DEF Counter, NetCounter
<1>1. PICK a \in Nat : b \in 0..(HalfRange - 1) /\ last = HalfRange * a + b
    BY <1>0, Division
<1>2. PICK c \in Nat : d \in 0..(HalfRange - 1) /\ n = HalfRange * c + d
    BY <1>0, Division
<1>3. HalfRange \in Nat /\ HalfRange > 1 /\ HalfRange * a \in Nat /\ HalfRange * c \in Nat
    BY HalfRangeAssumption
<1> HIDE DEF b, d
<1>4. c = a \/ c = a + 1
  <2>1. ~ (c + 1 <= a)
    <3> SUFFICES ASSUME c + 1 <= a PROVE FALSE
        OBVIOUS
    <3>1. HalfRange * (c + 1) <= HalfRange * a
        BY Monotone
    <3> QED BY <3>1, <1>1, <1>2, <1>3, Distribute
  <2>2. ~ (a + 2 <= c)
    <3> SUFFICES ASSUME a + 2 <= c PROVE FALSE
        OBVIOUS
    <3>1. HalfRange * (a + 2) <= HalfRange * c
        BY Monotone
    <3> QED BY <3>1, <1>1, <1>2, <1>3, Distribute
  <2> QED BY <2>1, <2>2
<1>5. CASE c = a
  <2>1. d > b /\ n = last + (d - b)
      BY <1>5, <1>1, <1>2, <1>3
  <2> QED BY <2>1, <1>1, <1>2, <1>3 DEF CurrentDown, b, d
<1>6. CASE c = a + 1
  <2>1. HalfRange * c = HalfRange * a + HalfRange
      BY <1>6, Distribute
  <2>2. d < b
      BY <2>1, <1>1, <1>2, <1>3
  <2>3. HighHalf(last) + HalfRange + d = n
      BY <2>1, <1>1, <1>2, <1>3 DEF HighHalf, b
  <2>4. n % FullRange = n
      BY <1>0
  <2> QED BY <2>2, <2>3, <2>4, <1>1, <1>2, <1>3 DEF CurrentDown, b, d
<1> QED BY <1>4, <1>5, <1>6

-----------------------------------------------------------------------------
(* The counters of the node and of the network keep their width.           *)
THEOREM CountersKeepWidth == DownSpec => []DownTypeOK
<1>0. FullRange \in Nat /\ FullRange > 2
    BY FullRangeFacts, HalfRangeAssumption
<1>a. FCntDownInitialValue \in Counter /\ 0 \in Counter
    BY <1>0 DEF FCntDownInitialValue, Counter
<1>1. DownInit => DownTypeOK
    BY <1>a DEF DownInit, DownTypeOK
<1>2. DownTypeOK /\ [DownNext]_linkVars => DownTypeOK'
  <2> SUFFICES ASSUME DownTypeOK, [DownNext]_linkVars PROVE DownTypeOK'
      OBVIOUS
  <2> USE DEF DownTypeOK
  <2>1. ASSUME NEW confirmed \in BOOLEAN, NetworkSends(confirmed) PROVE DownTypeOK'
    <3>1. netDown + 1 \in Counter
        BY <1>0, <2>1 DEF NetworkSends, NetCounter, Counter
    <3>2. [n |-> netDown, confirmed |-> confirmed] \in Frame
        BY <2>1 DEF NetworkSends, Frame
    <3> QED BY <2>1, <3>1, <3>2 DEF NetworkSends, nodeVars, downVars
  <2>2. ASSUME NEW f \in air, Lost(f) PROVE DownTypeOK'
      BY <2>2 DEF Lost, nodeVars, downVars
  <2>3. ASSUME NEW f \in air, RxAccepted(f) PROVE DownTypeOK'
    <3>1. f.n \in NetCounter /\ f.confirmed \in BOOLEAN
        BY DEF Frame
    <3>2. f.n \in Counter
        BY <3>1, <1>0 DEF NetCounter, Counter
    <3> QED BY <2>3, <3>1, <3>2 DEF RxAccepted, WindowsEnd, netVars
  <2>4. ASSUME NEW f \in air, RxRepeated(f) PROVE DownTypeOK'
      BY <2>4 DEF RxRepeated, WindowsEnd, netVars
  <2>5. ASSUME NEW f \in air, RxAborted(f) PROVE DownTypeOK'
      BY <2>5 DEF RxAborted, WindowsEnd, downVars, netVars
  <2>6. CASE SendBegins
      BY <2>6 DEF SendBegins, downVars, netVars
  <2>7. CASE SendSucceeds
      BY <2>7 DEF SendSucceeds, netVars
  <2>8. CASE SendFails
      BY <2>8 DEF SendFails, downVars, netVars
  <2>9. CASE JoinRequest
      BY <2>9 DEF JoinRequest, netVars
  <2>10. CASE JoinAccept
      BY <2>10, <1>a DEF JoinAccept
  <2>11. CASE UNCHANGED linkVars
      BY <2>11 DEF linkVars, nodeVars, downVars, netVars
  <2> QED BY <2>1, <2>2, <2>3, <2>4, <2>5, <2>6, <2>7, <2>8, <2>9, <2>10, <2>11 DEF DownNext
<1> QED BY <1>1, <1>2, PTL DEF DownSpec

(* A newer frame within the gap is always accepted, for the real widths as *)
(* for any others.                                                         *)
LEMMA FreshIsAccepted ==
    ASSUME NEW last \in Counter, NEW f \in Frame, Fresh(last, f)
    PROVE  Outcome(last, f) = "OK"
<1>0. /\ last \in Nat /\ f.n \in NetCounter /\ f.n \in Nat
      /\ FullRange \in Nat /\ FullRange >= HalfRange + HalfRange
    BY FullRangeFacts DEF Counter, NetCounter, Frame
<1>1. CASE last = FCntDownInitialValue
  <2>1. f.n < HalfRange
      BY <1>1 DEF Fresh
  <2>2. LowHalf(f.n) = f.n
      BY <2>1, <1>0, HalfRangeAssumption DEF LowHalf
  <2>3. ~ (f.n - last >= MaxFCntGap)
      BY <2>1, <1>0, <1>1, HalfRangeAssumption, GapAssumption DEF FCntDownInitialValue
  <2> QED BY <1>1, <2>2, <2>3
          DEF Outcome, Duplicated, TooManyLost, CurrentDown, CheckFCntDown, VerifyMic
<1>2. CASE last # FCntDownInitialValue
  <2>1. last < f.n /\ f.n - last < MaxFCntGap
      BY <1>2 DEF Fresh
  <2>2. f.n - last < HalfRange
      BY <2>1, <1>0, HalfRangeAssumption, GapAssumption
  <2>3. /\ LowHalf(f.n) # LowHalf(last)
        /\ CurrentDown(last, LowHalf(f.n)) = f.n
      BY <1>0, <1>2, <2>1, <2>2, Reconstruction
  <2>4. ~ (f.n - last >= MaxFCntGap)
      BY <2>1, <1>0, GapAssumption
  <2> QED BY <1>0, <2>1, <2>3, <2>4
          DEF Outcome, Duplicated, TooManyLost, CheckFCntDown, VerifyMic
<1> QED BY <1>1, <1>2

(* Every frame on the way that is newer than the last one, with fewer than *)
(* MaxFCntGap counters between, will be accepted when it arrives.          *)
THEOREM FreshAlwaysAccepted == DownSpec => []FreshAccepted
<1>1. DownTypeOK => FreshAccepted
    BY FreshIsAccepted DEF DownTypeOK, FreshAccepted
<1> QED BY <1>1, CountersKeepWidth, PTL

(* In a session the accepted counter never goes back and never repeats.    *)
THEOREM CounterAlwaysGrows == DownSpec => CounterOnlyGrows
<1> DEFINE Grows ==
       lastDown' # lastDown =>
        \/ lastDown = FCntDownInitialValue
        \/ lastDown' = FCntDownInitialValue /\ netDown' = 0
        \/ lastDown' > lastDown
<1>1. [DownNext]_linkVars => [Grows]_linkVars
  <2> SUFFICES ASSUME DownNext PROVE Grows
      BY DEF linkVars
  <2>1. ASSUME NEW f \in air, RxAccepted(f) PROVE Grows
      BY <2>1 DEF RxAccepted, Outcome, CheckFCntDown, VerifyMic
  <2>2. CASE JoinAccept
      BY <2>2 DEF JoinAccept
  <2>3. CASE UNCHANGED lastDown
      BY <2>3
  <2> QED BY <2>1, <2>2, <2>3
          DEF DownNext, NetworkSends, Lost, RxRepeated, RxAborted, SendBegins,
              SendSucceeds, SendFails, JoinRequest, nodeVars, downVars
<1> QED BY <1>1, PTL DEF DownSpec, CounterOnlyGrows

-----------------------------------------------------------------------------
(* Acknowledgements of a class A node: a Join-Accept follows its request   *)
(* with nothing heard in between.                                          *)
AckInv ==
    /\ AckAnswersAccepted
    /\ activation = "awaiting" => ~srvAckRequested /\ uplink = "none"

LEMMA AckInvariant == ~ClassC => (DownSpec => []AckInv)
<1> SUFFICES ASSUME ~ClassC PROVE DownSpec => []AckInv
    OBVIOUS
<1>1. DownInit => AckInv
    BY DEF DownInit, AckInv, AckAnswersAccepted
<1>2. DownTypeOK /\ AckInv /\ [DownNext]_linkVars => AckInv'
  <2> SUFFICES ASSUME DownTypeOK, AckInv, [DownNext]_linkVars PROVE AckInv'
      OBVIOUS
  <2> USE DEF AckInv, AckAnswersAccepted
  <2>0. ASSUME NEW f \in air PROVE f.n # NoMic /\ f.confirmed \in BOOLEAN
      BY FullRangeFacts DEF DownTypeOK, Frame, NetCounter, NoMic
  <2>1. ASSUME NEW f \in air, RxAccepted(f) PROVE AckInv'
      BY <2>0, <2>1 DEF RxAccepted, Hears, WindowsEnd
  <2>2. ASSUME NEW f \in air, RxRepeated(f) PROVE AckInv'
      BY <2>0, <2>2 DEF RxRepeated, Hears, WindowsEnd, Outcome, Duplicated, DownTypeOK
  <2>3. ASSUME NEW f \in air, RxAborted(f) PROVE AckInv'
      BY <2>3 DEF RxAborted, Hears, WindowsEnd, downVars
  <2>4. CASE SendBegins
      BY <2>4 DEF SendBegins, downVars
  <2>5. CASE SendSucceeds
      BY <2>5 DEF SendSucceeds
  <2>6. CASE SendFails
      BY <2>6 DEF SendFails, downVars
  <2>7. CASE JoinRequest
      BY <2>7 DEF JoinRequest
  <2>8. CASE JoinAccept
      BY <2>8 DEF JoinAccept
  <2>9. CASE UNCHANGED nodeVars
      BY <2>9 DEF nodeVars, downVars
  <2> QED BY <2>1, <2>2, <2>3, <2>4, <2>5, <2>6, <2>7, <2>8, <2>9
          DEF DownNext, NetworkSends, Lost, linkVars
<1> QED BY <1>1, <1>2, CountersKeepWidth, PTL DEF DownSpec

(* In class A no repetition and no join makes the node acknowledge a       *)
(* downlink it did not accept in this session.                             *)
THEOREM AckAlwaysAnswersAccepted == ~ClassC => (DownSpec => []AckAnswersAccepted)
<1>1. AckInv => AckAnswersAccepted
    BY DEF AckInv
<1> QED BY <1>1, AckInvariant, PTL

-----------------------------------------------------------------------------
(* The queue of MLME requests that wait for their confirm (ConfirmQueue),  *)
(* for every queue length and every set of request types: the ring stays   *)
(* consistent, the walk of HandleCb stays within it, and the ring          *)
(* implements the bounded sequence.                                        *)

(* The inductive invariant: the type of every variable, pointers and count *)
(* that agree, and what a walk in progress may rely on.                    *)
QueueInv == QueueTypeOK /\ RingConsistent /\ WalkWithinQueue

-----------------------------------------------------------------------------
(* Every position of the queue has a slot of the array.                    *)
LEMMA SlotInIndex ==
    ASSUME QueueTypeOK, NEW i \in 1..QueueLen
    PROVE  SlotOf(i) \in Index
BY QueueLenAssumption DEF QueueTypeOK, SlotOf, Index

(* Two positions never share a slot.                                       *)
LEMMA SlotInjective ==
    ASSUME QueueTypeOK, NEW i \in 1..QueueLen, NEW j \in 1..QueueLen, SlotOf(i) = SlotOf(j)
    PROVE  i = j
BY QueueLenAssumption DEF QueueTypeOK, SlotOf, Index

(* Advancing a pointer keeps it inside the array, in both directions.      *)
LEMMA PointerInIndex ==
    ASSUME NEW p \in Index
    PROVE  IncreaseBufferPointer(p) \in Index /\ DecreaseBufferPointer(p) \in Index
BY QueueLenAssumption DEF IncreaseBufferPointer, DecreaseBufferPointer, Index

(* A do-while from BufferStart to BufferEnd visits exactly the queued      *)
(* elements, an empty queue apart.                                         *)
LEMMA VisitedIsQueued ==
    ASSUME QueueTypeOK, RingConsistent, cnt > 0, NEW i \in 1..cnt
    PROVE  SlotOf(i) \in Visited
BY QueueLenAssumption DEF QueueTypeOK, RingConsistent, PointersAgree, SlotOf, Visited, Index

-----------------------------------------------------------------------------
(* The queue is well formed when LoRaMacConfirmQueueInit returns.          *)
LEMMA QueueInvInit == QueueInit => QueueInv
BY QueueLenAssumption, ValueAssumption
   DEF QueueInit, QueueInv, QueueTypeOK, RingConsistent, PointersAgree, WalkWithinQueue, Index,
         Element, Blank

(* Every operation, and every step of the walk, keeps it so.               *)
LEMMA QueueInvStep == QueueInv /\ [QueueNext]_queueVars => QueueInv'
<1> SUFFICES ASSUME QueueInv, [QueueNext]_queueVars
             PROVE  QueueInv'
  OBVIOUS
<1> USE QueueLenAssumption, ValueAssumption DEF QueueInv
<1>1. CASE ReInit
  BY <1>1 DEF ReInit, Cleared, Idle, QueueTypeOK, RingConsistent, PointersAgree,
        WalkWithinQueue, Index, Element, Blank
<1>2. ASSUME NEW r \in Requests, NEW s \in Statuses, NEW x \in BOOLEAN, Add(r, s, x)
      PROVE  QueueInv'
  <2>1. bufferEnd = SlotOf(cnt + 1) /\ cnt + 1 \in 1..QueueLen
    BY <1>2 DEF Add, QueueTypeOK, RingConsistent, PointersAgree, SlotOf, Index
  <2>2. \A i \in 1..cnt : SlotOf(i)' = SlotOf(i) /\ slots'[SlotOf(i)] = slots[SlotOf(i)]
    <3> SUFFICES ASSUME NEW i \in 1..cnt
                 PROVE  SlotOf(i)' = SlotOf(i) /\ slots'[SlotOf(i)] = slots[SlotOf(i)]
      OBVIOUS
    <3>1. SlotOf(i) \in Index /\ SlotOf(i) # bufferEnd
      BY <2>1, SlotInIndex, SlotInjective DEF QueueTypeOK
    <3> QED BY <1>2, <3>1 DEF Add, QueueTypeOK, SlotOf
  <2>3. QueueTypeOK'
    BY <1>2, PointerInIndex DEF Add, QueueTypeOK, Element
  <2>4. /\ \A i \in 1..(cnt + 1) : i = cnt + 1 => SlotOf(i)' = bufferEnd
        /\ slots'[bufferEnd].request = r /\ ~slots'[bufferEnd].ready
    BY <1>2, <2>1 DEF Add, QueueTypeOK, SlotOf
  <2>5. RingConsistent'
    <3>1. cnt' = cnt + 1 /\ bufferEnd' = IncreaseBufferPointer(bufferEnd)
          /\ bufferStart' = bufferStart
      BY <1>2 DEF Add
    <3>2. PointersAgree'
      BY <3>1, <2>1 DEF QueueTypeOK, RingConsistent, PointersAgree, IncreaseBufferPointer, Index
    <3>3. \A i \in 1..(cnt + 1) : slots'[SlotOf(i)'].request \in Requests
      BY <2>2, <2>4 DEF QueueTypeOK, RingConsistent
    <3> QED BY <3>1, <3>2, <3>3 DEF RingConsistent
  <2>6. WalkWithinQueue'
    <3>1. cnt' = cnt + 1 /\ handleLeft' = handleLeft /\ control' = control
      BY <1>2 DEF Add
    <3>2. handleLeft > 0 => \A i \in (handleLeft + 1)..(cnt + 1) : ~slots'[SlotOf(i)'].ready
      BY <2>2, <2>4 DEF QueueTypeOK, WalkWithinQueue
    <3>3. control = "callback" => slots'[bufferStart'].ready
      <4>1. control = "callback" => cnt > 0 /\ slots[bufferStart].ready
        BY DEF QueueTypeOK, WalkWithinQueue
      <4>2. bufferStart' = bufferStart /\ SlotOf(1) = bufferStart
        BY <1>2 DEF Add, QueueTypeOK, SlotOf, Index
      <4> QED BY <4>1, <4>2, <2>2 DEF QueueTypeOK
    <3> QED BY <3>1, <3>2, <3>3 DEF QueueTypeOK, WalkWithinQueue
  <2> QED BY <2>3, <2>5, <2>6
<1>3. CASE RemoveLast
  <2>1. QueueTypeOK'
    <3>1. bufferEnd' \in Index
      BY <1>3, PointerInIndex DEF RemoveLast, QueueTypeOK
    <3>2. cnt' \in 0..QueueLen
      BY <1>3 DEF RemoveLast, QueueTypeOK
    <3> QED BY <1>3, <3>1, <3>2 DEF RemoveLast, QueueTypeOK
  <2>2. RingConsistent'
    <3>1. /\ cnt > 0 /\ cnt' = cnt - 1 /\ bufferEnd' = DecreaseBufferPointer(bufferEnd)
          /\ bufferStart' = bufferStart /\ slots' = slots
      BY <1>3 DEF RemoveLast
    <3>2. PointersAgree'
      BY <3>1 DEF QueueTypeOK, RingConsistent, PointersAgree, DecreaseBufferPointer, Index
    <3> QED BY <3>1, <3>2 DEF QueueTypeOK, RingConsistent, SlotOf
  <2>3. WalkWithinQueue'
    BY <1>3 DEF RemoveLast, Idle, QueueTypeOK, WalkWithinQueue
  <2> QED BY <2>1, <2>2, <2>3
<1>4. ASSUME NEW s \in Statuses, NEW r \in Requests, SetStatus(s, r)
      PROVE  QueueInv'
  <2>1. PICK i \in 1..cnt : slots' = [slots EXCEPT ![SlotOf(i)] = Answered(slots[SlotOf(i)], s)]
    BY <1>4 DEF SetStatus, Found
  <2>2. SlotOf(i) \in Index
    BY SlotInIndex DEF QueueTypeOK
  <2>3. /\ slots' \in [Index -> Element]
        /\ \A p \in Index : slots'[p].request = slots[p].request
    BY <2>1, <2>2 DEF QueueTypeOK, Element, Answered
  <2>4. UNCHANGED <<bufferStart, bufferEnd, cnt, commonStatus, handleLeft,
        control>> /\ handleLeft = 0
    BY <1>4 DEF SetStatus, Idle
  <2>5. \A j \in 1..cnt : SlotOf(j) \in Index
    BY SlotInIndex DEF QueueTypeOK
  <2> QED BY <2>3, <2>4, <2>5 DEF QueueTypeOK, RingConsistent, PointersAgree, WalkWithinQueue,
        SlotOf
<1>5. ASSUME NEW s \in Statuses, SetStatusCmn(s)
      PROVE  QueueInv'
  <2>1. /\ slots' \in [Index -> Element]
        /\ \A p \in Index : slots'[p].request = slots[p].request
    BY <1>5 DEF SetStatusCmn, QueueTypeOK, Element, CommonAnswered
  <2>2. UNCHANGED <<bufferStart, bufferEnd, cnt, handleLeft,
        control>> /\ handleLeft = 0 /\ commonStatus' = s
    BY <1>5 DEF SetStatusCmn, Idle
  <2>3. \A j \in 1..cnt : SlotOf(j) \in Index
    BY SlotInIndex DEF QueueTypeOK
  <2>4. QueueTypeOK' /\ WalkWithinQueue'
    BY <2>1, <2>2 DEF QueueTypeOK, WalkWithinQueue
  <2>5. RingConsistent'
    BY <2>1, <2>2, <2>3 DEF RingConsistent, PointersAgree, SlotOf
  <2> QED BY <2>4, <2>5
<1>6. CASE HandleCb
  BY <1>6 DEF HandleCb, ring, Idle, QueueTypeOK, RingConsistent, PointersAgree, WalkWithinQueue,
        SlotOf, Index
<1>7. CASE HandleReady
  BY <1>7 DEF HandleReady, ring, QueueTypeOK, RingConsistent, PointersAgree, WalkWithinQueue,
        SlotOf, Index
<1>8. CASE HandleReturn
  <2>1. cnt > 0 /\ handleLeft > 0
    BY <1>8 DEF HandleReturn, QueueTypeOK, WalkWithinQueue
  <2>2. \A i \in 1..(cnt - 1) : SlotOf(i)' = SlotOf(i + 1)
    BY <1>8, <2>1 DEF HandleReturn, QueueTypeOK, SlotOf, IncreaseBufferPointer, Index
  <2>3. QueueTypeOK'
    <3>1. cnt' = cnt - 1 /\ handleLeft' = handleLeft - 1
          /\ bufferStart' = IncreaseBufferPointer(bufferStart)
      BY <1>8, <2>1 DEF HandleReturn
    <3> QED BY <1>8, <2>1, <3>1, PointerInIndex DEF HandleReturn, QueueTypeOK
  <2>4. RingConsistent'
    <3>1. /\ cnt' = cnt - 1 /\ bufferStart' = IncreaseBufferPointer(bufferStart)
          /\ bufferEnd' = bufferEnd /\ slots' = slots
      BY <1>8, <2>1 DEF HandleReturn
    <3>2. PointersAgree'
      BY <3>1, <2>1 DEF QueueTypeOK, RingConsistent, PointersAgree, IncreaseBufferPointer, Index
    <3>3. \A i \in 1..(cnt - 1) : slots[SlotOf(i + 1)].request \in Requests
      BY DEF QueueTypeOK, RingConsistent
    <3> QED BY <3>1, <3>2, <3>3, <2>2 DEF RingConsistent
  <2>5. WalkWithinQueue'
    BY <1>8, <2>1, <2>2 DEF HandleReturn, QueueTypeOK, WalkWithinQueue, Index
  <2> QED BY <2>3, <2>4, <2>5
<1>9. CASE HandleDefer
  <2>1. cnt > 0
    BY <1>9 DEF HandleDefer, QueueTypeOK, WalkWithinQueue
  <2>2. /\ \A i \in 1..(cnt - 1) : SlotOf(i)' = SlotOf(i + 1) /\ SlotOf(i + 1) # bufferEnd
        /\ \A i \in 1..cnt : i = cnt => SlotOf(i)' = bufferEnd
    <3>1. bufferStart' = IncreaseBufferPointer(bufferStart) /\ cnt' = cnt
      BY <1>9 DEF HandleDefer
    <3>2. ASSUME NEW i \in 1..(cnt - 1)
          PROVE  SlotOf(i)' = SlotOf(i + 1) /\ SlotOf(i + 1) # bufferEnd
      BY <3>1, <2>1 DEF QueueTypeOK, RingConsistent, PointersAgree, SlotOf,
            IncreaseBufferPointer, Index
    <3>3. ASSUME NEW i \in 1..cnt, i = cnt
          PROVE  SlotOf(i)' = bufferEnd
      BY <3>1, <3>3, <2>1 DEF QueueTypeOK, RingConsistent, PointersAgree, SlotOf,
            IncreaseBufferPointer, Index
    <3> QED BY <3>2, <3>3
  <2>3. \A i \in 1..cnt : SlotOf(i) \in Index
    BY SlotInIndex DEF QueueTypeOK
  <2>4. /\ \A p \in Index : p # bufferEnd => slots'[p] = slots[p]
        /\ slots'[bufferEnd].request = slots[bufferStart].request
        /\ ~slots'[bufferEnd].ready
    BY <1>9 DEF HandleDefer, QueueTypeOK, Element
  <2>5. slots[bufferStart].request \in Requests
    BY <2>1 DEF RingConsistent, PointersAgree, SlotOf, QueueTypeOK, Index
  <2>6. QueueTypeOK'
    <3>1. bufferStart' \in Index /\ bufferEnd' \in Index
      BY <1>9, PointerInIndex DEF HandleDefer, QueueTypeOK
    <3>2. slots' \in [Index -> Element]
      BY <1>9 DEF HandleDefer, QueueTypeOK, Element
    <3>3. handleLeft' \in 0..QueueLen
      BY <1>9 DEF HandleDefer, QueueTypeOK
    <3> QED BY <1>9, <3>1, <3>2, <3>3 DEF HandleDefer, QueueTypeOK
  <2>7. RingConsistent'
    <3>1. \A i \in 1..cnt : slots'[SlotOf(i)'].request \in Requests
      <4> SUFFICES ASSUME NEW i \in 1..cnt
                   PROVE  slots'[SlotOf(i)'].request \in Requests
        OBVIOUS
      <4>1. CASE i = cnt
        BY <4>1, <2>2, <2>4, <2>5
      <4>2. CASE i < cnt
        BY <4>2, <2>2, <2>3, <2>4 DEF RingConsistent, QueueTypeOK
      <4> QED BY <4>1, <4>2 DEF QueueTypeOK
    <3>2. /\ cnt' = cnt /\ bufferEnd' = IncreaseBufferPointer(bufferEnd)
          /\ bufferStart' = IncreaseBufferPointer(bufferStart)
      BY <1>9 DEF HandleDefer
    <3>3. PointersAgree'
      BY <3>2 DEF QueueTypeOK, RingConsistent, PointersAgree, IncreaseBufferPointer, Index
    <3> QED BY <3>1, <3>2, <3>3 DEF RingConsistent
  <2>8. WalkWithinQueue'
    <3>1. ASSUME NEW i \in handleLeft..cnt, handleLeft > 1
          PROVE  ~slots'[SlotOf(i)'].ready
      <4>1. CASE i = cnt
        BY <4>1, <2>1, <2>2, <2>4 DEF QueueTypeOK
      <4>2. CASE i < cnt
        BY <3>1, <4>2, <2>2, <2>3, <2>4 DEF WalkWithinQueue, QueueTypeOK
      <4> QED BY <4>1, <4>2 DEF QueueTypeOK
    <3> QED BY <1>9, <3>1, <2>1 DEF HandleDefer, QueueTypeOK, WalkWithinQueue
  <2> QED BY <2>6, <2>7, <2>8
<1>10. CASE SleepEndsWalk
  BY <1>10 DEF SleepEndsWalk, ring, QueueTypeOK, RingConsistent, PointersAgree, WalkWithinQueue,
        SlotOf
<1>11. CASE UNCHANGED queueVars
  BY <1>11 DEF queueVars, QueueTypeOK, RingConsistent, PointersAgree, WalkWithinQueue, SlotOf
<1> QED
  BY <1>1, <1>2, <1>3, <1>4, <1>5, <1>6, <1>7, <1>8, <1>9, <1>10, <1>11 DEF QueueNext

(* The inductive invariant holds in every behaviour of the queue.          *)
THEOREM QueueInvariance == QueueSpec => []QueueInv
BY QueueInvInit, QueueInvStep, PTL DEF QueueSpec

(* Pointers, count and contents of the ring always agree.                  *)
THEOREM RingAlwaysConsistent == QueueSpec => []RingConsistent
<1>1. QueueInv => RingConsistent
  BY DEF QueueInv
<1> QED BY <1>1, QueueInvariance, PTL

(* The walk of HandleCb never leaves the queue, whatever callbacks add.    *)
THEOREM WalkAlwaysWithinQueue == QueueSpec => []WalkWithinQueue
<1>1. QueueInv => WalkWithinQueue
  BY DEF QueueInv
<1> QED BY <1>1, QueueInvariance, PTL

-----------------------------------------------------------------------------
(* When the walk of HandleCb ends, no answered request stays behind.       *)
LEMMA WalkEndsClean ==
    ASSUME QueueInv, QueueInv', WalkEnds
    PROVE  \A i \in 1..cnt' : ~slots'[SlotOf(i)'].ready
<1> SUFFICES ASSUME NEW i \in 1..cnt'
             PROVE  ~slots'[SlotOf(i)'].ready
  OBVIOUS
<1>1. handleLeft = 1 /\ handleLeft <= cnt
  BY DEF WalkEnds, HandleReturn, HandleDefer, QueueInv, QueueTypeOK, WalkWithinQueue
<1>2. \A j \in 2..cnt : ~slots[SlotOf(j)].ready
  BY <1>1 DEF QueueInv, WalkWithinQueue
<1>3. CASE HandleReturn
  <2>1. cnt' = cnt - 1 /\ slots' = slots /\ bufferStart' = IncreaseBufferPointer(bufferStart)
    BY <1>1, <1>3 DEF HandleReturn
  <2>2. i + 1 \in 2..cnt
    BY <2>1 DEF QueueInv, QueueTypeOK
  <2>3. SlotOf(i)' = SlotOf(i + 1)
    BY <2>1, <2>2, QueueLenAssumption DEF QueueInv, QueueTypeOK, SlotOf, IncreaseBufferPointer,
          Index
  <2> QED BY <1>2, <2>1, <2>2, <2>3
<1>4. CASE HandleDefer
  <2>1. cnt' = cnt /\ bufferStart' = IncreaseBufferPointer(bufferStart)
    BY <1>4 DEF HandleDefer
  <2>2. slots' = [slots EXCEPT ![bufferEnd] = [slots[bufferStart] EXCEPT !.ready = FALSE]]
    BY <1>4 DEF HandleDefer
  <2>3. ~slots'[bufferEnd].ready
    BY <2>2 DEF QueueInv, QueueTypeOK, Element
  <2>4. CASE i = cnt
    <3>1. SlotOf(i)' = bufferEnd
      BY <2>1, <2>4, <1>1, QueueLenAssumption
         DEF QueueInv, QueueTypeOK, RingConsistent, PointersAgree, SlotOf,
               IncreaseBufferPointer, Index
    <3> QED BY <2>3, <3>1
  <2>5. CASE i < cnt
    <3>1. SlotOf(i)' = SlotOf(i + 1) /\ SlotOf(i + 1) # bufferEnd /\ SlotOf(i + 1) \in Index
      BY <2>1, <2>5, QueueLenAssumption
         DEF QueueInv, QueueTypeOK, RingConsistent, PointersAgree, SlotOf,
               IncreaseBufferPointer, Index
    <3>2. i + 1 \in 2..cnt
      BY <2>1, <2>5 DEF QueueInv, QueueTypeOK
    <3> QED BY <1>2, <2>2, <3>1, <3>2 DEF QueueInv, QueueTypeOK
  <2> QED BY <2>1, <2>4, <2>5 DEF QueueInv, QueueTypeOK
<1> QED BY <1>3, <1>4 DEF WalkEnds

(* A HandleCb that runs to its end leaves no answered request behind it.   *)
THEOREM HandledAllReadyAlways == QueueSpec => HandledAllReady
<1>1. QueueInv /\ QueueInv'
      /\ [QueueNext]_queueVars =>
            [WalkEnds => \A i \in 1..cnt' : ~slots'[SlotOf(i)'].ready]_queueVars
  BY WalkEndsClean
<1> QED BY <1>1, QueueInvariance, PTL DEF QueueSpec, HandledAllReady

-----------------------------------------------------------------------------
(* The queue the ring stands for is a sequence of cnt elements.            *)
QueueShape ==
    /\ Queue \in Seq(Element)
    /\ Len(Queue) = cnt
    /\ DOMAIN Queue = 1..cnt
    /\ \A i \in 1..cnt : Queue[i] = slots[SlotOf(i)]

LEMMA QueueIsSequence == QueueTypeOK => QueueShape
<1> SUFFICES ASSUME QueueTypeOK
             PROVE  QueueShape
  OBVIOUS
<1>1. \A i \in 1..cnt : SlotOf(i) \in Index
  BY SlotInIndex, QueueLenAssumption DEF QueueTypeOK
<1>2. \A i \in 1..cnt : slots[SlotOf(i)] \in Element
  BY <1>1 DEF QueueTypeOK
<1>3. cnt \in Nat
  BY QueueLenAssumption DEF QueueTypeOK
<1> QED BY <1>2, <1>3 DEF Queue, QueueShape

(* The same of the state a step leads to.                                  *)
LEMMA QueueIsSequenceNext == QueueTypeOK' => QueueShape'
BY QueueIsSequence, PTL

(* LoRaMacConfirmQueueAdd appends.                                         *)
LEMMA AddRefines ==
    ASSUME QueueInv, QueueInv', NEW r \in Requests, NEW s \in Statuses, NEW x \in BOOLEAN,
          Add(r, s, x)
    PROVE  Abs!Accept(r, s, x)
<1> DEFINE e == [request |-> r, status |-> s, restricted |-> x, ready |-> FALSE]
<1>1. cnt' = cnt + 1 /\ cnt < QueueLen /\ slots' = [slots EXCEPT ![bufferEnd] = e]
  BY DEF Add
<1>2. \A i \in 1..cnt : SlotOf(i)' = SlotOf(i) /\ SlotOf(i) # bufferEnd /\ SlotOf(i) \in Index
  BY <1>1, QueueLenAssumption DEF Add, QueueInv, QueueTypeOK, RingConsistent, PointersAgree,
        SlotOf, Index
<1>3. \A i \in 1..(cnt + 1) : i = cnt + 1 => SlotOf(i)' = bufferEnd
  BY <1>1, QueueLenAssumption DEF Add, QueueInv, QueueTypeOK, RingConsistent, PointersAgree,
        SlotOf, Index
<1> HIDE DEF e
<1>4. QueueShape /\ QueueShape'
  BY QueueIsSequence, QueueIsSequenceNext DEF QueueInv
<1>5. \A i \in 1..cnt : Queue'[i] = Queue[i]
  BY <1>1, <1>2, <1>4 DEF QueueInv, QueueTypeOK, QueueShape
<1>6. Queue'[cnt + 1] = e
  BY <1>1, <1>3, <1>4 DEF QueueInv, QueueTypeOK, QueueShape
<1>7. e \in Element
  BY DEF Element, e
<1>8. Queue' = Append(Queue, e)
  BY <1>1, <1>4, <1>5, <1>6, <1>7 DEF QueueInv, QueueTypeOK, QueueShape
<1> QED BY <1>1, <1>4, <1>8 DEF Abs!Accept, QueueShape, e

(* RemoveLast withdraws the youngest request.                              *)
LEMMA RemoveLastRefines ==
    ASSUME QueueInv, RemoveLast
    PROVE  Abs!Withdraw
<1>1. cnt > 0 /\ cnt' = cnt - 1 /\ slots' = slots /\ bufferStart' = bufferStart
  BY DEF RemoveLast
<1>2. Queue' = [i \in 1..(cnt - 1) |-> slots[SlotOf(i)]]
  BY <1>1 DEF Queue, SlotOf
<1>3. Queue' = [i \in 1..(Len(Queue) - 1) |-> Queue[i]]
  BY <1>1, <1>2, QueueIsSequence DEF QueueInv, QueueTypeOK, QueueShape
<1>4. Queue # << >>
  BY <1>1, QueueIsSequence DEF QueueInv, QueueTypeOK, QueueShape
<1> QED BY <1>3, <1>4 DEF Abs!Withdraw

(* SetStatus answers the oldest request of the type.                       *)
LEMMA SetStatusRefines ==
    ASSUME QueueInv, QueueInv', NEW s \in Statuses, NEW r \in Requests, SetStatus(s, r)
    PROVE  Abs!Answer(r, s)
<1>1. PICK i \in Found(r) :
        slots' = [slots EXCEPT ![SlotOf(i)] = Answered(slots[SlotOf(i)], s)]
  BY DEF SetStatus
<1>2. i \in 1..cnt /\ cnt' = cnt /\ bufferStart' = bufferStart
  BY <1>1 DEF SetStatus, Found
<1>3. QueueShape /\ QueueShape'
  BY QueueIsSequence, QueueIsSequenceNext DEF QueueInv
<1>4. \A j \in 1..cnt : SlotOf(j) \in Index /\ (SlotOf(j) = SlotOf(i) => j = i)
  BY <1>2, SlotInIndex, SlotInjective, QueueLenAssumption DEF QueueInv, QueueTypeOK
<1>5. \A j \in 1..cnt : SlotOf(j)' = SlotOf(j)
  BY <1>2 DEF SlotOf
<1>6. \A j \in 1..cnt : Queue'[j] = slots'[SlotOf(j)]
  BY <1>2, <1>3, <1>5 DEF QueueShape
<1>7. \A j \in 1..cnt : Queue'[j] = IF j = i THEN Answered(Queue[i], s) ELSE Queue[j]
  BY <1>1, <1>2, <1>3, <1>4, <1>6 DEF QueueShape, QueueInv, QueueTypeOK
<1>8. Queue' = [Queue EXCEPT ![i] = Answered(Queue[i], s)]
  <2>1. Queue = [j \in 1..cnt |-> Queue[j]] /\ Queue' = [j \in 1..cnt |-> Queue'[j]]
    BY <1>2 DEF Queue
  <2> QED BY <1>2, <1>7, <2>1
<1>9. Queue[i].request = r /\ \A j \in 1..(i - 1) : Queue[j].request # r
  <2>1. slots[SlotOf(i)].request = r /\ \A j \in 1..(i - 1) : slots[SlotOf(j)].request # r
    BY <1>1 DEF Found
  <2>2. \A j \in 1..(i - 1) : j \in 1..cnt
    BY <1>2 DEF QueueInv, QueueTypeOK
  <2> QED BY <1>2, <1>3, <2>1, <2>2 DEF QueueShape
<1>10. Answered(Queue[i], s) = Abs!Answered(Queue[i], s)
  BY DEF Answered, Abs!Answered
<1> QED BY <1>2, <1>3, <1>8, <1>9, <1>10 DEF Abs!Answer, QueueShape

(* SetStatusCmn answers every queued request that does not restrict it.    *)
LEMMA SetStatusCmnRefines ==
    ASSUME QueueInv, QueueInv', NEW s \in Statuses, SetStatusCmn(s)
    PROVE  Abs!AnswerAll(s) \/ Queue' = Queue
<1>1. cnt' = cnt /\ bufferStart' = bufferStart /\ \A j \in 1..cnt : SlotOf(j)' = SlotOf(j)
  BY DEF SetStatusCmn, SlotOf
<1>2. QueueShape /\ QueueShape'
  BY QueueIsSequence, QueueIsSequenceNext DEF QueueInv
<1>3. CASE cnt = 0
  BY <1>1, <1>3 DEF Queue
<1>4. CASE cnt > 0
  <2>1. \A j \in 1..cnt : SlotOf(j) \in Visited /\ SlotOf(j) \in Index
    BY <1>4, VisitedIsQueued, SlotInIndex, QueueLenAssumption DEF QueueInv, QueueTypeOK
  <2>2. \A j \in 1..cnt : slots'[SlotOf(j)] = CommonAnswered(slots[SlotOf(j)], s)
    BY <1>4, <2>1 DEF SetStatusCmn
  <2>3. \A j \in 1..cnt : Queue'[j] = CommonAnswered(Queue[j], s)
    BY <1>1, <1>2, <2>2 DEF QueueShape
  <2>4. Queue' = [i \in 1..cnt |-> CommonAnswered(Queue[i], s)]
    <3>1. Queue' = [j \in 1..cnt |-> Queue'[j]]
      BY <1>1 DEF Queue
    <3> QED BY <2>3, <3>1
  <2>5. Queue # << >> /\ Len(Queue) = cnt
    BY <1>2, <1>4 DEF QueueShape
  <2> QED BY <2>4, <2>5 DEF Abs!AnswerAll, CommonAnswered, Abs!CommonAnswered
<1> QED BY <1>3, <1>4, QueueLenAssumption DEF QueueInv, QueueTypeOK

(* The end of a callback confirms the head, which is the ready request.    *)
LEMMA HandleReturnRefines ==
    ASSUME QueueInv, QueueInv', HandleReturn
    PROVE  Abs!Confirm
<1>1. /\ cnt > 0 /\ cnt' = cnt - 1 /\ slots' = slots
      /\ bufferStart' = IncreaseBufferPointer(bufferStart)
      /\ slots[bufferStart].ready
  BY DEF HandleReturn, QueueInv, QueueTypeOK, WalkWithinQueue
<1>2. QueueShape /\ QueueShape'
  BY QueueIsSequence, QueueIsSequenceNext DEF QueueInv
<1>3. \A i \in 1..(cnt - 1) : SlotOf(i)' = SlotOf(i + 1)
  BY <1>1, QueueLenAssumption DEF QueueInv, QueueTypeOK, SlotOf, IncreaseBufferPointer, Index
<1>4. SlotOf(1) = bufferStart
  BY QueueLenAssumption DEF QueueInv, QueueTypeOK, SlotOf, Index
<1>5. Queue[1].ready /\ Queue # << >>
  BY <1>1, <1>2, <1>4 DEF QueueShape, QueueInv, QueueTypeOK
<1>6. ASSUME NEW i \in 1..(cnt - 1)
      PROVE  Queue'[i] = Queue[i + 1]
  <2>1. i \in 1..cnt' /\ i + 1 \in 1..cnt
    BY <1>1 DEF QueueInv, QueueTypeOK
  <2> QED BY <1>1, <1>2, <1>3, <2>1 DEF QueueShape
<1>7. Queue' = Tail(Queue)
  BY <1>1, <1>2, <1>6 DEF QueueShape, QueueInv, QueueTypeOK
<1> QED BY <1>5, <1>7 DEF Abs!Confirm

(* A request that is not ready goes to the back of the queue unchanged.    *)
LEMMA HandleDeferRefines ==
    ASSUME QueueInv, QueueInv', HandleDefer
    PROVE  Abs!Defer
<1> DEFINE e == slots[bufferStart]
<1>1. /\ cnt > 0 /\ cnt' = cnt
      /\ bufferStart' = IncreaseBufferPointer(bufferStart)
      /\ slots' = [slots EXCEPT ![bufferEnd] = [e EXCEPT !.ready = FALSE]]
  BY DEF HandleDefer, QueueInv, QueueTypeOK, WalkWithinQueue
<1>2. e \in Element /\ ~e.ready
  BY DEF HandleDefer, QueueInv, QueueTypeOK
<1>3. slots' = [slots EXCEPT ![bufferEnd] = e]
  BY <1>1, <1>2 DEF Element
<1> HIDE DEF e
<1>4. QueueShape /\ QueueShape'
  BY QueueIsSequence, QueueIsSequenceNext DEF QueueInv
<1>5. SlotOf(1) = bufferStart
  BY QueueLenAssumption DEF QueueInv, QueueTypeOK, SlotOf, Index
<1>6. Queue[1] = e /\ Queue # << >>
  BY <1>1, <1>4, <1>5 DEF QueueShape, QueueInv, QueueTypeOK, e
<1>7. ASSUME NEW i \in 1..(cnt - 1)
      PROVE  SlotOf(i)' = SlotOf(i + 1) /\ SlotOf(i + 1) # bufferEnd /\ SlotOf(i + 1) \in Index
  <2>1. /\ i \in Nat /\ 1 <= i /\ i <= cnt - 1 /\ cnt \in 0..QueueLen
        /\ QueueLen \in Nat /\ bufferStart \in 0..(QueueLen - 1) /\ PointersAgree
    BY QueueLenAssumption DEF QueueInv, QueueTypeOK, RingConsistent, Index
  <2>2. SlotOf(i)' = SlotOf(i + 1)
    BY <1>1, <2>1 DEF SlotOf, IncreaseBufferPointer
  <2>3. SlotOf(i + 1) # bufferEnd /\ SlotOf(i + 1) \in Index
    BY <2>1 DEF SlotOf, PointersAgree, Index
  <2> QED BY <2>2, <2>3
<1>8. ASSUME NEW i \in 1..cnt, i = cnt
      PROVE  SlotOf(i)' = bufferEnd
  BY <1>1, <1>8, QueueLenAssumption
     DEF QueueInv, QueueTypeOK, RingConsistent, PointersAgree, SlotOf, IncreaseBufferPointer,
           Index
<1>9. \A i \in 1..(cnt - 1) : Queue'[i] = Queue[i + 1]
  BY <1>1, <1>3, <1>4, <1>7 DEF QueueShape, QueueInv, QueueTypeOK
<1>10. \A i \in 1..cnt : i = cnt => Queue'[i] = e
  BY <1>1, <1>3, <1>4, <1>8 DEF QueueShape, QueueInv, QueueTypeOK
<1>11. Tail(Queue) \in Seq(Element) /\ Len(Tail(Queue)) = cnt - 1
       /\ \A i \in 1..(cnt - 1) : Tail(Queue)[i] = Queue[i + 1]
  BY <1>1, <1>4, <1>6 DEF QueueShape, QueueInv, QueueTypeOK
<1>12. Queue' = Append(Tail(Queue), e)
  BY <1>1, <1>2, <1>4, <1>9, <1>10, <1>11 DEF QueueShape, QueueInv, QueueTypeOK
<1> QED BY <1>2, <1>6, <1>12 DEF Abs!Defer

-----------------------------------------------------------------------------
(* Every step of the ring is a step of the bounded sequence, or none.      *)
LEMMA StepRefines == QueueInv /\ QueueInv' /\ [QueueNext]_queueVars => [Abs!Next]_Queue
<1> SUFFICES ASSUME QueueInv, QueueInv', [QueueNext]_queueVars
             PROVE  Abs!Next \/ Queue' = Queue
  OBVIOUS
<1>1. CASE ReInit
  BY <1>1 DEF ReInit, Cleared, Queue, Abs!Next, Abs!Reset
<1>2. ASSUME NEW r \in Requests, NEW s \in Statuses, NEW x \in BOOLEAN, Add(r, s, x)
      PROVE  Abs!Next
  BY <1>2, AddRefines DEF Abs!Next
<1>3. CASE RemoveLast
  BY <1>3, RemoveLastRefines DEF Abs!Next
<1>4. ASSUME NEW s \in Statuses, NEW r \in Requests, SetStatus(s, r)
      PROVE  Abs!Next
  BY <1>4, SetStatusRefines DEF Abs!Next
<1>5. ASSUME NEW s \in Statuses, SetStatusCmn(s)
      PROVE  Abs!Next \/ Queue' = Queue
  BY <1>5, SetStatusCmnRefines DEF Abs!Next
<1>6. CASE HandleCb \/ HandleReady \/ SleepEndsWalk \/ UNCHANGED queueVars
  <2>1. UNCHANGED <<slots, bufferStart, cnt>>
    BY <1>6 DEF HandleCb, HandleReady, SleepEndsWalk, ring, queueVars
  <2> QED BY <2>1 DEF Queue, SlotOf
<1>7. CASE HandleReturn
  BY <1>7, HandleReturnRefines DEF Abs!Next
<1>8. CASE HandleDefer
  BY <1>8, HandleDeferRefines DEF Abs!Next
<1> QED BY <1>1, <1>2, <1>3, <1>4, <1>5, <1>6, <1>7, <1>8 DEF QueueNext

(* The ring buffer implements the bounded sequence of MLME requests: none  *)
(* is lost, duplicated, confirmed before its answer or answered in the     *)
(* place of another.                                                       *)
THEOREM QueueRefinement == QueueSpec => ImplementsQueue
<1>1. QueueInit => Abs!Init
  BY DEF QueueInit, Abs!Init, Queue
<1> QED BY <1>1, StepRefines, QueueInvariance, PTL DEF QueueSpec, ImplementsQueue, Abs!Spec
=============================================================================
