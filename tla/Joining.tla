------------------------------ MODULE Joining ------------------------------
(***************************************************************************)
(* How a node gets onto the network: the sketch's init and join            *)
(* (DFRobot_LoRaWAN.cpp), LmHandler.c, LoRaMacMlmeRequest and the way of a *)
(* join accept back through LoRaMacProcess to the sketch's callback.  The  *)
(* confirm queue between the two is the abstract one that ConfirmQueue     *)
(* implements; it holds join requests only, the one MLME request this      *)
(* library makes.  join may be called from the sketch's own task and from  *)
(* the callback, which the LoRa task runs; both may put the node into deep *)
(* sleep, after which only RTC memory is left.                             *)
(*                                                                         *)
(* A DevNonce is its place in the order of the requests, and session keys  *)
(* are named by the DevNonce they were derived with, 0 for those an ABP    *)
(* node is given; the server knows the requests in the queue apart, the    *)
(* code does not.  An exchange is reduced to how each window ends.         *)
(***************************************************************************)
EXTENDS Integers, Sequences

CONSTANTS
    JoinTypes,     \* the constructors the sketch may use
    ChosenClass,   \* the class it gives them
    JoinFrames,    \* what may be heard in the windows of a join request
    DataFrames,    \* what may be heard in the windows of a data uplink
    TxPlans,       \* what ScheduleTx may find: a channel, or none for now
    QueueLen,      \* LORA_MAC_MLME_CONFIRM_QUEUE_LEN
    LosesPower,    \* the join types whose nodes may lose power
    MaxJoins,      \* bound on the calls of join
    MaxUplinks,    \* bound on the uplinks under one session's keys
    MaxRestarts    \* bound on the deep sleeps and power losses

ASSUME JoiningAssumption ==
    /\ JoinTypes \subseteq {"OTAA", "ABP"}
    /\ ChosenClass \in {"CLASS_A", "CLASS_C"}
    /\ JoinFrames \subseteq {"ACCEPT", "BAD_ACCEPT", "FRAME", "OTHER"}
    /\ DataFrames \subseteq {"FRAME", "OTHER"}
    /\ TxPlans \subseteq {"OK", "RESTRICTED"}
    /\ QueueLen \in Nat \ {0}
    /\ LosesPower \subseteq {"OTAA", "ABP"}
    /\ MaxJoins \in Nat /\ MaxUplinks \in Nat /\ MaxRestarts \in Nat

VARIABLES
    joinType,      \* LmHandlerParams.joinType
    up,            \* whether init has run since the last start
    activation,    \* Nvm.MacGroup2.NetworkActivation
    deviceClass,   \* Nvm.MacGroup2.DeviceClass
    session,       \* the DevNonce the session keys were derived with
    fCntUp,        \* Nvm.Crypto.FCntList.FCntUp
    nbTrans,       \* whether MacCtx.ChannelsNbTransCounter >= 1
    devNonce,      \* Nvm.Crypto.DevNonce
    macState,      \* MacCtx.MacState, the set of its bits
    macFlags,      \* MacCtx.MacFlags, the set of its bits
    queue,         \* the confirm queue, each request named by its DevNonce
    air,           \* what the exchange is at
    event,         \* the radio event the LoRa task has still to handle
    task,          \* where the LoRa task is
    handleLeft,    \* nbElements - i of LoRaMacConfirmQueueHandleCb
    joining,       \* the tasks between isJoined and LoRaMacMlmeRequest
    granted,       \* the DevNonce the server last answered
    waiting,       \* the join requests the sketch has no answer to yet
    spoiled,       \* those whose exchange a frame ended without an answer
    informed,      \* the session the sketch was last told of
    lastCounter,   \* by session, the last counter an uplink used, -1 for none
    unended,       \* whether the last uplink's exchange was never ended
    joins,
    restarts

rtc      == <<activation, deviceClass, session, fCntUp, nbTrans, devNonce, macFlags, queue>>
loraTask == <<event, task, handleLeft>>
sketch   == <<waiting, spoiled, informed>>
counters == <<lastCounter, unended>>
bounds   == <<joins, restarts>>
vars     == <<joinType, up, rtc, macState, air, loraTask, joining, granted, sketch,
              counters, bounds>>

Tasks == {"app", "lora"}
Sessions == 0..MaxJoins
Statuses == {"OK", "JOIN_FAIL", "TX_TIMEOUT", "RX_FAILED"}

ConfirmQueue == INSTANCE ConfirmQueueAbs
    WITH Requests <- Nat, Capacity <- QueueLen, pending <- queue

Init ==
    /\ joinType \in JoinTypes
    /\ up = FALSE
    /\ activation = "NONE"
    /\ deviceClass = "CLASS_A"
    /\ session = 0 /\ fCntUp = 0 /\ nbTrans = FALSE /\ devNonce = 0
    /\ macState = {} /\ macFlags = {}
    /\ queue = << >>
    /\ air = "quiet" /\ event = "none"
    /\ task = "wait" /\ handleLeft = 0
    /\ joining = {}
    /\ granted = 0
    /\ waiting = {} /\ spoiled = {} /\ informed = 0
    /\ lastCounter = [s \in Sessions |-> -1] /\ unended = FALSE
    /\ joins = 0 /\ restarts = 0

-----------------------------------------------------------------------------
(* LoRaWAN_Node::init, LmHandlerInit and LoRaMacInitialization: a node     *)
(* that is activated keeps all it has in RTC memory.                       *)
StartsAfreshAlways == TRUE
StartsAfresh == activation = "NONE"

Setup ==
    /\ ~up
    /\ up' = TRUE
    /\ IF StartsAfresh
       THEN /\ queue' = << >> /\ macFlags' = {}
            /\ session' = 0 /\ fCntUp' = 0 /\ nbTrans' = FALSE
            /\ deviceClass' = ChosenClass
       ELSE UNCHANGED <<queue, macFlags, session, fCntUp, nbTrans, deviceClass>>
    /\ activation' = IF joinType = "ABP" THEN "ABP" ELSE activation
    /\ UNCHANGED <<joinType, devNonce, macState, air, loraTask, joining, granted, sketch,
                   counters, bounds>>

(* The sketch runs in the LoRa task while its join callback does.          *)
SketchIn(t) == up /\ t \notin joining /\ (t = "lora" => task = "callback")

(* startDeepSleep: the MAC state is forced to idle, RTC memory stays, the  *)
(* tasks and the radio do not.                                             *)
Restart ==
    /\ restarts < MaxRestarts
    /\ restarts' = restarts + 1
    /\ up' = FALSE
    /\ macState' = {}
    /\ air' = "quiet" /\ event' = "none"
    /\ task' = "wait" /\ handleLeft' = 0
    /\ joining' = {}
    /\ waiting' = {} /\ spoiled' = {}
    /\ UNCHANGED <<joinType, devNonce, granted, informed, joins>>

DeepSleep(t) ==
    /\ SketchIn(t)
    /\ Restart
    /\ UNCHANGED <<activation, deviceClass, session, fCntUp, nbTrans, macFlags, queue, counters>>

(* Without power RTC memory is lost too.  The next DevNonce is random, so  *)
(* it is taken to be new all the same.  An ABP node has its keys again,    *)
(* and counts from the start: the uplinks before are not compared.         *)
PowerLoss ==
    /\ joinType \in LosesPower
    /\ Restart
    /\ activation' = "NONE"
    /\ deviceClass' = "CLASS_A"
    /\ session' = 0 /\ fCntUp' = 0 /\ nbTrans' = FALSE
    /\ macFlags' = {} /\ queue' = << >>
    /\ lastCounter' = IF joinType = "ABP" THEN [lastCounter EXCEPT ![0] = -1] ELSE lastCounter
    /\ unended' = FALSE

-----------------------------------------------------------------------------
(* LoRaWAN_Node::join: nothing to do for a node that is activated.         *)
Join(t) ==
    /\ SketchIn(t)
    /\ joins < MaxJoins
    /\ joins' = joins + 1
    /\ joining' = IF activation = "NONE" THEN joining \cup {t} ELSE joining
    /\ UNCHANGED <<joinType, up, rtc, macState, air, loraTask, granted, sketch, counters,
                   restarts>>

(* The steps of LoRaMacProcess between its callbacks are short beside a    *)
(* request, which is taken to fall before or after them.                   *)
Requesting(t) == t \in joining /\ task \notin {"confirms", "done"}

Busy == macState # {}

(* LoRaMacMlmeRequest finds the MAC busy or the queue full, and            *)
(* OnMacMlmeRequest calls the sketch back with false.                      *)
JoinRefused(t) ==
    /\ Requesting(t)
    /\ Busy \/ Len(queue) = QueueLen
    /\ joining' = joining \ {t}
    /\ UNCHANGED <<joinType, up, rtc, macState, air, loraTask, granted, sketch, counters,
                   bounds>>

(* LoRaMacMlmeRequest(MLME_JOIN): ResetMacParameters, and SendReJoinReq,   *)
(* which first switches to class A.  The request's transmission counts as  *)
(* one of an unconfirmed frame.                                            *)
JoinRequest(t) ==
    /\ Requesting(t)
    /\ ~Busy /\ Len(queue) < QueueLen
    /\ joining' = joining \ {t}
    /\ activation' = "NONE"
    /\ deviceClass' = "CLASS_A"
    /\ \/ /\ "OK" \in TxPlans
          /\ devNonce' = devNonce + 1
          /\ macState' = {"TX_RUNNING"}
          /\ air' = "transmission"
          /\ macFlags' = macFlags \cup {"MlmeReq"}
          /\ ConfirmQueue!Accept(devNonce', "JOIN_FAIL", FALSE)
          /\ waiting' = waiting \cup {devNonce'}
          /\ nbTrans' = TRUE
       \/ /\ "RESTRICTED" \in TxPlans
          /\ macFlags' = IF queue = << >> THEN macFlags \ {"MlmeReq"}
                                          ELSE macFlags \cup {"MlmeReq"}
          /\ nbTrans' = FALSE
          /\ UNCHANGED <<devNonce, macState, air, queue, waiting>>
    /\ unended' = FALSE
    /\ UNCHANGED <<joinType, up, session, fCntUp, loraTask, granted, spoiled, informed,
                   lastCounter, bounds>>

(* SecureFrame: the next counter, or the last one again for what looks     *)
(* like a repetition of the frame before.                                  *)
NextCounter == IF nbTrans THEN fCntUp ELSE fCntUp + 1

(* A data uplink, sent once, as far as joining is concerned: its exchange  *)
(* ends like any other (LoRaMac models it in full, and one that begins     *)
(* while windows are still to come).  Only an unconfirmed frame counts its *)
(* transmissions in ChannelsNbTransCounter.                                *)
Uplink ==
    /\ up
    /\ activation # "NONE"
    /\ ~Busy /\ air = "quiet" /\ event = "none" /\ task = "wait"
    /\ NextCounter <= MaxUplinks
    /\ fCntUp' = NextCounter
    /\ \E confirmed \in BOOLEAN : nbTrans' = (nbTrans \/ ~confirmed)
    /\ lastCounter' = [lastCounter EXCEPT ![session] = NextCounter]
    /\ unended' = TRUE
    /\ macState' = {"TX_RUNNING"}
    /\ air' = "transmission"
    /\ macFlags' = macFlags \cup {"McpsReq"}
    /\ UNCHANGED <<joinType, up, activation, deviceClass, session, devNonce, queue, loraTask,
                   joining, granted, sketch, bounds>>

-----------------------------------------------------------------------------
(* The radio and the window timers.                                        *)
RadioReports(e) ==
    /\ event = "none"
    /\ event' = e
    /\ air' = "quiet"
    /\ UNCHANGED <<joinType, up, rtc, macState, task, handleLeft, joining, sketch, counters,
                   bounds>>

(* The server may answer the request, and the node may miss the answer.    *)
TransmissionEnds ==
    /\ air = "transmission"
    /\ \/ RadioReports("TxDone")
          /\ granted' \in {granted} \cup (IF activation = "NONE" THEN {devNonce} ELSE {})
       \/ RadioReports("TxTimeout") /\ UNCHANGED granted

(* Window 1 may close so late that window 2 is given up: LAST stands for   *)
(* that as for the end of window 2.                                        *)
WindowEnds ==
    /\ air \in {"window1", "window2"}
    /\ \/ RadioReports("LastWindowFailed")
       \/ air = "window1" /\ RadioReports("FirstWindowFailed")
       \/ \E f \in IF activation = "NONE" THEN JoinFrames ELSE DataFrames :
              (f = "ACCEPT" => granted = devNonce) /\ RadioReports(f)
    /\ UNCHANGED granted

-----------------------------------------------------------------------------
(* The LoRa task: RadioBgIrqProcess and LoRaMacHandleIrqEvents.            *)
Handles(events) ==
    /\ task = "wait" /\ event \in events
    /\ event' = "none"
    /\ UNCHANGED <<joinType, up, deviceClass, nbTrans, devNonce, joining, granted, waiting,
                   informed, counters, handleLeft, bounds>>

(* LoRaMacConfirmQueueSetStatusCmn.                                        *)
AnswerAll(status) ==
    IF queue = << >> THEN UNCHANGED queue ELSE ConfirmQueue!AnswerAll(status)

(* LoRaMacConfirmQueueSetStatus, if IsCmdActive: the first join request in *)
(* the queue is answered, not the one on the air; an answer that goes to a *)
(* request whose exchange was spoiled leaves the later one without.        *)
AnswerJoin(status) ==
    IF queue = << >>
    THEN UNCHANGED <<queue, spoiled>>
    ELSE /\ ConfirmQueue!Answer(Head(queue).request, status)
         /\ spoiled' = spoiled \cup (IF Head(queue).request \in spoiled THEN {devNonce} ELSE {})

(* A frame ends the exchange and answers none of the requests.             *)
NoAnswer ==
    /\ UNCHANGED queue
    /\ spoiled' = spoiled \cup {queue[i].request : i \in {k \in 1..Len(queue) : ~queue[k].ready}}

(* ProcessRadioTxDone; the timer of window 1 runs.  MacDone is clear,      *)
(* unless the node went to sleep in a callback.                            *)
ProcessRadioTxDone ==
    /\ Handles({"TxDone"})
    /\ air' = "window1"
    /\ task' = IF "MacDone" \in macFlags THEN "check" ELSE "wait"
    /\ UNCHANGED <<activation, session, fCntUp, macState, macFlags, queue, spoiled>>

ProcessFirstWindowFailed ==
    /\ Handles({"FirstWindowFailed"})
    /\ air' = "window2"
    /\ AnswerAll("RX_FAILED")
    /\ task' = IF "MacDone" \in macFlags THEN "check" ELSE "wait"
    /\ UNCHANGED <<activation, session, fCntUp, macState, macFlags, spoiled>>

(* ProcessRadioTxTimeout, HandleRadioRxErrorTimeout in the last window.    *)
ProcessFailure ==
    /\ Handles({"TxTimeout", "LastWindowFailed"})
    /\ AnswerAll(IF event = "TxTimeout" THEN "TX_TIMEOUT" ELSE "RX_FAILED")
    /\ macFlags' = macFlags \cup {"MacDone"}
    /\ task' = "check"
    /\ UNCHANGED <<activation, session, fCntUp, macState, air, spoiled>>

(* ProcessRadioRxDone with a join accept: LoRaMacCryptoHandleJoinAccept    *)
(* derives the keys and resets the counters; the activation comes last.    *)
DerivedCounter == 0
HandleJoinAccept ==
    /\ Handles({"ACCEPT"})
    /\ session' = devNonce
    /\ fCntUp' = DerivedCounter
    /\ task' = "accepted"
    /\ UNCHANGED <<activation, macState, macFlags, queue, air, spoiled>>

Activate ==
    /\ task = "accepted"
    /\ task' = "check"
    /\ activation' = "OTAA"
    /\ AnswerJoin("OK")
    /\ macFlags' = macFlags \cup {"MacDone"}
    /\ UNCHANGED <<joinType, up, deviceClass, session, fCntUp, nbTrans, devNonce, macState, air,
                   event, handleLeft, joining, granted, waiting, informed, counters, bounds>>

BadAcceptStatusOk == "OK"
BadAcceptStatus == "JOIN_FAIL"
HandleBadAccept ==
    /\ Handles({"BAD_ACCEPT"})
    /\ AnswerJoin(BadAcceptStatus)
    /\ macFlags' = macFlags \cup {"MacDone"}
    /\ task' = "check"
    /\ UNCHANGED <<activation, session, fCntUp, macState, air>>

(* ProcessRadioRxDone with a frame it passes on: a downlink of the session *)
(* the node has keys of, be it the one a join is to replace, or a          *)
(* proprietary frame.                                                      *)
ProcessFrame ==
    /\ Handles({"FRAME"})
    /\ NoAnswer
    /\ macFlags' = macFlags \cup {"MacDone"}
    /\ task' = "check"
    /\ UNCHANGED <<activation, session, fCntUp, macState, air>>

(* PrepareRxDoneAbort: any frame that is not for this node, as it is now.  *)
PrepareRxDoneAbort ==
    /\ Handles({"OTHER"})
    /\ NoAnswer
    /\ macState' = macState \cup {"RX_ABORT"}
    /\ macFlags' = macFlags \cup {"MacDone"}
    /\ task' = "check"
    /\ UNCHANGED <<activation, session, fCntUp, air>>

-----------------------------------------------------------------------------
(* LoRaMacProcess once MacDone is set: LoRaMacCheckForRxAbort,             *)
(* LoRaMacHandleMlmeRequest, LoRaMacHandleMcpsRequest for a frame sent     *)
(* once, and LoRaMacHandleRequestEvents up to its callbacks.  The MAC is   *)
(* busy until here, so no request comes between.                           *)
AfterRxAbort == IF "RX_ABORT" \in macState THEN macState \ {"RX_ABORT", "TX_RUNNING"} ELSE macState

JoinActive == "MlmeReq" \in macFlags /\ queue # << >>
HandleMlmeRequestOnSuccess(state) ==
    IF JoinActive /\ queue[1].status = "OK" THEN state \ {"TX_RUNNING"} ELSE state
HandleMlmeRequest(state) == IF JoinActive THEN state \ {"TX_RUNNING"} ELSE state
HandleMcpsRequest(state) == IF "McpsReq" \in macFlags THEN state \ {"TX_RUNNING"} ELSE state

(* A join that succeeded and StopRetransmission reset the counter.         *)
Joined == JoinActive /\ queue[1].status = "OK"

CheckDone ==
    /\ task = "check"
    /\ nbTrans' = (nbTrans /\ ~Joined /\ "McpsReq" \notin macFlags)
    /\ unended' = (unended /\ "McpsReq" \notin macFlags)
    /\ macState' = HandleMcpsRequest(HandleMlmeRequest(AfterRxAbort))
    /\ IF macState' # {}
       THEN task' = "wait" /\ UNCHANGED <<macFlags, handleLeft>>
       ELSE /\ macFlags' = macFlags \ {"McpsReq", "MlmeReq"}
            /\ IF "MlmeReq" \in macFlags
               THEN task' = "confirms" /\ handleLeft' = Len(queue)
               ELSE task' = "done" /\ UNCHANGED handleLeft
    /\ UNCHANGED <<joinType, up, activation, deviceClass, session, fCntUp, devNonce, queue, air,
                   event, joining, granted, sketch, lastCounter, bounds>>

(* LoRaMacConfirmQueueHandleCb reaches a request that is answered:         *)
(* MlmeConfirm and OnJoinRequest call the sketch back.                     *)
ConfirmJoin ==
    /\ task = "confirms" /\ handleLeft > 0
    /\ Head(queue).ready
    /\ task' = "callback"
    /\ waiting' = waiting \ {Head(queue).request}
    /\ informed' = IF Head(queue).status = "OK" THEN session ELSE informed
    /\ UNCHANGED <<joinType, up, rtc, macState, air, event, handleLeft, joining, granted,
                   spoiled, counters, bounds>>

CallbackReturns ==
    /\ task = "callback" /\ "lora" \notin joining
    /\ task' = "confirms"
    /\ handleLeft' = handleLeft - 1
    /\ ConfirmQueue!Confirm
    /\ UNCHANGED <<joinType, up, activation, deviceClass, session, fCntUp, nbTrans, devNonce,
                   macFlags, macState, air, event, joining, granted, sketch, counters, bounds>>

DeferConfirm ==
    /\ task = "confirms" /\ handleLeft > 0
    /\ ConfirmQueue!Defer
    /\ handleLeft' = handleLeft - 1
    /\ UNCHANGED <<joinType, up, activation, deviceClass, session, fCntUp, nbTrans, devNonce,
                   macFlags, macState, air, event, task, joining, granted, sketch, counters, bounds>>

(* The rest of LoRaMacHandleRequestEvents.                                 *)
ConfirmsDone ==
    /\ task = "confirms" /\ handleLeft = 0
    /\ task' = "done"
    /\ macFlags' = IF queue = << >> THEN macFlags ELSE macFlags \cup {"MlmeReq"}
    /\ UNCHANGED <<joinType, up, activation, deviceClass, session, fCntUp, nbTrans, devNonce, queue,
                   macState, air, event, handleLeft, joining, granted, sketch, counters, bounds>>

ExchangeDone ==
    /\ task = "done"
    /\ task' = "wait"
    /\ macFlags' = macFlags \ {"MacDone"}
    /\ UNCHANGED <<joinType, up, activation, deviceClass, session, fCntUp, nbTrans, devNonce, queue,
                   macState, air, event, handleLeft, joining, granted, sketch, counters, bounds>>

-----------------------------------------------------------------------------
Requests == \E t \in Tasks : JoinRefused(t) \/ JoinRequest(t)

LoRaTask ==
    \/ ProcessRadioTxDone \/ ProcessFirstWindowFailed \/ ProcessFailure
    \/ HandleJoinAccept \/ Activate \/ HandleBadAccept \/ ProcessFrame \/ PrepareRxDoneAbort
    \/ CheckDone \/ ConfirmJoin \/ CallbackReturns \/ DeferConfirm \/ ConfirmsDone \/ ExchangeDone

Radio == TransmissionEnds \/ WindowEnds

Next ==
    \/ Setup \/ PowerLoss \/ Uplink
    \/ \E t \in Tasks : Join(t) \/ DeepSleep(t)
    \/ Requests \/ LoRaTask \/ Radio

Spec == Init /\ [][Next]_vars

(* A call of join that is under way goes on, the tasks run, callbacks      *)
(* return and every transmission and window ends.                          *)
FairSpec == Spec /\ WF_vars(Requests) /\ WF_vars(LoRaTask) /\ WF_vars(Radio)

-----------------------------------------------------------------------------
(* Every variable has the type the code gives it.                          *)
TypeOK ==
    /\ joinType \in JoinTypes
    /\ up \in BOOLEAN
    /\ activation \in {"NONE", "OTAA", "ABP"}
    /\ deviceClass \in {"CLASS_A", "CLASS_C"}
    /\ session \in Sessions /\ devNonce \in Sessions /\ granted \in Sessions
    /\ fCntUp \in 0..MaxUplinks /\ nbTrans \in BOOLEAN
    /\ macState \subseteq {"TX_RUNNING", "RX_ABORT"}
    /\ macFlags \subseteq {"McpsReq", "MlmeReq", "MacDone"}
    /\ queue \in Seq(ConfirmQueue!Entry)
    /\ air \in {"quiet", "transmission", "window1", "window2"}
    /\ event \in {"none", "TxDone", "TxTimeout", "FirstWindowFailed", "LastWindowFailed"}
                 \cup JoinFrames \cup DataFrames
    /\ task \in {"wait", "accepted", "check", "confirms", "callback", "done"}
    /\ handleLeft \in 0..QueueLen
    /\ joining \subseteq Tasks
    /\ waiting \subseteq Sessions /\ spoiled \subseteq Sessions /\ informed \in Sessions
    /\ lastCounter \in [Sessions -> -1..MaxUplinks] /\ unended \in BOOLEAN
    /\ joins \in 0..MaxJoins /\ restarts \in 0..MaxRestarts

(* Every join request the MAC took is answered to the sketch, unless the   *)
(* node is put to sleep first (LoRaMac.h: MLME_JOIN has a confirm).  The   *)
(* code does not keep this: see the README.                                *)
EveryJoinAnswered == \A j \in Sessions : j \in waiting ~> j \notin waiting

(* The same for each request, however many are in the queue, except those  *)
(* whose exchange a frame that is no answer ended, and those whose answer  *)
(* went to such a one: through refusals, both windows, the deferred        *)
(* entries of the queue, a task that joins while another does, and sleeps. *)
JoinsAnswered == \A j \in Sessions : j \in waiting ~> j \notin waiting \/ j \in spoiled

(* Each answer to a request made since the last start is true: success     *)
(* only with the keys the server has, failure only to a node that is off   *)
(* the network or whose sketch knows of this session, however requests     *)
(* from two tasks, both windows, frames that spoil a join, data exchanges  *)
(* and the queue were interleaved.                                         *)
AnswersTruthful ==
    [][ConfirmJoin /\ Head(queue).request \in waiting
           => IF Head(queue).status = "OK" THEN activation # "NONE" /\ session = granted
              ELSE activation = "NONE" \/ session = informed]_vars

(* The same for every answer, of failure too.  The code does not keep      *)
(* this: see the README.                                                   *)
FailureMeansOff == [][ConfirmJoin /\ Head(queue).status # "OK" => activation = "NONE"]_vars

(* A counter is used again under one session's keys only by the first      *)
(* uplink after one whose exchange a sleep cut short, and none goes back:  *)
(* whatever restarts a node's counter also gives it new keys, and whatever *)
(* ends an exchange ends its repetitions, through every sleep, every loss  *)
(* of power of an OTAA node, and every join in between.                    *)
CounterOncePerKey ==
    [][Uplink => \/ fCntUp' > lastCounter[session]
                 \/ unended /\ fCntUp' = lastCounter[session]]_vars

(* The same without exception.  The code does not keep this: see the      *)
(* README.                                                                 *)
CounterNeverReused == [][Uplink => fCntUp' > lastCounter[session]]_vars

(* A node runs in the class its constructor was given (README.md:37).  The *)
(* code does not keep this: a join request puts the node into class A, and *)
(* only init sets the class the sketch chose.                              *)
ClassAsChosen == activation # "NONE" => deviceClass = ChosenClass
=============================================================================
