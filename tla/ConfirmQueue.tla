---------------------------- MODULE ConfirmQueue ----------------------------
(***************************************************************************)
(* The ring buffer of MLME requests that wait for their confirm            *)
(* (src/mac/LoRaMacConfirmQueue.c).  Pointers are indices of the array;    *)
(* LoRaMacConfirmQueueHandleCb is split where it calls out: while the      *)
(* MacMlmeConfirm callback runs, the callback may request again and so     *)
(* add to the queue that is being walked.                                  *)
(***************************************************************************)
EXTENDS Integers, Sequences

CONSTANTS
    Requests,      \* the Mlme_t values
    Statuses,      \* the LoRaMacEventInfoStatus_t values
    ErrorStatus,   \* LORAMAC_EVENT_INFO_STATUS_ERROR
    NoRequest,     \* the 0xFF pattern of a slot that was never written
    QueueLen       \* LORA_MAC_MLME_CONFIRM_QUEUE_LEN

ASSUME QueueLenAssumption == QueueLen \in Nat \ {0}
ASSUME ValueAssumption == NoRequest \notin Requests /\ ErrorStatus \in Statuses

VARIABLES
    slots,         \* Nvm.MlmeConfirmQueue
    bufferStart,   \* BufferStart
    bufferEnd,     \* BufferEnd
    cnt,           \* Nvm.MlmeConfirmQueueCnt
    commonStatus,  \* Nvm.CommonStatus
    handleLeft,    \* nbElements - i of the HandleCb in progress, 0 when none
    control        \* whether HandleCb or the MacMlmeConfirm it called is running

ring == <<slots, bufferStart, bufferEnd, cnt>>
queueVars == <<slots, bufferStart, bufferEnd, cnt, commonStatus, handleLeft, control>>

-----------------------------------------------------------------------------
Index == 0..(QueueLen - 1)

Element == [request : Requests \cup {NoRequest}, status : Statuses,
            restricted : BOOLEAN, ready : BOOLEAN]

Blank == [request |-> NoRequest, status |-> ErrorStatus, restricted |-> TRUE, ready |-> TRUE]

IncreaseBufferPointer(p) == IF p = QueueLen - 1 THEN 0 ELSE p + 1
DecreaseBufferPointerStuck(p) == IF p = 0 THEN 0 ELSE p - 1
DecreaseBufferPointer(p) == IF p = 0 THEN QueueLen - 1 ELSE p - 1

(* The slot of the i-th queued element, as stepping i - 1 times from the   *)
(* start reaches it.                                                       *)
SlotOf(i) == IF bufferStart + i - 1 < QueueLen
             THEN bufferStart + i - 1 ELSE bufferStart + i - 1 - QueueLen

(* GetElement: the positions at which the search for a request stops.      *)
Found(r) == {i \in 1..cnt : /\ slots[SlotOf(i)].request = r
                            /\ \A j \in 1..(i - 1) : slots[SlotOf(j)].request # r}

Answered(e, s) == [e EXCEPT !.status = s, !.ready = TRUE]
CommonAnswered(e, s) == [e EXCEPT !.status = s, !.ready = e.ready \/ ~e.restricted]

(* The slots a do-while from BufferStart up to BufferEnd visits: with both *)
(* pointers equal the body still runs, all the way round.                  *)
VisitedNoWrap == {p \in Index : bufferStart <= p}
Visited == {p \in Index : IF bufferStart < bufferEnd
                          THEN bufferStart <= p /\ p < bufferEnd
                          ELSE bufferStart <= p \/ p < bufferEnd}

(* Nothing but the callback itself runs while a HandleCb is walking.       *)
Idle == handleLeft = 0

-----------------------------------------------------------------------------
Cleared ==
    /\ slots' = [p \in Index |-> Blank]
    /\ bufferStart' = 0
    /\ bufferEnd' = 0
    /\ cnt' = 0
    /\ commonStatus' = ErrorStatus

QueueInit ==
    /\ slots = [p \in Index |-> Blank]
    /\ bufferStart = 0
    /\ bufferEnd = 0
    /\ cnt = 0
    /\ commonStatus = ErrorStatus
    /\ handleLeft = 0
    /\ control = "loop"

(* LoRaMacConfirmQueueInit, called again by every LoRaMacInitialization of *)
(* a node that has not joined.                                             *)
ReInit ==
    /\ Idle
    /\ Cleared
    /\ UNCHANGED <<handleLeft, control>>

Add(r, s, x) ==
    /\ Idle \/ control = "callback"
    /\ cnt < QueueLen
    /\ slots' = [slots EXCEPT ![bufferEnd] =
           [request |-> r, status |-> s, restricted |-> x, ready |-> FALSE]]
    /\ cnt' = cnt + 1
    /\ bufferEnd' = IncreaseBufferPointer(bufferEnd)
    /\ UNCHANGED <<bufferStart, commonStatus, handleLeft, control>>

RemoveLast ==
    /\ Idle
    /\ cnt > 0
    /\ cnt' = cnt - 1
    /\ bufferEnd' = DecreaseBufferPointer(bufferEnd)
    /\ UNCHANGED <<slots, bufferStart, commonStatus, handleLeft, control>>

SetStatus(s, r) ==
    /\ Idle
    /\ \E i \in Found(r) :
           slots' = [slots EXCEPT ![SlotOf(i)] = Answered(slots[SlotOf(i)], s)]
    /\ UNCHANGED <<bufferStart, bufferEnd, cnt, commonStatus, handleLeft, control>>

SetStatusCmn(s) ==
    /\ Idle
    /\ commonStatus' = s
    /\ slots' = [p \in Index |-> IF cnt > 0 /\ p \in Visited
                                  THEN CommonAnswered(slots[p], s) ELSE slots[p]]
    /\ UNCHANGED <<bufferStart, bufferEnd, cnt, handleLeft, control>>

-----------------------------------------------------------------------------
(* LoRaMacConfirmQueueHandleCb, one action per stretch between callbacks.  *)
HandleCbSkipsLast ==
    /\ Idle
    /\ cnt > 0
    /\ handleLeft' = cnt - 1
    /\ UNCHANGED <<ring, commonStatus, control>>
HandleCb ==
    /\ Idle
    /\ cnt > 0
    /\ handleLeft' = cnt
    /\ UNCHANGED <<ring, commonStatus, control>>

HandleReady ==
    /\ handleLeft > 0 /\ control = "loop"
    /\ slots[bufferStart].ready
    /\ control' = "callback"
    /\ UNCHANGED <<ring, commonStatus, handleLeft>>

(* The callback returns: RemoveFirst.                                      *)
HandleReturn ==
    /\ control = "callback"
    /\ control' = "loop"
    /\ handleLeft' = handleLeft - 1
    /\ IF cnt = 0 THEN UNCHANGED <<cnt, bufferStart>>
                  ELSE /\ cnt' = cnt - 1
                       /\ bufferStart' = IncreaseBufferPointer(bufferStart)
    /\ UNCHANGED <<slots, bufferEnd, commonStatus>>

(* Not ready: RemoveFirst, then Add of the stored copy.                    *)
HandleDefer ==
    /\ handleLeft > 0 /\ control = "loop"
    /\ ~slots[bufferStart].ready
    /\ handleLeft' = handleLeft - 1
    /\ bufferStart' = IncreaseBufferPointer(bufferStart)
    /\ slots' = [slots EXCEPT ![bufferEnd] = [slots[bufferStart] EXCEPT !.ready = FALSE]]
    /\ bufferEnd' = IncreaseBufferPointer(bufferEnd)
    /\ UNCHANGED <<cnt, commonStatus, control>>

(* Deep sleep: ConfirmQueueCtx is in RTC memory, the walk is on the stack. *)
(* After it, nobody is in HandleCb, and the queue is as it was left.       *)
SleepEndsWalk ==
    /\ handleLeft' = 0
    /\ control' = "loop"
    /\ UNCHANGED <<ring, commonStatus>>

QueueNext ==
    \/ ReInit
    \/ \E r \in Requests, s \in Statuses, x \in BOOLEAN : Add(r, s, x)
    \/ RemoveLast
    \/ \E s \in Statuses, r \in Requests : SetStatus(s, r)
    \/ \E s \in Statuses : SetStatusCmn(s)
    \/ HandleCb
    \/ HandleReady
    \/ HandleReturn
    \/ HandleDefer
    \/ SleepEndsWalk

QueueSpec == QueueInit /\ [][QueueNext]_queueVars

-----------------------------------------------------------------------------
QueueTypeOK ==
    /\ slots \in [Index -> Element]
    /\ bufferStart \in Index
    /\ bufferEnd \in Index
    /\ cnt \in 0..QueueLen
    /\ commonStatus \in Statuses
    /\ handleLeft \in 0..QueueLen
    /\ control \in {"loop", "callback"}

(* The count and the two pointers, which the code updates separately,      *)
(* always describe the same stretch of the ring, and every slot in it      *)
(* holds a request (LoRaMacConfirmQueueAdd, RemoveFirst, RemoveLast).      *)
PointersAgree ==
    bufferEnd = IF bufferStart + cnt < QueueLen THEN bufferStart + cnt
                                                ELSE bufferStart + cnt - QueueLen
RingConsistent ==
    /\ PointersAgree
    /\ \A i \in 1..cnt : slots[SlotOf(i)].request \in Requests

(* The walk of HandleCb never runs past the queue, although callbacks add  *)
(* to it and deferred requests are re-added: what is left to handle is at  *)
(* the front, whatever the walk has put behind it is not ready, and the    *)
(* request a running callback reports is still the first of the queue.     *)
WalkWithinQueue ==
    /\ handleLeft <= cnt
    /\ control = "callback" => handleLeft > 0 /\ slots[bufferStart].ready
    /\ handleLeft > 0 => \A i \in (handleLeft + 1)..cnt : ~slots[SlotOf(i)].ready

(* A HandleCb that runs to its end has confirmed every answered request:   *)
(* none that was ready stays behind in the queue.                          *)
WalkEnds == (HandleReturn \/ HandleDefer) /\ handleLeft' = 0
HandledAllReady ==
    [][WalkEnds => \A i \in 1..cnt' : ~slots'[SlotOf(i)'].ready]_queueVars

(* The ring implements the bounded sequence of requests.                   *)
Queue == [i \in 1..cnt |-> slots[SlotOf(i)]]
Abs == INSTANCE ConfirmQueueAbs WITH pending <- Queue, Capacity <- QueueLen
ImplementsQueue == Abs!Spec
=============================================================================
