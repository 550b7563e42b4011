---------------------------- MODULE JoiningProofs ---------------------------
(* No uplink counter is used twice under one session's keys, and the       *)
(* sketch is told the truth about its joins, whatever the joins from both  *)
(* tasks, uplinks, sleeps, losses of power and frames heard.               *)
EXTENDS Joining, TLAPS

-----------------------------------------------------------------------------
(* What the argument needs of the types.                                   *)
Types ==
    /\ joinType \in {"OTAA", "ABP"}
    /\ up \in BOOLEAN
    /\ activation \in {"NONE", "OTAA", "ABP"}
    /\ session \in Nat /\ devNonce \in Nat /\ fCntUp \in Nat
    /\ session <= devNonce
    /\ lastCounter \in [Sessions -> Int]
    /\ nbTrans \in BOOLEAN /\ unended \in BOOLEAN

(* A node that is not set up does nothing.                                 *)
Off ==
    /\ ~up
    /\ air = "quiet" /\ event = "none" /\ task = "wait"
    /\ macState = {} /\ joining = {}

(* A node that is activated and whose sketch has no join under way stays   *)
(* activated, whatever an exchange before a sleep left in its flags.       *)
Settled ==
    /\ activation # "NONE" /\ joining = {}
    /\ event # "ACCEPT" /\ task # "accepted"

(* Otherwise the MAC is busy while anything is on the air, reported or     *)
(* being handled, so that no join request comes in between.                *)
Ordered ==
    /\ air # "quiet" \/ event # "none" \/ task \in {"accepted", "check"} => macState # {}
    /\ event # "none" \/ task \in {"accepted", "check"} => air = "quiet"
    /\ task \in {"accepted", "check"} => event = "none"
    /\ "MacDone" \in macFlags /\ task \in {"wait", "accepted"} =>
          air = "quiet" /\ event = "none" /\ macState # {}
    /\ event = "ACCEPT" \/ task = "accepted" => activation = "NONE"

Modes == Off \/ (up /\ Settled) \/ (up /\ joinType = "OTAA" /\ Ordered)

(* Sessions no request asked for yet are unused, and so is the one asked   *)
(* for while its answer may come; an activated node is past the counters   *)
(* of its session, and would take the last one again only if that uplink's *)
(* exchange never ended; an ABP node is given its keys once while it has   *)
(* power.                                                                  *)
Unused(s) == s \in Sessions => lastCounter[s] = -1
Keys ==
    /\ \A s \in Sessions : s > devNonce => lastCounter[s] = -1
    /\ activation = "NONE" /\ (air # "quiet" \/ event # "none" \/ task = "accepted") =>
          Unused(devNonce)
    /\ task = "accepted" => session = devNonce /\ fCntUp = 0
    /\ activation # "NONE" /\ session \in Sessions => lastCounter[session] <= fCntUp
    /\ activation # "NONE" /\ session \in Sessions /\ nbTrans =>
          unended \/ lastCounter[session] < fCntUp
    /\ joinType = "ABP" /\ activation = "NONE" => ~up /\ session = 0 /\ Unused(0)

KeyInv == Types /\ Modes /\ Keys

-----------------------------------------------------------------------------
LEMMA KeyInvInit == Init => KeyInv
<1> SUFFICES ASSUME Init PROVE KeyInv
  OBVIOUS
<1>1. Types
  BY JoiningAssumption DEF Init, Types, Sessions
<1>2. Modes /\ Keys
  BY DEF Init, Modes, Off, Keys, Unused
<1> QED BY <1>1, <1>2 DEF KeyInv

LEMMA KeyInvNext == KeyInv /\ [Next]_vars => KeyInv'
<1> SUFFICES ASSUME KeyInv, [Next]_vars PROVE KeyInv'
  OBVIOUS
<1> USE JoiningAssumption DEF KeyInv, Types, Modes, Keys, Off, Settled, Ordered, Unused, Sessions
<1>1. CASE Setup
  <2>1. /\ up = FALSE /\ up' = TRUE
        /\ UNCHANGED <<joinType, devNonce, lastCounter, unended, air, event, task, macState,
                       joining>>
        /\ activation' = IF joinType = "ABP" THEN "ABP" ELSE activation
    BY <1>1 DEF Setup, loraTask, counters
  <2>7. IF activation = "NONE"
        THEN session' = 0 /\ fCntUp' = 0 /\ nbTrans' = FALSE /\ macFlags' = {}
        ELSE UNCHANGED <<session, fCntUp, nbTrans, macFlags>>
    BY <1>1 DEF Setup, StartsAfresh
  <2>8. session' \in Nat /\ fCntUp' \in Nat /\ session' <= devNonce' /\ nbTrans' \in BOOLEAN
    <3>1. (session' = 0 \/ session' = session) /\ (fCntUp' = 0 \/ fCntUp' = fCntUp)
      BY <2>7
    <3>2. nbTrans' \in BOOLEAN
      BY <2>7
    <3>3. devNonce' = devNonce
      BY <2>1
    <3>4. session \in Nat /\ fCntUp \in Nat /\ devNonce \in Nat /\ session <= devNonce
      OBVIOUS
    <3> QED BY <3>1, <3>2, <3>3, <3>4
  <2>2. Types'
    BY <2>1, <2>8
  <2>9. /\ joinType' \in {"OTAA", "ABP"} /\ up'
        /\ air' = "quiet" /\ event' = "none" /\ task' = "wait" /\ joining' = {}
    BY <2>1
  <2>3. Modes'
    <3>1. CASE activation' # "NONE"
      BY <2>9, <3>1
    <3>2. CASE activation' = "NONE"
      <4>1. joinType' = "OTAA" /\ macFlags' = {}
        BY <2>1, <2>7, <3>2
      <4> QED BY <2>9, <4>1
    <3> QED BY <3>1, <3>2
  <2>4. CASE joinType = "ABP" /\ activation = "NONE"
    <3>1. session = 0 /\ Unused(0) /\ session' = 0 /\ fCntUp' = 0 /\ nbTrans' = FALSE
      BY <2>4, <2>7
    <3>2. Unused(0)' /\ activation' = "ABP" /\ lastCounter' = lastCounter /\ devNonce' = devNonce
      BY <2>1, <2>4, <3>1
    <3>3. Keys'
      BY <2>9, <3>1, <3>2
    <3> QED BY <2>2, <2>3, <3>3
  <2>5. CASE joinType # "ABP" /\ activation = "NONE"
    <3>1. joinType' # "ABP" /\ activation' = "NONE"
          /\ lastCounter' = lastCounter /\ devNonce' = devNonce
      BY <2>1, <2>5
    <3>2. Keys'
      BY <2>9, <3>1
    <3> QED BY <2>2, <2>3, <3>2
  <2>6. CASE activation # "NONE"
    BY <2>1, <2>6, <2>7
  <2> QED BY <2>2, <2>3, <2>4, <2>5, <2>6
<1>2. CASE PowerLoss
  <2>1. session' \in Nat /\ devNonce' \in Nat /\ fCntUp' \in Nat /\ session' <= devNonce'
    BY <1>2 DEF PowerLoss, Restart
  <2>5. lastCounter' \in [Sessions -> Int]
    BY <1>2 DEF PowerLoss
  <2>2. Types'
    BY <1>2, <2>1, <2>5 DEF PowerLoss, Restart
  <2>3. Off' /\ joinType' = joinType
    BY <1>2 DEF PowerLoss, Restart
  <2>4. Keys'
    BY <1>2, <2>3 DEF PowerLoss, Restart
  <2> QED BY <2>2, <2>3, <2>4
<1>3. CASE Uplink
  <2>1. NextCounter \in Nat
    BY DEF NextCounter
  <2>2. lastCounter' \in [Sessions -> Int]
    <3>1. lastCounter' = [lastCounter EXCEPT ![session] = NextCounter]
      BY <1>3 DEF Uplink
    <3>2. NextCounter \in Int
      BY <2>1
    <3> QED BY <3>1, <3>2
  <2>3. session' \in Nat /\ devNonce' \in Nat /\ fCntUp' \in Nat /\ session' <= devNonce'
    <3>1. fCntUp' = NextCounter /\ session' = session /\ devNonce' = devNonce
      BY <1>3 DEF Uplink
    <3> QED BY <2>1, <3>1
  <2>4. Types'
    BY <1>3, <2>2, <2>3 DEF Uplink
  <2>5. Modes'
    BY <1>3 DEF Uplink, Busy, loraTask
  <2>6. Keys'
    <3>1. /\ UNCHANGED <<joinType, up, activation, session, devNonce>>
          /\ up /\ activation # "NONE" /\ fCntUp' = NextCounter /\ task' = "wait"
          /\ unended' = TRUE
          /\ lastCounter' = [lastCounter EXCEPT ![session] = NextCounter]
      BY <1>3 DEF Uplink, loraTask
    <3>2. \A s \in Sessions : s > devNonce' => lastCounter'[s] = -1
      BY <3>1
    <3>3. session \in Sessions => lastCounter'[session] = NextCounter
      BY <3>1
    <3> QED BY <2>1, <3>1, <3>2, <3>3
  <2> QED BY <2>4, <2>5, <2>6
<1>4. ASSUME NEW t \in Tasks, Join(t) PROVE KeyInv'
  BY <1>4 DEF Join, SketchIn, rtc, loraTask, counters
<1>5. ASSUME NEW t \in Tasks, DeepSleep(t) PROVE KeyInv'
  BY <1>5 DEF DeepSleep, Restart, counters
<1>6. ASSUME NEW t \in Tasks, JoinRefused(t) PROVE KeyInv'
  BY <1>6 DEF JoinRefused, rtc, loraTask, sketch, counters, bounds
<1>7. ASSUME NEW t \in Tasks, JoinRequest(t) PROVE KeyInv'
  <2>1. up /\ joinType = "OTAA" /\ Ordered
    BY <1>7 DEF JoinRequest, Requesting
  <2>2. Ordered' /\ air = "quiet" /\ event' = "none" /\ task' # "accepted"
    BY <1>7, <2>1 DEF JoinRequest, Requesting, Busy, loraTask
  <2>3. /\ UNCHANGED <<joinType, up, session, fCntUp, lastCounter>>
        /\ activation' = "NONE" /\ nbTrans' \in BOOLEAN /\ unended' = FALSE
        /\ devNonce' = devNonce + 1 \/ (devNonce' = devNonce /\ air' = "quiet")
    BY <1>7, <2>2 DEF JoinRequest
  <2>4. session' \in Nat /\ devNonce' \in Nat /\ fCntUp' \in Nat /\ session' <= devNonce'
    BY <2>3
  <2>5. Types'
    BY <2>3, <2>4
  <2>6. \A s \in Sessions : s > devNonce' => lastCounter'[s] = -1
    BY <2>3
  <2>7. air' # "quiet" => Unused(devNonce)'
    BY <2>3
  <2>8. Keys'
    BY <2>1, <2>2, <2>3, <2>6, <2>7
  <2> QED BY <2>1, <2>2, <2>3, <2>5, <2>8
<1>8. CASE ProcessRadioTxDone \/ ProcessFirstWindowFailed \/ ProcessFailure
  <2>1. /\ UNCHANGED <<joinType, up, activation, session, fCntUp, nbTrans, devNonce,
                       lastCounter, unended>>
        /\ event # "none" /\ event' = "none" /\ task' # "accepted"
    BY <1>8 DEF ProcessRadioTxDone, ProcessFirstWindowFailed, ProcessFailure, Handles, counters
  <2>2. Types' /\ Keys'
    BY <2>1
  <2>3. Modes'
    BY <1>8 DEF ProcessRadioTxDone, ProcessFirstWindowFailed, ProcessFailure, Handles, sketch, counters, bounds
  <2> QED BY <2>2, <2>3
<1>9. CASE HandleJoinAccept
  BY <1>9 DEF HandleJoinAccept, DerivedCounter, Handles, sketch, counters, bounds
<1>10. CASE Activate
  BY <1>10 DEF Activate, sketch, counters, bounds
<1>11. CASE HandleBadAccept \/ ProcessFrame \/ PrepareRxDoneAbort
  BY <1>11 DEF HandleBadAccept, ProcessFrame, PrepareRxDoneAbort, Handles, sketch, counters, bounds
<1>12. CASE CheckDone
  BY <1>12 DEF CheckDone, sketch, counters, bounds
<1>13. CASE ConfirmJoin \/ CallbackReturns \/ DeferConfirm
  BY <1>13 DEF ConfirmJoin, CallbackReturns, DeferConfirm, rtc, sketch, counters, bounds
<1>14. CASE ConfirmsDone \/ ExchangeDone
  BY <1>14 DEF ConfirmsDone, ExchangeDone, sketch, counters, bounds
<1>15. CASE TransmissionEnds \/ WindowEnds
  BY <1>15 DEF TransmissionEnds, WindowEnds, RadioReports, rtc, sketch, counters, bounds
<1>16. CASE UNCHANGED vars
  BY <1>16 DEF vars, rtc, loraTask, sketch, counters, bounds
<1> QED
  BY <1>1, <1>2, <1>3, <1>4, <1>5, <1>6, <1>7, <1>8, <1>9, <1>10, <1>11, <1>12, <1>13, <1>14,
     <1>15, <1>16 DEF Next, Requests, LoRaTask, Radio

(* KeyInv holds in every reachable state.                                  *)
THEOREM KeysFresh == Spec => []KeyInv
<1> QED BY KeyInvInit, KeyInvNext, PTL DEF Spec

(* A DevNonce is used for a call of join, one by each task that is in one. *)
InJoin == (IF "app" \in joining THEN 1 ELSE 0) + (IF "lora" \in joining THEN 1 ELSE 0)
NoncesCounted ==
    /\ joins \in Nat /\ devNonce \in Nat
    /\ devNonce + InJoin <= joins /\ joins <= MaxJoins

LEMMA NoncesInit == Init => NoncesCounted
  BY JoiningAssumption DEF Init, NoncesCounted, InJoin

LEMMA NoncesNext == NoncesCounted /\ [Next]_vars => NoncesCounted'
<1> SUFFICES ASSUME NoncesCounted, [Next]_vars PROVE NoncesCounted'
  OBVIOUS
<1> USE JoiningAssumption DEF NoncesCounted, InJoin
<1>1. ASSUME NEW t \in Tasks, Join(t) PROVE NoncesCounted'
  BY <1>1 DEF Join, SketchIn, Tasks, rtc
<1>2. ASSUME NEW t \in Tasks, JoinRequest(t) PROVE NoncesCounted'
  <2>1. /\ t \in joining /\ joining' = joining \ {t} /\ joins' = joins
        /\ devNonce' = devNonce + 1 \/ devNonce' = devNonce
    BY <1>2 DEF JoinRequest, Requesting, bounds
  <2> QED BY <2>1 DEF Tasks
<1>3. ASSUME NEW t \in Tasks, JoinRefused(t) PROVE NoncesCounted'
  BY <1>3 DEF JoinRefused, Requesting, Tasks, rtc, bounds
<1>4. CASE PowerLoss \/ \E t \in Tasks : DeepSleep(t)
  BY <1>4 DEF PowerLoss, DeepSleep, Restart
<1>5. CASE UNCHANGED <<joins, devNonce, joining>>
  BY <1>5
<1> QED
  BY <1>1, <1>2, <1>3, <1>4, <1>5 DEF Next, Setup, Uplink, Requests, LoRaTask,
     ProcessRadioTxDone, ProcessFirstWindowFailed, ProcessFailure, HandleJoinAccept, Activate,
     HandleBadAccept, ProcessFrame, PrepareRxDoneAbort, Handles, CheckDone, ConfirmJoin,
     CallbackReturns, DeferConfirm, ConfirmsDone, ExchangeDone, Radio, TransmissionEnds,
     WindowEnds, RadioReports, vars, rtc, bounds

(* A counter is used again under one session's keys only after a sleep     *)
(* that cut the exchange of its frame short, and none goes back            *)
(* (SecureFrame of LoRaMac.c, SecureMessage and HandleJoinAccept of        *)
(* LoRaMacCrypto.c), for any number of joins, sleeps, losses of power and  *)
(* uplinks, and either kind of activation.                                 *)
THEOREM CounterAlwaysOncePerKey == Spec => CounterOncePerKey
<1> DEFINE Allowed ==
      Uplink => \/ fCntUp' > lastCounter[session]
                \/ unended /\ fCntUp' = lastCounter[session]
<1>1. KeyInv /\ NoncesCounted /\ [Next]_vars => [Allowed]_vars
  <2> SUFFICES ASSUME KeyInv, NoncesCounted, Uplink PROVE Allowed
    BY DEF Allowed
  <2>1. session \in Sessions
    BY JoiningAssumption DEF KeyInv, Types, NoncesCounted, InJoin, Sessions
  <2>2. /\ activation # "NONE" /\ fCntUp' = NextCounter
        /\ lastCounter[session] \in Int /\ lastCounter[session] <= fCntUp
        /\ nbTrans => unended \/ lastCounter[session] < fCntUp
        /\ fCntUp \in Nat /\ nbTrans \in BOOLEAN
    BY <2>1 DEF Uplink, KeyInv, Types, Keys
  <2>3. fCntUp' = fCntUp \/ fCntUp' = fCntUp + 1
    BY <2>2 DEF NextCounter
  <2>4. fCntUp' = fCntUp => nbTrans
    BY <2>2 DEF NextCounter
  <2>5. CASE fCntUp' > lastCounter[session]
    BY <2>5 DEF Allowed
  <2>6. CASE ~(fCntUp' > lastCounter[session])
    <3>1. fCntUp' = lastCounter[session] /\ fCntUp' = fCntUp /\ ~(lastCounter[session] < fCntUp)
      BY <2>2, <2>3, <2>6
    <3>2. nbTrans /\ ~(lastCounter[session] < fCntUp)
      BY <2>4, <3>1
    <3>3. nbTrans => unended \/ lastCounter[session] < fCntUp
      BY <2>2
    <3>4. unended
      BY <3>2, <3>3
    <3> QED BY <3>1, <3>4 DEF Allowed
  <2> QED BY <2>5, <2>6
<1>2. Spec => []NoncesCounted
  BY NoncesInit, NoncesNext, PTL DEF Spec
<1> QED BY <1>1, <1>2, KeysFresh, PTL DEF Spec, CounterOncePerKey, Allowed

-----------------------------------------------------------------------------
(* The answers the sketch gets.  A join request is in flight from its      *)
(* transmission until its windows are dealt with.                          *)
InFlight == up /\ activation = "NONE" /\ (air # "quiet" \/ event # "none" \/ task = "accepted")

(* Only an accept answers OK, the head of the queue, and the walk begins   *)
(* with it; a node that stays activated and expects no answer may keep     *)
(* such an element from before a sleep.                                    *)
Disciplined == up /\ (waiting # {} \/ joining # {} \/ activation = "NONE")
OkAtHead ==
    /\ queue[1].ready
    /\ \/ task = "callback"
       \/ /\ activation # "NONE" /\ session = granted /\ task \in {"check", "confirms"}
          /\ task = "check" => "MlmeReq" \in macFlags
          /\ task = "confirms" => handleLeft > 0
OneOk == \A i \in 1..Len(queue) : queue[i].status = "OK" => i = 1 /\ OkAtHead

(* The request in flight is in the queue, and not answered by the walk its *)
(* request was made from.                                                  *)
Queued ==
    /\ "MlmeReq" \in macFlags
    /\ queue # << >>
    /\ task \in {"confirms", "callback"} => \E i \in 1..Len(queue) : ~queue[i].ready

(* While the sketch waits for an answer, the node is off the network, or   *)
(* the sketch knows of the session, or is next told of it.                 *)
ToldNext ==
    /\ task \in {"check", "confirms"}
    /\ queue # << >> /\ queue[1].status = "OK"

QueueType == queue \in Seq(ConfirmQueue!Entry)
StateTypes ==
    /\ handleLeft \in Nat /\ (task = "callback" => handleLeft > 0)
    /\ macState \subseteq {"TX_RUNNING", "RX_ABORT"}
WaitsOrdered  == waiting # {} => up /\ joinType = "OTAA" /\ Ordered
OkDisciplined == Disciplined => OneOk
FlightQueued  == InFlight => Queued
Granted       == event = "ACCEPT" \/ task = "accepted" => granted = devNonce
WaitsTrue     == waiting # {} => activation = "NONE" \/ session = informed \/ ToldNext

TruthInv ==
    /\ QueueType /\ StateTypes /\ WaitsOrdered /\ OkDisciplined
    /\ FlightQueued /\ Granted /\ WaitsTrue

(* What the queue's operations do to an element.                           *)
LEMMA AcceptedLast ==
    ASSUME QueueType, devNonce' \in Nat, ConfirmQueue!Accept(devNonce', "JOIN_FAIL", FALSE)
    PROVE  /\ QueueType' /\ Len(queue') = Len(queue) + 1
           /\ \A i \in 1..Len(queue) : queue'[i] = queue[i]
           /\ queue'[Len(queue) + 1].status = "JOIN_FAIL" /\ ~queue'[Len(queue) + 1].ready
<1> DEFINE e == [request |-> devNonce', status |-> "JOIN_FAIL", restricted |-> FALSE, ready |-> FALSE]
<1>1. queue' = Append(queue, e)
  BY DEF ConfirmQueue!Accept
<1>2. e \in ConfirmQueue!Entry /\ e.status = "JOIN_FAIL" /\ ~e.ready
  BY DEF ConfirmQueue!Entry, Statuses
<1> HIDE DEF e
<1> QED BY <1>1, <1>2 DEF QueueType

LEMMA AnsweredHead ==
    ASSUME QueueType, queue # << >>, NEW s \in Statuses, AnswerJoin(s)
    PROVE  /\ QueueType' /\ Len(queue') = Len(queue)
           /\ queue'[1].status = s /\ queue'[1].ready
           /\ \A i \in 2..Len(queue) : queue'[i] = queue[i]
<1>1. \A i \in 1..Len(queue) : queue[i] \in ConfirmQueue!Entry
  BY DEF QueueType
<1>2. Len(queue) \in Nat /\ 1 \in 1..Len(queue) /\ Head(queue) = queue[1]
  BY DEF QueueType
<1>3. queue' = [queue EXCEPT ![1] = ConfirmQueue!Answered(queue[1], s)]
  <2>1. PICK i \in 1..Len(queue) :
            /\ \A j \in 1..(i - 1) : queue[j].request # Head(queue).request
            /\ queue' = [queue EXCEPT ![i] = ConfirmQueue!Answered(queue[i], s)]
    BY DEF AnswerJoin, ConfirmQueue!Answer
  <2>2. i = 1
    BY <1>2, <2>1
  <2> QED BY <2>1, <2>2
<1> DEFINE e == ConfirmQueue!Answered(queue[1], s)
<1>4. e \in ConfirmQueue!Entry /\ e.status = s /\ e.ready
  BY <1>1, <1>2 DEF ConfirmQueue!Answered, ConfirmQueue!Entry
<1> HIDE DEF e
<1> QED BY <1>2, <1>3, <1>4 DEF QueueType, e

LEMMA AnsweredAll ==
    ASSUME QueueType, NEW s \in Statuses, AnswerAll(s)
    PROVE  /\ QueueType' /\ Len(queue') = Len(queue)
           /\ \A i \in 1..Len(queue) : queue'[i].status = s
<1>1. CASE queue = << >>
  BY <1>1 DEF AnswerAll, QueueType
<1>2. CASE queue # << >>
  <2>1. queue' = [i \in 1..Len(queue) |-> ConfirmQueue!CommonAnswered(queue[i], s)]
    BY <1>2 DEF AnswerAll, ConfirmQueue!AnswerAll
  <2>2. \A i \in 1..Len(queue) :
            /\ ConfirmQueue!CommonAnswered(queue[i], s) \in ConfirmQueue!Entry
            /\ ConfirmQueue!CommonAnswered(queue[i], s).status = s
    <3>1. \A i \in 1..Len(queue) : queue[i] \in ConfirmQueue!Entry
      BY DEF QueueType
    <3>2. \A e \in ConfirmQueue!Entry :
              /\ ConfirmQueue!CommonAnswered(e, s) \in ConfirmQueue!Entry
              /\ ConfirmQueue!CommonAnswered(e, s).status = s
      <4> TAKE e \in ConfirmQueue!Entry
      <4> DEFINE ready == e.ready \/ ~e.restricted
      <4>1. ready \in BOOLEAN
        OBVIOUS
      <4> HIDE DEF ready
      <4>2. [e EXCEPT !.status = s, !.ready = ready] \in ConfirmQueue!Entry
        BY <4>1 DEF ConfirmQueue!Entry
      <4>3. [e EXCEPT !.status = s, !.ready = ready].status = s
        BY DEF ConfirmQueue!Entry
      <4> QED BY <4>2, <4>3 DEF ConfirmQueue!CommonAnswered, ready
    <3> QED BY <3>1, <3>2
  <2>3. Len(queue) \in Nat
    BY DEF QueueType
  <2> QED BY <2>1, <2>2, <2>3 DEF QueueType
<1> QED BY <1>1, <1>2

LEMMA ConfirmedHead ==
    ASSUME QueueType, ConfirmQueue!Confirm
    PROVE  /\ QueueType' /\ Len(queue') = Len(queue) - 1 /\ Len(queue) > 0
           /\ queue[1].ready
           /\ \A i \in 1..(Len(queue) - 1) : queue'[i] = queue[i + 1]
  BY DEF QueueType, ConfirmQueue!Confirm

LEMMA DeferredHead ==
    ASSUME QueueType, ConfirmQueue!Defer
    PROVE  /\ QueueType' /\ Len(queue') = Len(queue) /\ Len(queue) > 0
           /\ ~queue[1].ready /\ queue'[Len(queue)] = queue[1]
           /\ \A i \in 1..(Len(queue) - 1) : queue'[i] = queue[i + 1]
<1>1. queue # << >> /\ ~queue[1].ready /\ queue' = Append(Tail(queue), queue[1])
  BY DEF ConfirmQueue!Defer
<1>2. /\ Len(queue) \in Nat /\ Len(queue) > 0 /\ queue[1] \in ConfirmQueue!Entry
      /\ Tail(queue) \in Seq(ConfirmQueue!Entry) /\ Len(Tail(queue)) = Len(queue) - 1
      /\ \A i \in 1..(Len(queue) - 1) : Tail(queue)[i] = queue[i + 1]
  BY <1>1 DEF QueueType
<1> QED BY <1>1, <1>2 DEF QueueType

LEMMA TruthNext == KeyInv /\ KeyInv' /\ TruthInv /\ [Next]_vars => TruthInv'
<1> SUFFICES ASSUME KeyInv, KeyInv', TruthInv, [Next]_vars PROVE TruthInv'
  OBVIOUS
<1> USE JoiningAssumption DEF TruthInv, StateTypes, WaitsOrdered, OkDisciplined, FlightQueued,
        Granted, WaitsTrue, Disciplined, OneOk, OkAtHead, InFlight, Queued, ToldNext,
        KeyInv, Types, Modes, Off, Settled, Ordered
<1>1. CASE PowerLoss
  <2>1. QueueType'
    BY <1>1 DEF PowerLoss, Restart, QueueType
  <2>2. (StateTypes /\ WaitsOrdered /\ OkDisciplined /\ FlightQueued /\ Granted /\ WaitsTrue)'
    BY <1>1 DEF PowerLoss, Restart
  <2> QED BY <2>1, <2>2
<1>2. CASE Uplink
  <2>1. QueueType'
    BY <1>2 DEF Uplink, Busy, loraTask, sketch, counters, bounds, QueueType
  <2>2. (StateTypes /\ WaitsOrdered /\ OkDisciplined /\ FlightQueued /\ Granted /\ WaitsTrue)'
    BY <1>2 DEF Uplink, Busy, loraTask, sketch, counters, bounds
  <2> QED BY <2>1, <2>2
<1>3. ASSUME NEW t \in Tasks, Join(t) PROVE TruthInv'
  <2>1. QueueType'
    BY <1>3 DEF Join, SketchIn, rtc, loraTask, QueueType
  <2>2. (StateTypes /\ WaitsOrdered /\ OkDisciplined /\ FlightQueued /\ Granted /\ WaitsTrue)'
    BY <1>3 DEF Join, SketchIn, rtc, loraTask, sketch
  <2> QED BY <2>1, <2>2
<1>4. ASSUME NEW t \in Tasks, DeepSleep(t) PROVE TruthInv'
  <2>1. QueueType'
    BY <1>4 DEF DeepSleep, Restart, QueueType
  <2>2. (StateTypes /\ WaitsOrdered /\ OkDisciplined /\ FlightQueued /\ Granted /\ WaitsTrue)'
    BY <1>4 DEF DeepSleep, Restart
  <2> QED BY <2>1, <2>2
<1>5. ASSUME NEW t \in Tasks, JoinRefused(t) PROVE TruthInv'
  <2>1. QueueType'
    BY <1>5 DEF JoinRefused, rtc, loraTask, sketch, counters, bounds, QueueType
  <2>2. (StateTypes /\ WaitsOrdered /\ OkDisciplined /\ FlightQueued /\ Granted /\ WaitsTrue)'
    BY <1>5 DEF JoinRefused, rtc, loraTask, sketch, counters, bounds
  <2> QED BY <2>1, <2>2
<1>6. CASE ProcessRadioTxDone
  <2>1. QueueType'
    BY <1>6 DEF ProcessRadioTxDone, Handles, sketch, counters, bounds, QueueType
  <2>2. (StateTypes /\ WaitsOrdered /\ OkDisciplined /\ FlightQueued /\ Granted /\ WaitsTrue)'
    BY <1>6 DEF ProcessRadioTxDone, Handles, sketch, counters, bounds
  <2> QED BY <2>1, <2>2
<1>7. CASE HandleJoinAccept
  <2>1. QueueType'
    BY <1>7 DEF HandleJoinAccept, Handles, sketch, counters, bounds, QueueType
  <2>2. (StateTypes /\ WaitsOrdered /\ OkDisciplined /\ FlightQueued /\ Granted /\ WaitsTrue)'
    BY <1>7 DEF HandleJoinAccept, Handles, sketch, counters, bounds
  <2> QED BY <2>1, <2>2
<1>8. CASE ProcessFrame \/ PrepareRxDoneAbort
  <2>1. QueueType'
    BY <1>8 DEF ProcessFrame, PrepareRxDoneAbort, NoAnswer, Handles, sketch, counters, bounds, QueueType
  <2>2. StateTypes'
    BY <1>8 DEF ProcessFrame, PrepareRxDoneAbort, NoAnswer, Handles, sketch, counters, bounds
  <2>4. WaitsOrdered'
    BY <1>8 DEF ProcessFrame, PrepareRxDoneAbort, NoAnswer, Handles, sketch, counters, bounds
  <2>3. (OkDisciplined /\ FlightQueued /\ Granted /\ WaitsTrue)'
    BY <1>8 DEF ProcessFrame, PrepareRxDoneAbort, NoAnswer, Handles, sketch, counters, bounds
  <2> QED BY <2>1, <2>2, <2>3, <2>4
<1>9. CASE ConfirmJoin
  <2>1. QueueType'
    BY <1>9 DEF ConfirmJoin, rtc, QueueType
  <2>2. (StateTypes /\ WaitsOrdered /\ OkDisciplined /\ FlightQueued /\ Granted)'
    BY <1>9 DEF ConfirmJoin, rtc, bounds
  <2>3. WaitsTrue'
    <3>1. /\ waiting' # {} => waiting # {}
          /\ UNCHANGED <<activation, session, queue>>
          /\ informed' = IF Head(queue).status = "OK" THEN session ELSE informed
      BY <1>9 DEF ConfirmJoin, rtc
    <3>2. queue # << >> => Head(queue) = queue[1]
      BY DEF QueueType
    <3> QED BY <3>1, <3>2
  <2> QED BY <2>1, <2>2, <2>3
<1>10. CASE ConfirmsDone
  <2>1. QueueType'
    BY <1>10 DEF ConfirmsDone, sketch, counters, bounds, QueueType
  <2>2. (StateTypes /\ WaitsOrdered /\ OkDisciplined /\ FlightQueued /\ Granted /\ WaitsTrue)'
    BY <1>10 DEF ConfirmsDone, sketch, counters, bounds
  <2> QED BY <2>1, <2>2
<1>11. CASE ExchangeDone
  <2>1. QueueType'
    BY <1>11 DEF ExchangeDone, sketch, counters, bounds, QueueType
  <2>2. (StateTypes /\ WaitsOrdered /\ OkDisciplined /\ FlightQueued /\ Granted /\ WaitsTrue)'
    BY <1>11 DEF ExchangeDone, sketch, counters, bounds
  <2> QED BY <2>1, <2>2
<1>12. CASE TransmissionEnds \/ WindowEnds
  <2>1. QueueType'
    BY <1>12 DEF TransmissionEnds, WindowEnds, RadioReports, rtc, sketch, counters, bounds, QueueType
  <2>2. /\ UNCHANGED <<up, joinType, activation, session, devNonce, queue, macFlags, macState, task,
                        handleLeft, joining, waiting, informed>>
        /\ air # "quiet" /\ air' = "quiet" /\ (activation # "NONE" => granted' = granted)
        /\ event' = "ACCEPT" => granted' = devNonce
        /\ event' # "none"
    BY <1>12 DEF TransmissionEnds, WindowEnds, RadioReports, rtc, sketch
  <2>3. task \notin {"accepted", "check"} \/ ~Ordered
    BY <2>2
  <2>4. OkDisciplined'
    BY <2>2
  <2>5. FlightQueued' /\ StateTypes'
    BY <2>2
  <2>6. Granted'
    BY <2>2
  <2>7. WaitsOrdered' /\ WaitsTrue'
    BY <2>2
  <2> QED BY <2>1, <2>4, <2>5, <2>6, <2>7
<1>13. CASE UNCHANGED vars
  <2>1. QueueType'
    BY <1>13 DEF vars, rtc, loraTask, sketch, counters, bounds, QueueType
  <2>2. (StateTypes /\ WaitsOrdered /\ OkDisciplined /\ FlightQueued /\ Granted /\ WaitsTrue)'
    BY <1>13 DEF vars, rtc, loraTask, sketch, counters, bounds
  <2> QED BY <2>1, <2>2
<1>14. CASE Setup
  <2>1. waiting' = {} /\ joining' = {} /\ event' = "none" /\ task' = "wait" /\ air' = "quiet"
    BY <1>14 DEF Setup, loraTask, sketch
  <2>2. activation = "NONE" => queue' = << >>
    BY <1>14 DEF Setup, StartsAfresh
  <2>3. activation # "NONE" => queue' = queue /\ activation' # "NONE"
    BY <1>14 DEF Setup, StartsAfresh
  <2>4. << >> \in Seq(ConfirmQueue!Entry) /\ Len(<< >>) = 0
    OBVIOUS
  <2>5. QueueType'
    BY <2>2, <2>3, <2>4 DEF QueueType
  <2>6. handleLeft' = handleLeft /\ macState' = macState
    BY <1>14 DEF Setup, loraTask
  <2>7. OkDisciplined'
    BY <2>1, <2>2, <2>3, <2>4
  <2> QED BY <2>1, <2>5, <2>6, <2>7
<1>15. CASE CheckDone
  <2>1. /\ "MlmeReq" \in macFlags /\ queue # << >>
        => task' = "confirms" /\ handleLeft' = Len(queue)
    BY <1>15 DEF CheckDone, HandleMcpsRequest, HandleMlmeRequest, JoinActive, AfterRxAbort
  <2>2. QueueType' /\ Len(queue) \in Nat /\ (queue # << >> => Len(queue) > 0)
    BY <1>15 DEF CheckDone, QueueType
  <2>8. macState' \subseteq {"TX_RUNNING", "RX_ABORT"} /\ task' \in {"wait", "confirms", "done"}
    BY <1>15 DEF CheckDone, HandleMcpsRequest, HandleMlmeRequest, JoinActive, AfterRxAbort
  <2>9. handleLeft' \in Nat /\ (waiting' = waiting) /\ event' = event /\ granted' = granted
    BY <1>15, <2>2 DEF CheckDone, sketch
  <2>10. StateTypes' /\ Granted'
    BY <1>15, <2>8, <2>9 DEF CheckDone
  <2>11. WaitsOrdered'
    BY <1>15, <2>9 DEF CheckDone
  <2>12. FlightQueued'
    BY <1>15, <2>8 DEF CheckDone
  <2>3. (StateTypes /\ WaitsOrdered /\ FlightQueued /\ Granted)'
    BY <2>10, <2>11, <2>12
  <2>4. /\ task = "check" /\ queue' = queue
        /\ UNCHANGED <<up, activation, session, granted, waiting, informed, joining>>
    BY <1>15 DEF CheckDone, sketch
  <2>5. Disciplined => \A i \in 1..Len(queue) : queue[i].status = "OK" =>
            /\ i = 1 /\ queue[1].ready /\ activation # "NONE" /\ session = granted
            /\ "MlmeReq" \in macFlags /\ queue # << >>
    BY <2>4, <2>2
  <2>6. OkDisciplined'
    BY <2>1, <2>2, <2>4, <2>5
  <2>7. WaitsTrue'
    <3>1. CASE activation = "NONE" \/ session = informed \/ waiting = {}
      BY <2>4, <3>1
    <3>2. CASE activation # "NONE" /\ session # informed /\ waiting # {}
      <4>1. queue # << >> /\ queue[1].status = "OK"
        BY <3>2
      <4>2. "MlmeReq" \in macFlags
        BY <3>2, <4>1, <2>2, <2>5
      <4> QED BY <4>1, <4>2, <2>1, <2>4
    <3> QED BY <3>1, <3>2
  <2> QED BY <2>2, <2>3, <2>6, <2>7
<1>16. CASE ProcessFirstWindowFailed \/ ProcessFailure
  <2>1. PICK s \in Statuses : s # "OK" /\ AnswerAll(s)
    BY <1>16 DEF ProcessFirstWindowFailed, ProcessFailure, Statuses
  <2>2. /\ QueueType' /\ Len(queue') = Len(queue) /\ Len(queue) \in Nat
        /\ \A i \in 1..Len(queue) : queue'[i].status # "OK"
        /\ queue' = << >> <=> queue = << >>
    BY <2>1, AnsweredAll DEF QueueType
  <2>3. task = "wait" /\ event # "none" /\ event' = "none" /\ task' \in {"wait", "check"}
    BY <1>16 DEF ProcessFirstWindowFailed, ProcessFailure, Handles
  <2>4. StateTypes'
    BY <1>16, <2>3 DEF ProcessFirstWindowFailed, ProcessFailure, Handles, sketch, counters, bounds
  <2>6. WaitsOrdered'
    BY <1>16, <2>3 DEF ProcessFirstWindowFailed, ProcessFailure, Handles, sketch, counters, bounds
  <2>5. (OkDisciplined /\ FlightQueued /\ Granted /\ WaitsTrue)'
    BY <1>16, <2>2, <2>3 DEF ProcessFirstWindowFailed, ProcessFailure, Handles, sketch, counters, bounds
  <2> QED BY <2>2, <2>4, <2>5, <2>6
<1>17. CASE HandleBadAccept
  <2>1. /\ QueueType' /\ Len(queue') = Len(queue) /\ Len(queue) \in Nat
        /\ \A i \in 1..Len(queue) : queue'[i].status = "OK" => queue[i].status = "OK" /\ i # 1
        /\ queue' = << >> <=> queue = << >>
    <3>1. CASE queue = << >>
      BY <1>17, <3>1 DEF HandleBadAccept, AnswerJoin, QueueType
    <3>2. CASE queue # << >>
      <4>1. AnswerJoin("JOIN_FAIL") /\ "JOIN_FAIL" \in Statuses
        BY <1>17 DEF HandleBadAccept, BadAcceptStatus, Statuses
      <4> QED BY <4>1, <3>2, AnsweredHead DEF QueueType
    <3> QED BY <3>1, <3>2
  <2>2. task = "wait" /\ event # "none" /\ event' = "none" /\ task' = "check"
    BY <1>17 DEF HandleBadAccept, Handles
  <2>3. (StateTypes /\ WaitsOrdered /\ OkDisciplined /\ FlightQueued /\ Granted /\ WaitsTrue)'
    BY <1>17, <2>1, <2>2 DEF HandleBadAccept, Handles, sketch, counters, bounds
  <2> QED BY <2>1, <2>3
<1>18. CASE Activate
  <2>1. up /\ activation = "NONE" /\ InFlight /\ queue # << >> /\ "MlmeReq" \in macFlags
    BY <1>18 DEF Activate
  <2>2. /\ QueueType' /\ Len(queue') = Len(queue) /\ Len(queue) \in Nat
        /\ queue'[1].status = "OK" /\ queue'[1].ready
        /\ \A i \in 2..Len(queue) : queue'[i] = queue[i]
        /\ queue' # << >>
    <3>1. AnswerJoin("OK") /\ "OK" \in Statuses
      BY <1>18 DEF Activate, Statuses
    <3> QED BY <2>1, <3>1, AnsweredHead DEF QueueType
  <2>3. OkDisciplined'
    BY <1>18, <2>1, <2>2 DEF Activate, Keys
  <2>4. (StateTypes /\ WaitsOrdered /\ FlightQueued /\ Granted /\ WaitsTrue)'
    BY <1>18, <2>1, <2>2 DEF Activate, Keys, sketch, counters, bounds
  <2> QED BY <2>2, <2>3, <2>4
<1>19. ASSUME NEW t \in Tasks, JoinRequest(t) PROVE TruthInv'
  <2>1. up /\ joinType = "OTAA" /\ Ordered /\ joining # {} /\ task \notin {"confirms", "done"}
    BY <1>19 DEF JoinRequest, Requesting
  <2>2. /\ air = "quiet" /\ event = "none" /\ task \notin {"accepted", "check"}
        /\ task' = task /\ event' = event /\ granted' = granted /\ handleLeft' = handleLeft
        /\ up' /\ activation' = "NONE"
    BY <1>19, <2>1 DEF JoinRequest, Busy, loraTask
  <2>3. \A i \in 1..Len(queue) :
            queue[i].status = "OK" => i = 1 /\ queue[1].ready /\ task = "callback"
    BY <2>1, <2>2
  <2>4. up' /\ joinType' = "OTAA" /\ Ordered'
    BY <2>2
  <2>5. macState' \subseteq {"TX_RUNNING", "RX_ABORT"}
    BY <1>19 DEF JoinRequest
  <2>6. CASE ConfirmQueue!Accept(devNonce', "JOIN_FAIL", FALSE) /\ "MlmeReq" \in macFlags'
    <3>1. /\ QueueType' /\ Len(queue') = Len(queue) + 1 /\ Len(queue) \in Nat
          /\ \A i \in 1..Len(queue) : queue'[i] = queue[i]
          /\ queue'[Len(queue) + 1].status = "JOIN_FAIL" /\ ~queue'[Len(queue) + 1].ready
      BY <2>6, AcceptedLast DEF QueueType
    <3>2. \A i \in 1..Len(queue') :
              queue'[i].status = "OK" => i = 1 /\ queue'[1].ready /\ task = "callback"
      BY <3>1, <2>3
    <3>3. Queued'
      <4>1. Len(queue) + 1 \in 1..Len(queue') /\ queue' # << >>
        BY <3>1
      <4> QED BY <3>1, <4>1, <2>6
    <3> QED BY <3>1, <3>2, <3>3, <2>2, <2>4, <2>5
  <2>7. CASE queue' = queue /\ air' = air
    <3>1. QueueType'
      BY <2>7 DEF QueueType
    <3>2. OkDisciplined'
      BY <2>2, <2>3, <2>7
    <3> QED BY <3>1, <3>2, <2>2, <2>4, <2>5, <2>7
  <2> QED BY <1>19, <2>6, <2>7 DEF JoinRequest
<1>20. CASE CallbackReturns
  <2>1. /\ QueueType' /\ Len(queue') = Len(queue) - 1 /\ Len(queue) \in Nat \ {0}
        /\ queue[1].ready
        /\ \A i \in 1..(Len(queue) - 1) : queue'[i] = queue[i + 1]
    <3>1. ConfirmQueue!Confirm
      BY <1>20 DEF CallbackReturns
    <3>2. QueueType
      OBVIOUS
    <3>3. Len(queue) \in Nat
      BY <3>2 DEF QueueType
    <3> HIDE DEF StateTypes, WaitsOrdered, OkDisciplined, FlightQueued, Granted, WaitsTrue,
                 Types, Modes
    <3> QED BY <3>1, <3>2, <3>3, ConfirmedHead
  <2>2. OkDisciplined'
    <3>1. Disciplined' => Disciplined
      BY <1>20 DEF CallbackReturns, sketch
    <3>2. Disciplined => \A i \in 1..Len(queue) : queue[i].status = "OK" => i = 1
      OBVIOUS
    <3>3. \A i \in 1..Len(queue') : i + 1 \in 1..Len(queue) /\ queue'[i] = queue[i + 1] /\ i + 1 # 1
      BY <2>1
    <3>4. Disciplined => \A i \in 1..Len(queue') : queue'[i].status # "OK"
      BY <3>2, <3>3
    <3> QED BY <3>1, <3>4
  <2>3. FlightQueued'
    <3>1. SUFFICES ASSUME InFlight PROVE Queued'
      BY <1>20 DEF CallbackReturns
    <3>2. PICK i \in 1..Len(queue) : ~queue[i].ready
      BY <1>20, <3>1 DEF CallbackReturns
    <3>3. i - 1 \in 1..Len(queue') /\ ~queue'[i - 1].ready
      <4>1. i # 1 /\ i \in 1..Len(queue)
        BY <2>1, <3>2
      <4>2. i - 1 \in 1..(Len(queue) - 1) /\ (i - 1) + 1 = i /\ Len(queue') = Len(queue) - 1
        BY <2>1, <4>1
      <4>3. queue'[i - 1] = queue[(i - 1) + 1]
        BY <2>1, <4>2
      <4> QED BY <3>2, <4>2, <4>3
    <3>4. queue' # << >>
      BY <2>1, <3>3 DEF QueueType
    <3> QED BY <1>20, <3>1, <3>3, <3>4 DEF CallbackReturns
  <2>4. handleLeft' \in Nat
    BY <1>20 DEF CallbackReturns
  <2>5. (StateTypes /\ WaitsOrdered /\ Granted /\ WaitsTrue)'
    BY <1>20, <2>4 DEF CallbackReturns, sketch, counters, bounds
  <2> QED BY <2>1, <2>2, <2>3, <2>5
<1>21. CASE DeferConfirm
  <2>1. /\ QueueType' /\ Len(queue') = Len(queue) /\ Len(queue) \in Nat \ {0}
        /\ ~queue[1].ready /\ queue'[Len(queue)] = queue[1]
        /\ \A i \in 1..(Len(queue) - 1) : queue'[i] = queue[i + 1]
    <3>1. ConfirmQueue!Defer
      BY <1>21 DEF DeferConfirm
    <3>2. QueueType
      OBVIOUS
    <3>3. Len(queue) \in Nat
      BY <3>2 DEF QueueType
    <3> HIDE DEF StateTypes, WaitsOrdered, OkDisciplined, FlightQueued, Granted, WaitsTrue,
                 Types, Modes
    <3> QED BY <3>1, <3>2, <3>3, DeferredHead
  <2>2. Disciplined => \A i \in 1..Len(queue) : queue[i].status # "OK"
    BY <2>1
  <2>3. OkDisciplined'
    <3>1. Disciplined' => Disciplined
      BY <1>21 DEF DeferConfirm, sketch
    <3>2. (\A i \in 1..Len(queue) : queue[i].status # "OK")
          => \A i \in 1..Len(queue') : queue'[i].status # "OK"
      <4> SUFFICES ASSUME \A i \in 1..Len(queue) : queue[i].status # "OK",
                          NEW i \in 1..Len(queue')
                   PROVE  queue'[i].status # "OK"
        OBVIOUS
      <4>1. CASE i = Len(queue)
        BY <2>1, <4>1
      <4>2. CASE i \in 1..(Len(queue) - 1)
        BY <2>1, <4>2
      <4> QED BY <2>1, <4>1, <4>2
    <3> QED BY <2>2, <3>1, <3>2
  <2>4. queue' # << >> /\ Len(queue) \in 1..Len(queue') /\ ~queue'[Len(queue)].ready
    BY <2>1 DEF QueueType
  <2>5. handleLeft' \in Nat
    BY <1>21 DEF DeferConfirm
  <2>6. (StateTypes /\ WaitsOrdered /\ FlightQueued /\ Granted /\ WaitsTrue)'
    BY <1>21, <2>1, <2>2, <2>4, <2>5 DEF DeferConfirm, sketch, counters, bounds
  <2> QED BY <2>1, <2>3, <2>6
<1> QED
  BY <1>1, <1>2, <1>3, <1>4, <1>5, <1>6, <1>7, <1>8, <1>9, <1>10, <1>11, <1>12, <1>13, <1>14,
     <1>15, <1>16, <1>17, <1>18, <1>19, <1>20, <1>21 DEF Next, Requests, LoRaTask, Radio

LEMMA TruthInit == Init => TruthInv
<1> SUFFICES ASSUME Init PROVE TruthInv
  OBVIOUS
<1>1. QueueType /\ Len(queue) = 0
  BY DEF Init, QueueType
<1>2. waiting = {} /\ handleLeft = 0 /\ macState = {} /\ event = "none" /\ task = "wait" /\ ~up
  BY DEF Init
<1>3. StateTypes /\ WaitsOrdered /\ FlightQueued /\ Granted /\ WaitsTrue
  BY <1>2 DEF StateTypes, WaitsOrdered, FlightQueued, Granted, WaitsTrue, InFlight
<1>4. OkDisciplined
  BY <1>2 DEF OkDisciplined, Disciplined
<1> QED BY <1>1, <1>3, <1>4 DEF TruthInv

(* The walk through the queue never outruns it.                            *)
WalkBounded == task \in {"confirms", "callback"} => handleLeft <= Len(queue)

LEMMA WalkNext == KeyInv /\ TruthInv /\ WalkBounded /\ [Next]_vars => WalkBounded'
<1> SUFFICES ASSUME KeyInv, TruthInv, WalkBounded, [Next]_vars PROVE WalkBounded'
  OBVIOUS
<1>1. QueueType /\ Len(queue) \in Nat /\ handleLeft \in Nat
  BY DEF TruthInv, QueueType, StateTypes
<1>2. CASE CheckDone
  BY <1>1, <1>2 DEF CheckDone, WalkBounded
<1>3. CASE CallbackReturns
  <2>1. Len(queue') = Len(queue) - 1
    BY <1>1, <1>3, ConfirmedHead DEF CallbackReturns
  <2> QED BY <1>1, <1>3, <2>1 DEF CallbackReturns, WalkBounded
<1>4. CASE DeferConfirm
  <2>1. Len(queue') = Len(queue)
    BY <1>1, <1>4, DeferredHead DEF DeferConfirm
  <2> QED BY <1>1, <1>4, <2>1 DEF DeferConfirm, WalkBounded
<1>5. ASSUME NEW t \in Tasks, JoinRequest(t) PROVE WalkBounded'
  <2>1. task' = task /\ handleLeft' = handleLeft
    BY <1>5 DEF JoinRequest, loraTask
  <2>2. CASE ConfirmQueue!Accept(devNonce', "JOIN_FAIL", FALSE)
    <3>2. devNonce' \in Nat
      <4>1. devNonce' = devNonce + 1 \/ devNonce' = devNonce
        BY <1>5 DEF JoinRequest
      <4> QED BY <4>1 DEF KeyInv, Types
    <3>1. Len(queue') = Len(queue) + 1
      BY <1>1, <2>2, <3>2, AcceptedLast
    <3> QED BY <1>1, <2>1, <3>1 DEF WalkBounded
  <2>3. CASE queue' = queue
    BY <2>1, <2>3 DEF WalkBounded
  <2> QED BY <1>5, <2>2, <2>3 DEF JoinRequest
<1>6. CASE task' \notin {"confirms", "callback"}
  BY <1>6 DEF WalkBounded
<1>7. CASE queue' = queue /\ handleLeft' = handleLeft /\ task \in {"confirms", "callback"}
  BY <1>7 DEF WalkBounded
<1>8. CASE Setup
  BY <1>6, <1>8 DEF Setup, loraTask, KeyInv, Modes, Off
<1> QED
  BY <1>2, <1>3, <1>4, <1>5, <1>6, <1>7, <1>8 DEF Next, PowerLoss, Restart, Join, DeepSleep,
     Uplink, Requests, JoinRefused, LoRaTask, ProcessRadioTxDone, ProcessFirstWindowFailed,
     ProcessFailure, HandleJoinAccept, Activate, HandleBadAccept, ProcessFrame, PrepareRxDoneAbort,
     Handles, ConfirmJoin, ConfirmsDone, ExchangeDone, Radio, TransmissionEnds, WindowEnds,
     RadioReports, rtc, loraTask, vars

(* TruthInv and WalkBounded hold in every reachable state.                 *)
THEOREM AnswersTracked == Spec => [](KeyInv /\ TruthInv /\ WalkBounded)
<1>1. Init => KeyInv /\ TruthInv /\ WalkBounded
  BY KeyInvInit, TruthInit DEF Init, WalkBounded
<1>2. KeyInv /\ TruthInv /\ WalkBounded /\ [Next]_vars => (KeyInv /\ TruthInv /\ WalkBounded)'
  BY KeyInvNext, TruthNext, WalkNext
<1> QED BY <1>1, <1>2, PTL DEF Spec

(* Of a request made since the last start the sketch is told success only  *)
(* with the keys the server has, and failure only off the network or when  *)
(* it knows of the session (ProcessRadioRxDone, LoRaMacConfirmQueue.c and  *)
(* OnJoinRequest), for any number of calls of join from either task, any   *)
(* frames heard, uplinks, sleeps and losses of power, and a queue of any   *)
(* length.                                                                 *)
THEOREM AnswersAlwaysTruthful == Spec => AnswersTruthful
<1> DEFINE Truthful ==
      ConfirmJoin /\ Head(queue).request \in waiting
          => IF Head(queue).status = "OK" THEN activation # "NONE" /\ session = granted
             ELSE activation = "NONE" \/ session = informed
<1>1. KeyInv /\ TruthInv /\ WalkBounded /\ [Next]_vars => [Truthful]_vars
  <2> SUFFICES ASSUME TruthInv, WalkBounded, ConfirmJoin, Head(queue).request \in waiting
               PROVE  Truthful
    BY DEF Truthful
  <2>1. task = "confirms" /\ handleLeft > 0 /\ waiting # {}
    BY DEF ConfirmJoin
  <2>2. queue # << >>
    BY <2>1 DEF WalkBounded, TruthInv, StateTypes
  <2>3. Head(queue) = queue[1] /\ 1 \in 1..Len(queue)
    BY <2>2 DEF TruthInv, QueueType
  <2>4. CASE queue[1].status = "OK"
    <3>1. Disciplined
      BY <2>1 DEF TruthInv, WaitsOrdered, Disciplined
    <3>2. activation # "NONE" /\ session = granted
      BY <2>1, <2>3, <2>4, <3>1 DEF TruthInv, OkDisciplined, OneOk, OkAtHead
    <3> QED BY <2>3, <2>4, <3>2
  <2>5. CASE queue[1].status # "OK"
    <3>1. activation = "NONE" \/ session = informed
      BY <2>1, <2>5 DEF TruthInv, WaitsTrue, ToldNext
    <3> QED BY <2>3, <2>5, <3>1
  <2> QED BY <2>4, <2>5
<1> QED BY <1>1, AnswersTracked, PTL DEF Spec, AnswersTruthful, Truthful
=============================================================================
