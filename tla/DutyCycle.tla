----------------------------- MODULE DutyCycle ------------------------------
(***************************************************************************)
(* Duty cycle limitation of a joined node (DutyCycleOn): every band earns  *)
(* one time credit per millisecond, up to the observation period, and      *)
(* pays for a transmission its time on air times the band's duty cycle;    *)
(* the network may impose an aggregated time off on top.  ScheduleTx asks  *)
(* both before a frame is sent, at once for a request of the application,  *)
(* later, by the TxDelayed timer, for a repetition.  The requests are      *)
(* unconfirmed ones; what an exchange is otherwise made of is in LoRaMac.  *)
(*                                                                         *)
(* An observer opens a window at any time and adds up what the bands have  *)
(* been on the air in it.                                                  *)
(***************************************************************************)
EXTENDS Integers, FiniteSetsExt

CONSTANTS
    Bands,         \* the region's bands
    DCycle,        \* Band_t.DCycle: 100 for 1 %
    AirTimes,      \* times on air of the frames a node sends, in ms
    Usable,        \* the bands with a channel for the data rate of a frame
    Period,        \* DUTY_CYCLE_TIME_PERIOD
    Modulus,       \* 2^32: how far the millisecond clock counts
    AggregatedDCycles,   \* what a DutyCycleReq may ask for: 2^0 to 2^15
    MaxNow,        \* bound: the clock does not come round in a run
    MaxSleeps      \* bound: deep sleeps

ASSUME BandAssumption == DCycle \in [Bands -> Nat \ {0}]
ASSUME FrameAssumption == AirTimes \subseteq Nat \ {0} /\ Usable \in [AirTimes -> SUBSET Bands]
ASSUME TimeAssumption == Period \in Nat /\ Modulus \in Nat /\ MaxNow \in 1..(Modulus - 1)
ASSUME AggregatedAssumption == AggregatedDCycles \subseteq Nat \ {0}
ASSUME SleepAssumption == MaxSleeps \in Nat

VARIABLES
    now,                 \* millis()
    timeCredits, lastBandUpdateTime,    \* Band_t, by band
    aggregatedDCycle, aggregatedTimeOff, lastTxDoneTime, txTimeOnAir,
    mac,                 \* "idle", "delayed", "sending", "windows", "done", "lost"
    frame,               \* time on air of the frame that waits; 0: none
    band,                \* of MacCtx.Channel
    due,                 \* end of the frame on the air, expiry of TxDelayedTimer; 0: none
    elapsed, spent,      \* the observer's window, and what the bands spent in it
    lastAir,             \* time on air of the last transmission that was done
    sleeps

bandVars == <<timeCredits, lastBandUpdateTime>>
aggregatedVars == <<aggregatedDCycle, aggregatedTimeOff, lastTxDoneTime, txTimeOnAir>>
frameVars == <<mac, frame, band, due>>
observerVars == <<elapsed, spent, lastAir>>
vars == <<now, bandVars, aggregatedVars, frameVars, observerVars, sleeps>>

-----------------------------------------------------------------------------
TIMERTIME_T_MAX == Modulus - 1

Smaller(a, b) == IF a <= b THEN a ELSE b

(* TimerGetElapsedTime, in unsigned arithmetic.                            *)
ElapsedTime(past) == (now - past) % Modulus

CreditCosts(b, air) == air * DCycle[b]

(* UpdateTimeCredits: all credits at the first use, else those earned.     *)
UpdatedCreditsUnlimited(b) ==
    IF lastBandUpdateTime[b] = 0 THEN Period
    ELSE (timeCredits[b] + ElapsedTime(lastBandUpdateTime[b])) % Modulus
UpdatedCredits(b) ==
    IF lastBandUpdateTime[b] = 0 THEN Period
    ELSE Smaller(Period, (timeCredits[b] + ElapsedTime(lastBandUpdateTime[b])) % Modulus)

ReadyUnweighted(b, air) == UpdatedCredits(b) > air
Ready(b, air) == UpdatedCredits(b) > CreditCosts(b, air)

(* RegionCommonUpdateBandTimeOff: the time until the next band is ready.   *)
MinTimeToWait(air) ==
    LET waiting == {b \in Bands : ~Ready(b, air) /\ Period > CreditCosts(b, air)}
    IN  IF waiting = {} THEN TIMERTIME_T_MAX
        ELSE Min({CreditCosts(b, air) - UpdatedCredits(b) : b \in waiting})

(* RegionCommonSetBandTxDone: what a band has left after a transmission.   *)
LeftUnweighted(b, air) == IF timeCredits[b] > air THEN timeCredits[b] - air ELSE 0
Left(b, air) ==
    IF timeCredits[b] > CreditCosts(b, air) THEN timeCredits[b] - CreditCosts(b, air) ELSE 0

(* CalculateBackOff, timeOff being AggregatedTimeOff when it is called.    *)
BackOff(timeOff) ==
    IF timeOff = 0 THEN txTimeOnAir * aggregatedDCycle - txTimeOnAir ELSE timeOff

(* RegionCommonIdentifyChannels: whether the aggregated time off is over.  *)
AggregatedOverBeforeBackOff(timeOff) ==
    lastTxDoneTime = 0 \/ timeOff <= ElapsedTime(lastTxDoneTime)
AggregatedOver(timeOff) == lastTxDoneTime = 0 \/ BackOff(timeOff) <= ElapsedTime(lastTxDoneTime)

-----------------------------------------------------------------------------
(* A node activated by personalisation, its bands never used.              *)
Init ==
    /\ now = 1
    /\ timeCredits = [b \in Bands |-> 0]
    /\ lastBandUpdateTime = [b \in Bands |-> 0]
    /\ aggregatedDCycle = 1
    /\ aggregatedTimeOff = 0
    /\ lastTxDoneTime = 0
    /\ txTimeOnAir = 0
    /\ mac = "idle"
    /\ frame = 0
    /\ band \in Bands
    /\ due = 0
    /\ elapsed = 0
    /\ spent = [b \in Bands |-> 0]
    /\ lastAir = 0
    /\ sleeps = 0

(* The observer watches until the first deep sleep.                        *)
SpentWith(b, credits) == IF sleeps = 0 THEN [spent EXCEPT ![b] = @ + credits] ELSE spent

(* SendFrameOnChannel on a channel of band b.                              *)
SendOn(b, air) ==
    /\ mac' = "sending"
    /\ frame' = 0
    /\ band' = b
    /\ due' = now + air
    /\ txTimeOnAir' = air
    /\ spent' = SpentWith(b, CreditCosts(b, air))

(* What ScheduleTx(allowDelayedTx) makes of a restricted frame: the caller *)
(* is refused, or the timer is set for the time to wait.  When the          *)
(* time is 0 a frame that may be delayed has neither timer nor error.      *)
Restricted(air, wait, allowDelayedTx) ==
    /\ \/ ~allowDelayedTx /\ mac' = "idle" /\ frame' = 0 /\ due' = 0
       \/ allowDelayedTx /\ wait # 0 /\ mac' = "delayed" /\ frame' = air /\ due' = now + wait
       \/ allowDelayedTx /\ wait = 0 /\ mac' = "lost" /\ frame' = air /\ due' = 0
    /\ UNCHANGED <<band, txTimeOnAir, spent>>

(* ScheduleTx for a frame of the given time on air.                        *)
ScheduleTx(air, timeOff, allowDelayedTx) ==
    /\ \/ /\ ~AggregatedOver(timeOff)
          /\ aggregatedTimeOff' = BackOff(timeOff)
          /\ Restricted(air, BackOff(timeOff) - ElapsedTime(lastTxDoneTime), allowDelayedTx)
          /\ UNCHANGED bandVars
       \/ /\ AggregatedOver(timeOff)
          /\ aggregatedTimeOff' = 0
          /\ timeCredits' = [b \in Bands |-> UpdatedCredits(b)]
          /\ lastBandUpdateTime' = [b \in Bands |-> now]
          /\ \/ \E b \in Usable[air] : Ready(b, air) /\ SendOn(b, air)
             \/ /\ Usable[air] # {}
                /\ \A b \in Usable[air] : ~Ready(b, air)
                /\ Restricted(air, MinTimeToWait(air), allowDelayedTx)
             \/ /\ Usable[air] = {}
                /\ mac' = "idle"
                /\ frame' = 0
                /\ due' = 0
                /\ UNCHANGED <<band, txTimeOnAir, spent>>
    /\ UNCHANGED <<now, aggregatedDCycle, lastTxDoneTime, elapsed, lastAir, sleeps>>

(* LoRaMacMcpsRequest and Send, for a frame of the application.            *)
Send(air) ==
    /\ mac = "idle"
    /\ ScheduleTx(air, IF aggregatedDCycle = 1 THEN 0 ELSE aggregatedTimeOff, FALSE)

(* LoRaMacHandleMcpsRequest sends the frame again, at the data rate a      *)
(* LinkAdrReq may have changed, or stops.                                  *)
Repeat(air) ==
    /\ mac \in {"windows", "done"}
    /\ ScheduleTx(air, aggregatedTimeOff, TRUE)

StopRetransmission ==
    /\ mac \in {"windows", "done"}
    /\ mac' = "idle"
    /\ due' = 0
    /\ UNCHANGED <<now, bandVars, aggregatedVars, frame, band, observerVars, sleeps>>

OnTxDelayedTimerEvent ==
    /\ mac = "delayed"
    /\ now >= due
    /\ ScheduleTx(frame, aggregatedTimeOff, TRUE)

(* ProcessRadioTxDone.                                                     *)
ProcessRadioTxDone ==
    /\ mac = "sending"
    /\ now >= due
    /\ mac' = "windows"
    /\ due' = 0
    /\ lastTxDoneTime' = now
    /\ lastAir' = txTimeOnAir
    /\ timeCredits' = [timeCredits EXCEPT ![band] = Left(band, txTimeOnAir)]
    /\ UNCHANGED <<now, lastBandUpdateTime, aggregatedDCycle, aggregatedTimeOff, txTimeOnAir,
                   frame, band, elapsed, spent, sleeps>>

(* ProcessRadioTxTimeout: the frame ends, its band is not charged.         *)
ProcessRadioTxTimeout ==
    /\ mac = "sending"
    /\ mac' = "done"
    /\ due' = 0
    /\ spent' = SpentWith(band, -CreditCosts(band, txTimeOnAir))
    /\ UNCHANGED <<now, bandVars, aggregatedVars, frame, band, elapsed, lastAir, sleeps>>

(* ProcessMacCommands, for a DutyCycleReq in a receive window.             *)
DutyCycleReq(dCycle) ==
    /\ mac = "windows"
    /\ aggregatedDCycle' = dCycle
    /\ UNCHANGED <<now, bandVars, aggregatedTimeOff, lastTxDoneTime, txTimeOnAir, frameVars,
                   observerVars, sleeps>>

(* startDeepSleep and the wake-up: the clock starts again, the MAC is      *)
(* idle, its NVM data in RTC memory is as it was.  Not while a frame is on *)
(* the air.                                                                *)
DeepSleep ==
    /\ mac # "sending"
    /\ sleeps < MaxSleeps
    /\ sleeps' = sleeps + 1
    /\ now' = 1
    /\ mac' = "idle"
    /\ frame' = 0
    /\ due' = 0
    /\ elapsed' = 0
    /\ spent' = [b \in Bands |-> 0]
    /\ UNCHANGED <<bandVars, aggregatedVars, band, lastAir>>

Tick ==
    /\ now < MaxNow
    /\ now' = now + 1
    /\ elapsed' = IF sleeps = 0 THEN elapsed + 1 ELSE 0
    /\ UNCHANGED <<bandVars, aggregatedVars, frameVars, spent, lastAir, sleeps>>

WindowOpens ==
    /\ sleeps = 0
    /\ elapsed' = 0
    /\ spent' = [b \in Bands |-> 0]
    /\ UNCHANGED <<now, bandVars, aggregatedVars, frameVars, lastAir, sleeps>>

Next ==
    \/ \E air \in AirTimes : Send(air) \/ Repeat(air)
    \/ StopRetransmission
    \/ OnTxDelayedTimerEvent
    \/ ProcessRadioTxDone
    \/ ProcessRadioTxTimeout
    \/ \E dCycle \in AggregatedDCycles : DutyCycleReq(dCycle)
    \/ DeepSleep
    \/ Tick
    \/ WindowOpens

Spec == Init /\ [][Next]_vars
-----------------------------------------------------------------------------
(* Every variable has its type; a band never holds more credits than the   *)
(* observation period grants.                                              *)
TypeOK ==
    /\ now \in Nat \ {0}
    /\ timeCredits \in [Bands -> 0..Period]
    /\ lastBandUpdateTime \in [Bands -> Nat]
    /\ aggregatedDCycle \in Nat \ {0}
    /\ aggregatedTimeOff \in Nat /\ lastTxDoneTime \in Nat /\ txTimeOnAir \in Nat
    /\ mac \in {"idle", "delayed", "sending", "windows", "done", "lost"}
    /\ frame \in AirTimes \cup {0} /\ band \in Bands /\ due \in Nat
    /\ elapsed \in Nat /\ spent \in [Bands -> Int]
    /\ lastAir \in Nat /\ sleeps \in Nat

(* The credits are a token bucket: whenever a window opens and however     *)
(* requests, repetitions and delayed frames follow one another, what a     *)
(* band has been on the air in it, weighted by its duty cycle, is at most  *)
(* the period plus the time that passed, not counting frames whose end the *)
(* radio did not report.  Credits are earned from the last update, paid when the *)
(* frame is done, and frames in between must not be paid from them again.  *)
TokenBucket ==
    sleeps = 0 => \A b \in Bands : spent[b] <= Period + elapsed

(* A frame that is sent can be paid in full when it is done: whatever was  *)
(* refused, delayed, repeated or slept through before, the branch of       *)
(* RegionCommonSetBandTxDone that forgives the rest has nothing to forgive.*)
PaidInFull ==
    mac = "sending" => timeCredits[band] >= CreditCosts(band, txTimeOnAir)

(* Until the clock is lost to a deep sleep no frame is sent before the     *)
(* aggregated time off of the last completed one is over, whichever frames *)
(* were refused, delayed or timed out since.                               *)
AggregatedRespected ==
    [][mac # "sending" /\ mac' = "sending" /\ sleeps = 0 /\ lastTxDoneTime # 0
       => now - lastTxDoneTime >= lastAir * (aggregatedDCycle - 1)]_vars

(* ScheduleTx: a frame with repetitions is delayed.  One that is neither   *)
(* on the air nor over has its timer.                                      *)
DelayedNotLost == mac # "lost"
=============================================================================
