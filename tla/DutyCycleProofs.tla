-------------------------- MODULE DutyCycleProofs ---------------------------
(***************************************************************************)
(* What the duty cycle limitation guarantees for any bands, periods, times *)
(* on air and widths of the clock.  The argument needs of the unsigned     *)
(* times only that a remainder is no larger than what it is taken of.      *)
(***************************************************************************)
EXTENDS DutyCycle, WellFoundedInduction, TLAPS

(* A remainder is natural, and no larger than a natural number it is of.   *)
LEMMA Remainder ==
    ASSUME NEW x \in Int, NEW m \in Nat \ {0}
    PROVE  x % m \in Nat /\ (x >= 0 => x % m <= x)
OBVIOUS

(* The product of a time and a duty cycle is a time.                       *)
LEMMA CostsType ==
    ASSUME NEW b \in Bands, NEW air \in Nat
    PROVE  CreditCosts(b, air) \in Nat
<1>1. DCycle[b] \in Nat BY BandAssumption
<1>2. \A x, y \in Nat : x * y \in Nat OBVIOUS
<1> QED BY <1>1, <1>2 DEF CreditCosts

(* A set of natural numbers that has an element has a smallest one.        *)
LEMMA MinType ==
    ASSUME NEW S \in SUBSET Nat, S # {}
    PROVE  Min(S) \in S
<1>1. PICK x \in S : \A y \in S : ~(<<y, x>> \in OpToRel(<, Nat))
  BY NatLessThanWellFounded, WFMin
<1>2. ASSUME NEW y \in S, y < x
      PROVE  FALSE
  <2>1. <<y, x>> \in Nat \X Nat /\ <<y, x>>[1] < <<y, x>>[2]
    BY <1>2
  <2>2. <<y, x>> \in OpToRel(<, Nat)
    BY <2>1 DEF OpToRel
  <2> QED BY <2>2, <1>1
<1>3. \A y \in S : x <= y
  BY <1>2
<1> QED BY <1>3 DEF Min

(* The times the handlers compute are natural numbers.                     *)
LEMMA ElapsedType ==
    ASSUME NEW past \in Nat, now \in Nat
    PROVE  /\ ElapsedTime(past) \in Nat
           /\ past <= now => ElapsedTime(past) <= now - past
<1>1. now - past \in Int /\ Modulus \in Nat \ {0} BY TimeAssumption
<1>2. (now - past) % Modulus \in Nat /\ (now - past >= 0 => (now - past) % Modulus <= now - past)
  BY <1>1, Remainder
<1> QED BY <1>2 DEF ElapsedTime

(* Credits are updated to what they were and the time since, or less.      *)
LEMMA UpdatedType ==
    ASSUME TypeOK, NEW b \in Bands
    PROVE  /\ UpdatedCredits(b) \in 0..Period
           /\ lastBandUpdateTime[b] # 0 /\ lastBandUpdateTime[b] <= now
              => UpdatedCredits(b) <= timeCredits[b] + (now - lastBandUpdateTime[b])
<1> DEFINE last == lastBandUpdateTime[b]
           earned == timeCredits[b] + ElapsedTime(last)
<1>1. /\ Period \in Nat /\ Modulus \in Nat \ {0} /\ now \in Nat
      /\ last \in Nat /\ timeCredits[b] \in 0..Period
  BY TimeAssumption DEF TypeOK
<1>2. ElapsedTime(last) \in Nat /\ (last <= now => ElapsedTime(last) <= now - last)
  BY <1>1, ElapsedType
<1>3. earned \in Nat BY <1>1, <1>2
<1>4. earned % Modulus \in Nat /\ earned % Modulus <= earned
  BY <1>1, <1>3, Remainder
<1>5. UpdatedCredits(b) = IF last = 0 THEN Period ELSE Smaller(Period, earned % Modulus)
  BY DEF UpdatedCredits
<1> HIDE DEF last, earned
<1>6. UpdatedCredits(b) \in 0..Period
  BY <1>1, <1>4, <1>5 DEF Smaller
<1>7. last # 0 /\ last <= now => UpdatedCredits(b) <= timeCredits[b] + (now - last)
  <2> SUFFICES ASSUME last # 0, last <= now
               PROVE  UpdatedCredits(b) <= timeCredits[b] + (now - last)
    OBVIOUS
  <2>1. earned <= timeCredits[b] + (now - last)
    BY <1>1, <1>2 DEF earned
  <2>2. UpdatedCredits(b) <= earned % Modulus
    BY <1>1, <1>4, <1>5 DEF Smaller
  <2>3. UpdatedCredits(b) \in Int BY <1>6
  <2> QED BY <1>1, <1>3, <1>4, <2>1, <2>2, <2>3
<1> QED BY <1>6, <1>7 DEF last

(* A time times a duty cycle, less that time.                              *)
LEMMA ProductLess ==
    ASSUME NEW t \in Nat, NEW d \in Nat \ {0}
    PROVE  t * d - t \in Nat /\ t * d - t = t * (d - 1)
<1>1. t * d - t = t * (d - 1) OBVIOUS
<1>2. d - 1 \in Nat OBVIOUS
<1>3. \A x, y \in Nat : x * y \in Nat OBVIOUS
<1> QED BY <1>1, <1>2, <1>3

LEMMA BackOffType ==
    ASSUME TypeOK, NEW timeOff \in Nat
    PROVE  BackOff(timeOff) \in Nat
<1>1. txTimeOnAir \in Nat /\ aggregatedDCycle \in Nat \ {0} BY DEF TypeOK
<1>2. txTimeOnAir * aggregatedDCycle - txTimeOnAir \in Nat BY <1>1, ProductLess
<1> QED BY <1>2 DEF BackOff

(* The wait a restricted frame is told is a natural number.                *)
LEMMA WaitType ==
    ASSUME TypeOK, NEW air \in AirTimes
    PROVE  MinTimeToWait(air) \in Nat
<1> DEFINE waiting == {b \in Bands : ~Ready(b, air) /\ Period > CreditCosts(b, air)}
           waits == {CreditCosts(b, air) - UpdatedCredits(b) : b \in waiting}
<1>1. air \in Nat BY FrameAssumption
<1>2. waits \subseteq Nat
  <2> SUFFICES ASSUME NEW b \in waiting
               PROVE  CreditCosts(b, air) - UpdatedCredits(b) \in Nat
    OBVIOUS
  <2>1. b \in Bands /\ ~(UpdatedCredits(b) > CreditCosts(b, air)) BY DEF Ready
  <2>2. UpdatedCredits(b) \in 0..Period /\ Period \in Nat BY <2>1, UpdatedType, TimeAssumption
  <2>3. CreditCosts(b, air) \in Nat BY <1>1, <2>1, CostsType
  <2> QED BY <2>1, <2>2, <2>3
<1>3. MinTimeToWait(air) = IF waiting = {} THEN TIMERTIME_T_MAX ELSE Min(waits)
  BY DEF MinTimeToWait
<1>4. TIMERTIME_T_MAX \in Nat BY TimeAssumption DEF TIMERTIME_T_MAX
<1>5. waiting # {} => waits # {} OBVIOUS
<1> HIDE DEF waiting, waits
<1>6. waits # {} => Min(waits) \in waits BY <1>2, MinType
<1> QED BY <1>2, <1>3, <1>4, <1>5, <1>6

-----------------------------------------------------------------------------
(* A delayed frame is one the application may send.                        *)
FrameWaits == mac = "delayed" => frame \in AirTimes
TypeInv == TypeOK /\ FrameWaits

(* Whatever ScheduleTx makes of a frame, the types stay.                   *)
LEMMA ScheduleType ==
    ASSUME TypeInv, NEW air \in AirTimes, NEW timeOff \in Nat, NEW allowed \in BOOLEAN,
           ScheduleTx(air, timeOff, allowed)
    PROVE  TypeInv'
<1>1. air \in Nat /\ now \in Nat \ {0} /\ TypeOK BY FrameAssumption DEF TypeInv, TypeOK
<1>2. /\ now' = now /\ aggregatedDCycle' = aggregatedDCycle
      /\ lastTxDoneTime' = lastTxDoneTime /\ elapsed' = elapsed
      /\ lastAir' = lastAir /\ sleeps' = sleeps
  BY DEF ScheduleTx
<1>3. ASSUME NEW wait \in Nat, Restricted(air, wait, allowed)
      PROVE  /\ mac' \in {"idle", "delayed", "lost"} /\ due' \in Nat
             /\ frame' \in {0, air} /\ (mac' = "delayed" => frame' = air)
             /\ band' = band /\ txTimeOnAir' = txTimeOnAir /\ spent' = spent
  BY <1>1, <1>3 DEF Restricted
<1>4. CASE /\ ~AggregatedOver(timeOff)
           /\ aggregatedTimeOff' = BackOff(timeOff)
           /\ Restricted(air, BackOff(timeOff) - ElapsedTime(lastTxDoneTime), allowed)
           /\ UNCHANGED bandVars
  <2>1. lastTxDoneTime \in Nat BY <1>1 DEF TypeOK
  <2>2. BackOff(timeOff) \in Nat BY <1>1, BackOffType
  <2>3. ElapsedTime(lastTxDoneTime) \in Nat BY <1>1, <2>1, ElapsedType
  <2>4. BackOff(timeOff) - ElapsedTime(lastTxDoneTime) \in Nat
    BY <1>4, <2>2, <2>3 DEF AggregatedOver
  <2> QED BY <1>1, <1>2, <1>3, <1>4, <2>2, <2>4 DEF TypeInv, TypeOK, FrameWaits, bandVars
<1>5. CASE /\ AggregatedOver(timeOff)
           /\ aggregatedTimeOff' = 0
           /\ timeCredits' = [b \in Bands |-> UpdatedCredits(b)]
           /\ lastBandUpdateTime' = [b \in Bands |-> now]
           /\ \/ \E b \in Usable[air] : Ready(b, air) /\ SendOn(b, air)
              \/ /\ Usable[air] # {}
                 /\ \A b \in Usable[air] : ~Ready(b, air)
                 /\ Restricted(air, MinTimeToWait(air), allowed)
              \/ /\ Usable[air] = {}
                 /\ mac' = "idle"
                 /\ frame' = 0
                 /\ due' = 0
                 /\ UNCHANGED <<band, txTimeOnAir, spent>>
  <2>1. timeCredits' \in [Bands -> 0..Period] /\ lastBandUpdateTime' \in [Bands -> Nat]
    BY <1>1, <1>5, UpdatedType
  <2>2. CASE \E b \in Usable[air] : Ready(b, air) /\ SendOn(b, air)
    <3>1. PICK b \in Usable[air] : SendOn(b, air) BY <2>2
    <3>2. b \in Bands BY FrameAssumption
    <3>3. CreditCosts(b, air) \in Nat BY <1>1, <3>2, CostsType
    <3>4. spent' \in [Bands -> Int]
      BY <1>1, <3>1, <3>2, <3>3 DEF SendOn, SpentWith, TypeOK
    <3> QED BY <1>1, <1>2, <1>5, <2>1, <3>1, <3>2, <3>4 DEF SendOn, TypeInv, TypeOK, FrameWaits
  <2>3. CASE Restricted(air, MinTimeToWait(air), allowed)
    <3>1. MinTimeToWait(air) \in Nat BY <1>1, WaitType
    <3> QED BY <1>1, <1>2, <1>3, <1>5, <2>1, <2>3, <3>1 DEF TypeInv, TypeOK, FrameWaits
  <2>4. CASE /\ mac' = "idle" /\ frame' = 0 /\ due' = 0
             /\ UNCHANGED <<band, txTimeOnAir, spent>>
    BY <1>1, <1>2, <1>5, <2>1, <2>4 DEF TypeInv, TypeOK, FrameWaits
  <2> QED BY <1>5, <2>2, <2>3, <2>4
<1> QED BY <1>4, <1>5 DEF ScheduleTx

(* Every step keeps the types.                                             *)
LEMMA TypeStep ==
    ASSUME TypeInv, [Next]_vars
    PROVE  TypeInv'
<1> USE DEF TypeInv
<1>1. ASSUME NEW air \in AirTimes, Send(air) PROVE TypeInv'
  <2>1. (IF aggregatedDCycle = 1 THEN 0 ELSE aggregatedTimeOff) \in Nat BY DEF TypeOK
  <2> QED BY <1>1, <2>1, ScheduleType DEF Send
<1>2. ASSUME NEW air \in AirTimes, Repeat(air) PROVE TypeInv'
  BY <1>2, ScheduleType DEF Repeat, TypeOK
<1>3. CASE StopRetransmission
  BY <1>3 DEF StopRetransmission, TypeOK, FrameWaits, bandVars, aggregatedVars, observerVars
<1>4. CASE OnTxDelayedTimerEvent
  <2>1. frame \in AirTimes BY <1>4 DEF OnTxDelayedTimerEvent, FrameWaits
  <2>2. aggregatedTimeOff \in Nat BY DEF TypeOK
  <2>3. ScheduleTx(frame, aggregatedTimeOff, TRUE) BY <1>4 DEF OnTxDelayedTimerEvent
  <2> QED BY <2>1, <2>2, <2>3, ScheduleType
<1>5. CASE ProcessRadioTxDone
  <2>1. band \in Bands /\ txTimeOnAir \in Nat /\ timeCredits[band] \in 0..Period BY DEF TypeOK
  <2>2. CreditCosts(band, txTimeOnAir) \in Nat BY <2>1, CostsType
  <2>3. Left(band, txTimeOnAir) \in 0..Period
    BY <2>1, <2>2, TimeAssumption DEF Left
  <2> QED BY <1>5, <2>1, <2>3 DEF ProcessRadioTxDone, TypeOK, FrameWaits
<1>6. CASE ProcessRadioTxTimeout
  <2>1. CreditCosts(band, txTimeOnAir) \in Nat BY CostsType DEF TypeOK
  <2>2. spent' \in [Bands -> Int] BY <1>6, <2>1 DEF ProcessRadioTxTimeout, SpentWith, TypeOK
  <2> QED BY <1>6, <2>2 DEF ProcessRadioTxTimeout, TypeOK, FrameWaits, bandVars, aggregatedVars
<1>7. ASSUME NEW dCycle \in AggregatedDCycles, DutyCycleReq(dCycle) PROVE TypeInv'
  BY <1>7, AggregatedAssumption
     DEF DutyCycleReq, TypeOK, FrameWaits, bandVars, frameVars, observerVars
<1>8. CASE DeepSleep
  BY <1>8 DEF DeepSleep, TypeOK, FrameWaits, bandVars, aggregatedVars
<1>9. CASE Tick
  BY <1>9 DEF Tick, TypeOK, FrameWaits, bandVars, aggregatedVars, frameVars
<1>10. CASE WindowOpens
  BY <1>10 DEF WindowOpens, TypeOK, FrameWaits, bandVars, aggregatedVars, frameVars
<1>11. CASE UNCHANGED vars
  BY <1>11 DEF vars, TypeOK, FrameWaits, bandVars, aggregatedVars, frameVars, observerVars
<1> QED BY <1>1, <1>2, <1>3, <1>4, <1>5, <1>6, <1>7, <1>8, <1>9, <1>10, <1>11 DEF Next

LEMMA TypeInit == Init => TypeInv
BY TimeAssumption DEF Init, TypeInv, TypeOK, FrameWaits

(* For any bands, period and clock every variable keeps its type; no band  *)
(* ever holds more credits than the period grants.                         *)
THEOREM TypeCorrect == Spec => []TypeOK
<1>1. Init => TypeInv BY TypeInit
<1>2. TypeInv /\ [Next]_vars => TypeInv' BY TypeStep
<1>3. TypeInv => TypeOK BY DEF TypeInv
<1> QED BY <1>1, <1>2, <1>3, PTL DEF Spec

-----------------------------------------------------------------------------
(* The credits a band will have when the frame on the air is paid and the  *)
(* time since the last update is credited.                                 *)
Pending(b) == IF mac = "sending" /\ band = b THEN CreditCosts(b, txTimeOnAir) ELSE 0
Earned(b) == timeCredits[b] - Pending(b) + (now - lastBandUpdateTime[b])
Potential(b) == IF lastBandUpdateTime[b] = 0 THEN Period ELSE Smaller(Period, Earned(b))

(* A frame on the air can be paid, its band has been updated, and what a   *)
(* band has spent and may still spend is the period and the time passed.   *)
BucketInv ==
    /\ TypeInv
    /\ PaidInFull
    /\ mac = "sending" => lastBandUpdateTime[band] # 0
    /\ sleeps = 0 => \A b \in Bands : /\ lastBandUpdateTime[b] <= now
                                      /\ Potential(b) + spent[b] <= Period + elapsed

LEMMA BucketTypes ==
    ASSUME TypeInv, NEW b \in Bands
    PROVE  /\ Period \in Nat /\ now \in Nat \ {0} /\ elapsed \in Nat
           /\ timeCredits[b] \in 0..Period /\ lastBandUpdateTime[b] \in Nat
           /\ spent[b] \in Int /\ Pending(b) \in Nat /\ Earned(b) \in Int
           /\ Potential(b) \in Int
<1>1. /\ Period \in Nat /\ now \in Nat \ {0} /\ elapsed \in Nat
      /\ timeCredits[b] \in 0..Period /\ lastBandUpdateTime[b] \in Nat
      /\ spent[b] \in Int /\ txTimeOnAir \in Nat
  BY TimeAssumption DEF TypeInv, TypeOK
<1>2. Pending(b) \in Nat BY <1>1, CostsType DEF Pending
<1>3. Earned(b) \in Int BY <1>1, <1>2 DEF Earned
<1> QED BY <1>1, <1>2, <1>3 DEF Potential, Smaller

(* Neither an update nor the beginning of a frame earns a band anything.   *)
LEMMA ScheduleBucket ==
    ASSUME BucketInv, mac # "sending",
           NEW air \in AirTimes, NEW timeOff \in Nat, NEW allowed \in BOOLEAN,
           ScheduleTx(air, timeOff, allowed)
    PROVE  BucketInv'
<1>1. TypeInv' BY ScheduleType DEF BucketInv
<1>2. now' = now /\ elapsed' = elapsed /\ sleeps' = sleeps BY DEF ScheduleTx
<1>3. TypeInv /\ TypeOK /\ now \in Nat \ {0} BY DEF BucketInv, TypeInv, TypeOK
<1>4. CASE /\ UNCHANGED bandVars
           /\ \E wait \in Int : Restricted(air, wait, allowed)
  <2>1. /\ mac' # "sending" /\ spent' = spent
        /\ timeCredits' = timeCredits /\ lastBandUpdateTime' = lastBandUpdateTime
    BY <1>4 DEF Restricted, bandVars
  <2>2. \A b \in Bands : Potential(b)' = Potential(b)
    BY <1>2, <2>1 DEF Potential, Earned, Pending
  <2> QED BY <1>1, <1>2, <2>1, <2>2 DEF BucketInv, PaidInFull
<1>5. CASE /\ timeCredits' = [b \in Bands |-> UpdatedCredits(b)]
           /\ lastBandUpdateTime' = [b \in Bands |-> now]
           /\ \/ \E b \in Usable[air] : Ready(b, air) /\ SendOn(b, air)
              \/ mac' # "sending" /\ spent' = spent
  <2>1. ASSUME sleeps = 0, NEW b \in Bands
        PROVE  UpdatedCredits(b) \in 0..Period /\ UpdatedCredits(b) <= Potential(b)
    <3>1. /\ UpdatedCredits(b) \in 0..Period
          /\ lastBandUpdateTime[b] # 0
             => UpdatedCredits(b) <= timeCredits[b] + (now - lastBandUpdateTime[b])
      BY <1>3, <2>1, UpdatedType DEF BucketInv
    <3>2. Pending(b) = 0 BY DEF Pending
    <3>3. timeCredits[b] \in Int /\ lastBandUpdateTime[b] \in Int /\ Period \in Nat
      BY <1>3, BucketTypes
    <3> QED BY <1>3, <3>1, <3>2, <3>3 DEF Potential, Earned, Smaller
  <2>2. ASSUME NEW b \in Bands
        PROVE  /\ timeCredits'[b] = UpdatedCredits(b) /\ lastBandUpdateTime'[b] = now
    BY <1>5
  <2>3. CASE mac' # "sending" /\ spent' = spent
    <3>1. ASSUME sleeps = 0, NEW b \in Bands
          PROVE  Potential(b)' + spent'[b] <= Period + elapsed'
      <4>1. Pending(b)' = 0 BY <2>3 DEF Pending
      <4>2. Potential(b)' = UpdatedCredits(b)
        BY <1>2, <1>3, <2>1, <2>2, <3>1, <4>1, TimeAssumption DEF Potential, Earned, Smaller
      <4>3. Potential(b) + spent[b] <= Period + elapsed BY <3>1 DEF BucketInv
      <4> QED BY <1>2, <1>3, <2>1, <2>3, <3>1, <4>2, <4>3, BucketTypes
    <3> QED BY <1>1, <1>2, <1>3, <2>2, <2>3, <3>1 DEF BucketInv, PaidInFull
  <2>4. CASE \E b \in Usable[air] : Ready(b, air) /\ SendOn(b, air)
    <3>1. PICK c \in Usable[air] : Ready(c, air) /\ SendOn(c, air) BY <2>4
    <3>2. c \in Bands /\ air \in Nat BY FrameAssumption
    <3>3. /\ mac' = "sending" /\ band' = c /\ txTimeOnAir' = air
          /\ sleeps = 0 => spent' = [spent EXCEPT ![c] = @ + CreditCosts(c, air)]
      BY <3>1 DEF SendOn, SpentWith
    <3>4. CreditCosts(c, air) \in Nat /\ CreditCosts(c, air) < UpdatedCredits(c)
          /\ UpdatedCredits(c) \in 0..Period
      BY <1>3, <3>1, <3>2, CostsType, UpdatedType DEF Ready
    <3>5. CreditCosts(band', txTimeOnAir') = CreditCosts(c, air) BY <3>3
    <3>6. PaidInFull'
      BY <2>2, <3>2, <3>3, <3>4, TimeAssumption DEF PaidInFull, CreditCosts
    <3>7. ASSUME sleeps = 0, NEW b \in Bands
          PROVE  Potential(b)' + spent'[b] <= Period + elapsed'
      <4>1. Potential(b) + spent[b] <= Period + elapsed BY <3>7 DEF BucketInv
      <4>2. spent \in [Bands -> Int] /\ spent[b] \in Int /\ Potential(b) \in Int
            /\ Period \in Nat /\ elapsed \in Nat
        BY <1>3, BucketTypes DEF TypeOK
      <4>3. UpdatedCredits(b) \in 0..Period /\ UpdatedCredits(b) <= Potential(b)
        BY <2>1, <3>7
      <4>4. CASE b = c
        <5>1. spent'[b] = spent[b] + CreditCosts(c, air) BY <3>3, <3>7, <4>2, <4>4
        <5>2. Pending(b)' = CreditCosts(c, air)
          BY <3>3, <4>4 DEF Pending, CreditCosts
        <5>3. Earned(b)' = UpdatedCredits(b) - CreditCosts(c, air)
          BY <1>2, <1>3, <2>2, <3>4, <4>3, <5>2 DEF Earned
        <5>4. Potential(b)' = UpdatedCredits(b) - CreditCosts(c, air)
          BY <1>3, <2>2, <3>4, <4>2, <4>3, <5>3 DEF Potential, Smaller
        <5> QED BY <1>2, <3>4, <4>1, <4>2, <4>3, <5>1, <5>4
      <4>5. CASE b # c
        <5>1. spent'[b] = spent[b] BY <3>3, <3>7, <4>2, <4>5
        <5>2. Pending(b)' = 0 BY <3>3, <4>5 DEF Pending
        <5>3. Potential(b)' = UpdatedCredits(b)
          BY <1>2, <1>3, <2>2, <4>2, <4>3, <5>2 DEF Potential, Earned, Smaller
        <5> QED BY <1>2, <4>1, <4>2, <4>3, <5>1, <5>3
      <4> QED BY <4>4, <4>5
    <3> QED BY <1>1, <1>2, <1>3, <2>2, <3>2, <3>3, <3>6, <3>7 DEF BucketInv
  <2> QED BY <1>5, <2>3, <2>4
<1>6. \/ UNCHANGED bandVars /\ \E wait \in Int : Restricted(air, wait, allowed)
      \/ /\ timeCredits' = [b \in Bands |-> UpdatedCredits(b)]
         /\ lastBandUpdateTime' = [b \in Bands |-> now]
         /\ \/ \E b \in Usable[air] : Ready(b, air) /\ SendOn(b, air)
            \/ mac' # "sending" /\ spent' = spent
  <2>1. BackOff(timeOff) \in Nat BY <1>3, BackOffType
  <2>2. ElapsedTime(lastTxDoneTime) \in Nat BY <1>3, ElapsedType DEF TypeOK
  <2>3. BackOff(timeOff) - ElapsedTime(lastTxDoneTime) \in Int BY <2>1, <2>2
  <2>4. \A wait : Restricted(air, wait, allowed) => mac' # "sending" /\ spent' = spent
    BY DEF Restricted
  <2> QED BY <2>3, <2>4 DEF ScheduleTx
<1> QED BY <1>4, <1>5, <1>6

(* Every step keeps the balance.                                           *)
LEMMA BucketStep ==
    ASSUME BucketInv, [Next]_vars
    PROVE  BucketInv'
<1> USE DEF BucketInv
<1>1. TypeInv' BY TypeStep
<1>2. ASSUME NEW air \in AirTimes, Send(air) PROVE BucketInv'
  <2>1. (IF aggregatedDCycle = 1 THEN 0 ELSE aggregatedTimeOff) \in Nat BY DEF TypeInv, TypeOK
  <2> QED BY <1>2, <2>1, ScheduleBucket DEF Send
<1>3. ASSUME NEW air \in AirTimes, Repeat(air) PROVE BucketInv'
  BY <1>3, ScheduleBucket DEF Repeat, TypeInv, TypeOK
<1>4. CASE OnTxDelayedTimerEvent
  <2>1. frame \in AirTimes /\ mac # "sending"
    BY <1>4 DEF OnTxDelayedTimerEvent, TypeInv, FrameWaits
  <2>2. aggregatedTimeOff \in Nat BY DEF TypeInv, TypeOK
  <2>3. ScheduleTx(frame, aggregatedTimeOff, TRUE) BY <1>4 DEF OnTxDelayedTimerEvent
  <2> QED BY <2>1, <2>2, <2>3, ScheduleBucket
<1>5. CASE StopRetransmission
  <2>1. \A b \in Bands : Potential(b)' = Potential(b)
    BY <1>5 DEF StopRetransmission, bandVars, Potential, Earned, Pending
  <2> QED BY <1>1, <1>5, <2>1 DEF StopRetransmission, bandVars, observerVars, PaidInFull
<1>6. CASE ProcessRadioTxDone
  <2>1. /\ mac = "sending" /\ mac' = "windows" /\ now' = now /\ sleeps' = sleeps
        /\ elapsed' = elapsed /\ spent' = spent /\ lastBandUpdateTime' = lastBandUpdateTime
        /\ timeCredits' = [timeCredits EXCEPT ![band] = Left(band, txTimeOnAir)]
    BY <1>6 DEF ProcessRadioTxDone
  <2>2. band \in Bands /\ timeCredits \in [Bands -> 0..Period] /\ txTimeOnAir \in Nat
    BY DEF TypeInv, TypeOK
  <2>3. CreditCosts(band, txTimeOnAir) \in Nat BY <2>2, CostsType
  <2>4. Left(band, txTimeOnAir) = timeCredits[band] - CreditCosts(band, txTimeOnAir)
    BY <2>1, <2>2, <2>3, TimeAssumption DEF PaidInFull, Left
  <2>5. ASSUME NEW b \in Bands PROVE Potential(b)' = Potential(b)
    <3>1. Pending(b)' = 0 BY <2>1 DEF Pending
    <3>2. timeCredits'[b] = timeCredits[b] - Pending(b)
      BY <2>1, <2>2, <2>3, <2>4, TimeAssumption DEF Pending
    <3>3. Earned(b)' = Earned(b)
      BY <2>1, <3>1, <3>2, BucketTypes DEF Earned
    <3> QED BY <2>1, <3>3 DEF Potential
  <2> QED BY <1>1, <2>1, <2>5 DEF PaidInFull
<1>7. CASE ProcessRadioTxTimeout
  <2>1. /\ mac = "sending" /\ mac' = "done" /\ now' = now /\ sleeps' = sleeps
        /\ elapsed' = elapsed /\ UNCHANGED <<timeCredits, lastBandUpdateTime, band, txTimeOnAir>>
        /\ sleeps = 0
           => spent' = [spent EXCEPT ![band] = @ + (-CreditCosts(band, txTimeOnAir))]
    BY <1>7 DEF ProcessRadioTxTimeout, SpentWith, bandVars, aggregatedVars
  <2>2. band \in Bands /\ spent \in [Bands -> Int] BY DEF TypeInv, TypeOK
  <2>3. ASSUME NEW b \in Bands, sleeps = 0
        PROVE  Potential(b)' + spent'[b] <= Period + elapsed'
    <3>1. Pending(b)' = 0 /\ spent'[b] = spent[b] - Pending(b)
      BY <2>1, <2>2, <2>3, CostsType DEF Pending, TypeInv, TypeOK
    <3>2. Earned(b)' = Earned(b) + Pending(b)
      BY <2>1, <3>1, BucketTypes DEF Earned
    <3>3. Potential(b)' <= Potential(b) + Pending(b)
      BY <2>1, <3>2, BucketTypes DEF Potential, Smaller
    <3>4. Potential(b) + spent[b] <= Period + elapsed BY <2>3
    <3>5. Potential(b)' \in Int BY <1>1, <2>1, BucketTypes, <3>2 DEF Potential, Smaller
    <3> QED BY <2>1, <3>1, <3>3, <3>4, <3>5, BucketTypes
  <2> QED BY <1>1, <2>1, <2>3 DEF PaidInFull
<1>8. ASSUME NEW dCycle \in AggregatedDCycles, DutyCycleReq(dCycle) PROVE BucketInv'
  <2>1. \A b \in Bands : Potential(b)' = Potential(b)
    BY <1>8 DEF DutyCycleReq, bandVars, frameVars, Potential, Earned, Pending
  <2> QED BY <1>1, <1>8, <2>1 DEF DutyCycleReq, bandVars, frameVars, observerVars, PaidInFull
<1>9. CASE DeepSleep
  <2>1. sleeps' # 0 BY <1>9 DEF DeepSleep, TypeInv, TypeOK
  <2>2. mac' # "sending" BY <1>9 DEF DeepSleep
  <2> QED BY <1>1, <2>1, <2>2 DEF PaidInFull
<1>10. CASE Tick
  <2>1. /\ now' = now + 1 /\ spent' = spent /\ sleeps' = sleeps
        /\ sleeps = 0 => elapsed' = elapsed + 1
        /\ UNCHANGED <<timeCredits, lastBandUpdateTime, mac, band, txTimeOnAir>>
    BY <1>10 DEF Tick, bandVars, aggregatedVars, frameVars
  <2>2. ASSUME NEW b \in Bands, sleeps = 0
        PROVE  /\ lastBandUpdateTime'[b] <= now'
               /\ Potential(b)' + spent'[b] <= Period + elapsed'
    <3>1. Pending(b)' = Pending(b) BY <2>1 DEF Pending, CreditCosts
    <3>2. Earned(b)' = Earned(b) + 1 BY <2>1, <3>1, BucketTypes DEF Earned
    <3>3. Potential(b)' \in Int /\ Potential(b)' <= Potential(b) + 1
      BY <2>1, <3>2, BucketTypes DEF Potential, Smaller
    <3>4. Potential(b) + spent[b] <= Period + elapsed /\ lastBandUpdateTime[b] <= now BY <2>2
    <3> QED BY <2>1, <2>2, <3>3, <3>4, BucketTypes
  <2> QED BY <1>1, <2>1, <2>2 DEF PaidInFull, CreditCosts
<1>11. CASE WindowOpens
  <2>1. /\ elapsed' = 0 /\ spent' = [b \in Bands |-> 0] /\ now' = now
        /\ UNCHANGED <<timeCredits, lastBandUpdateTime, mac, band, txTimeOnAir, sleeps>>
    BY <1>11 DEF WindowOpens, bandVars, aggregatedVars, frameVars
  <2>2. ASSUME NEW b \in Bands PROVE Potential(b)' = Potential(b) /\ Potential(b) <= Period
    BY <2>1, BucketTypes DEF Potential, Earned, Pending, CreditCosts, Smaller
  <2>3. ASSUME NEW b \in Bands PROVE Potential(b)' + spent'[b] <= Period + elapsed'
    BY <2>1, <2>2, BucketTypes
  <2> QED BY <1>1, <2>1, <2>3 DEF PaidInFull, CreditCosts
<1>12. CASE UNCHANGED vars
  <2>1. \A b \in Bands : Potential(b)' = Potential(b)
    BY <1>12 DEF vars, bandVars, aggregatedVars, frameVars, Potential, Earned, Pending, CreditCosts
  <2> QED BY <1>1, <1>12, <2>1
          DEF vars, bandVars, aggregatedVars, frameVars, observerVars, PaidInFull, CreditCosts
<1> QED BY <1>2, <1>3, <1>4, <1>5, <1>6, <1>7, <1>8, <1>9, <1>10, <1>11, <1>12 DEF Next

LEMMA BucketInit == Init => BucketInv
<1> SUFFICES ASSUME Init PROVE BucketInv OBVIOUS
<1>1. TypeInv BY TypeInit
<1>2. mac = "idle" /\ now = 1 /\ elapsed = 0 BY DEF Init
<1>3. ASSUME NEW b \in Bands
      PROVE  /\ lastBandUpdateTime[b] = 0 /\ spent[b] = 0
             /\ Potential(b) = Period /\ Period \in Nat
  BY TimeAssumption DEF Init, Potential
<1> QED BY <1>1, <1>2, <1>3 DEF BucketInv, PaidInFull

LEMMA BucketAlways == Spec => []BucketInv
BY BucketInit, BucketStep, PTL DEF Spec

(* For any bands, period and times on air a frame that is sent can be paid *)
(* in full when it is done, even after a deep sleep.                       *)
THEOREM AlwaysPaidInFull == Spec => []PaidInFull
<1>1. BucketInv => PaidInFull BY DEF BucketInv
<1> QED BY <1>1, BucketAlways, PTL

(* In any window, for any bands, period, times on air and aggregated duty  *)
(* cycle, a band is on the air, by its duty cycle, for no longer than the  *)
(* period and the window's length, unless the clock is lost to a sleep.    *)
THEOREM AlwaysTokenBucket == Spec => []TokenBucket
<1>1. BucketInv => TokenBucket
  <2> SUFFICES ASSUME BucketInv, sleeps = 0, NEW b \in Bands
               PROVE  spent[b] <= Period + elapsed
    BY DEF TokenBucket
  <2>1. Potential(b) + spent[b] <= Period + elapsed /\ lastBandUpdateTime[b] <= now
    BY DEF BucketInv
  <2>2. Pending(b) <= timeCredits[b]
    BY BucketTypes DEF BucketInv, PaidInFull, Pending
  <2>3. Potential(b) >= 0
    BY <2>1, <2>2, BucketTypes DEF BucketInv, Potential, Earned, Smaller
  <2> QED BY <2>1, <2>3, BucketTypes DEF BucketInv
<1> QED BY <1>1, BucketAlways, PTL

-----------------------------------------------------------------------------
(* The time off the last completed frame asks for is over.                 *)
TimeOffOver == now - lastTxDoneTime >= lastAir * (aggregatedDCycle - 1)

(* The stored time off is that of the frame sent last.  That is the last   *)
(* one completed, or else one that was sent when the completed one's time  *)
(* off was over, and so was every one since.                               *)
AggregatedInv ==
    /\ TypeInv
    /\ aggregatedTimeOff # 0
       => aggregatedTimeOff = txTimeOnAir * aggregatedDCycle - txTimeOnAir
    /\ mac \in {"sending", "windows"} => aggregatedTimeOff = 0
    /\ mac = "windows" => txTimeOnAir = lastAir
    /\ sleeps = 0 /\ lastTxDoneTime # 0
       => /\ lastTxDoneTime <= now
          /\ mac = "sending" => TimeOffOver
          /\ txTimeOnAir # lastAir => TimeOffOver

(* A frame is sent only when that time is over.                            *)
LEMMA ScheduleAggregated ==
    ASSUME AggregatedInv, mac # "sending", NEW air \in AirTimes,
           NEW timeOff \in {0, aggregatedTimeOff}, NEW allowed \in BOOLEAN,
           ScheduleTx(air, timeOff, allowed)
    PROVE  /\ AggregatedInv'
           /\ mac' = "sending" /\ sleeps = 0 /\ lastTxDoneTime # 0 => TimeOffOver
<1>1. /\ TypeOK /\ now \in Nat /\ lastTxDoneTime \in Nat /\ lastAir \in Nat
      /\ txTimeOnAir \in Nat /\ aggregatedDCycle \in Nat \ {0} /\ timeOff \in Nat
  BY DEF AggregatedInv, TypeInv, TypeOK
<1>2. TypeInv' BY <1>1, ScheduleType DEF AggregatedInv
<1>3. BackOff(timeOff) = txTimeOnAir * aggregatedDCycle - txTimeOnAir
  BY DEF BackOff, AggregatedInv
<1>4. /\ now' = now /\ aggregatedDCycle' = aggregatedDCycle
      /\ lastTxDoneTime' = lastTxDoneTime /\ lastAir' = lastAir /\ sleeps' = sleeps
      /\ TimeOffOver' = TimeOffOver
  BY DEF ScheduleTx, TimeOffOver
<1>5. \A wait : Restricted(air, wait, allowed)
                => mac' \notin {"sending", "windows"} /\ txTimeOnAir' = txTimeOnAir
  BY DEF Restricted
<1>6. CASE /\ aggregatedTimeOff' = BackOff(timeOff)
           /\ Restricted(air, BackOff(timeOff) - ElapsedTime(lastTxDoneTime), allowed)
  BY <1>2, <1>3, <1>4, <1>5, <1>6 DEF AggregatedInv
<1>7. CASE AggregatedOver(timeOff) /\ aggregatedTimeOff' = 0
  <2>1. ASSUME sleeps = 0, lastTxDoneTime # 0
        PROVE  TimeOffOver
    <3>1. CASE txTimeOnAir = lastAir
      <4>1. ElapsedTime(lastTxDoneTime) \in Nat
            /\ ElapsedTime(lastTxDoneTime) <= now - lastTxDoneTime
        BY <1>1, <2>1, ElapsedType DEF AggregatedInv
      <4>2. BackOff(timeOff) <= ElapsedTime(lastTxDoneTime)
        BY <1>7, <2>1 DEF AggregatedOver
      <4>3. BackOff(timeOff) \in Nat /\ BackOff(timeOff) = lastAir * (aggregatedDCycle - 1)
        BY <1>1, <1>3, <3>1, ProductLess
      <4> QED BY <1>1, <4>1, <4>2, <4>3 DEF TimeOffOver
    <3>2. CASE txTimeOnAir # lastAir
      BY <2>1, <3>2 DEF AggregatedInv
    <3> QED BY <3>1, <3>2
  <2>2. mac' # "windows"
    BY <1>5, <1>7 DEF ScheduleTx, SendOn
  <2> QED BY <1>2, <1>4, <1>7, <2>1, <2>2 DEF AggregatedInv
<1> QED BY <1>6, <1>7 DEF ScheduleTx

LEMMA AggregatedStep ==
    ASSUME AggregatedInv, [Next]_vars
    PROVE  /\ AggregatedInv'
           /\ mac # "sending" /\ mac' = "sending" /\ sleeps = 0 /\ lastTxDoneTime # 0
              => TimeOffOver
<1> DEFINE Goal == /\ AggregatedInv'
                   /\ mac # "sending" /\ mac' = "sending" /\ sleeps = 0 /\ lastTxDoneTime # 0
                      => TimeOffOver
<1> USE DEF AggregatedInv
<1>1. TypeInv' BY TypeStep
<1>2. ASSUME NEW air \in AirTimes, Send(air) PROVE Goal
  <2>1. (IF aggregatedDCycle = 1 THEN 0 ELSE aggregatedTimeOff) \in {0, aggregatedTimeOff}
    OBVIOUS
  <2> QED BY <1>2, <2>1, ScheduleAggregated DEF Send
<1>3. ASSUME NEW air \in AirTimes, Repeat(air) PROVE Goal
  BY <1>3, ScheduleAggregated DEF Repeat
<1>4. CASE OnTxDelayedTimerEvent
  <2>1. frame \in AirTimes /\ mac # "sending"
    BY <1>4 DEF OnTxDelayedTimerEvent, TypeInv, FrameWaits
  <2>2. ScheduleTx(frame, aggregatedTimeOff, TRUE) BY <1>4 DEF OnTxDelayedTimerEvent
  <2> QED BY <2>1, <2>2, ScheduleAggregated
<1>5. CASE StopRetransmission
  BY <1>1, <1>5 DEF StopRetransmission, aggregatedVars, observerVars, TimeOffOver
<1>6. CASE ProcessRadioTxDone
  BY <1>1, <1>6 DEF ProcessRadioTxDone, TimeOffOver, TypeInv, TypeOK
<1>7. CASE ProcessRadioTxTimeout
  BY <1>1, <1>7 DEF ProcessRadioTxTimeout, aggregatedVars, TimeOffOver
<1>8. ASSUME NEW dCycle \in AggregatedDCycles, DutyCycleReq(dCycle) PROVE Goal
  BY <1>1, <1>8 DEF DutyCycleReq, frameVars, observerVars, TimeOffOver
<1>9. CASE DeepSleep
  BY <1>1, <1>9 DEF DeepSleep, aggregatedVars, TypeInv, TypeOK
<1>10. CASE Tick
  <2>1. /\ now' = now + 1
        /\ UNCHANGED <<aggregatedDCycle, aggregatedTimeOff, lastTxDoneTime, txTimeOnAir,
                       mac, lastAir, sleeps>>
    BY <1>10 DEF Tick, aggregatedVars, frameVars
  <2>2. now \in Nat /\ lastTxDoneTime \in Nat BY DEF TypeInv, TypeOK
  <2>3. lastAir * (aggregatedDCycle - 1) \in Int
    BY ProductLess DEF TypeInv, TypeOK
  <2>4. TimeOffOver => TimeOffOver' BY <2>1, <2>2, <2>3 DEF TimeOffOver
  <2> QED BY <1>1, <2>1, <2>2, <2>4
<1>11. CASE WindowOpens
  BY <1>1, <1>11 DEF WindowOpens, aggregatedVars, frameVars, TimeOffOver
<1>12. CASE UNCHANGED vars
  BY <1>1, <1>12 DEF vars, aggregatedVars, frameVars, observerVars, TimeOffOver
<1> QED BY <1>2, <1>3, <1>4, <1>5, <1>6, <1>7, <1>8, <1>9, <1>10, <1>11, <1>12 DEF Next

(* For any bands, times on air and duty cycles the network asks for, no    *)
(* frame is sent before the time off of the last completed one is over,    *)
(* unless the clock is lost to a sleep.                                    *)
THEOREM AggregatedAlwaysRespected == Spec => AggregatedRespected
<1>1. Init => AggregatedInv BY TypeInit DEF Init, AggregatedInv
<1>2. AggregatedInv /\ [Next]_vars => AggregatedInv' BY AggregatedStep
<1>3. AggregatedInv /\ [Next]_vars
      => [mac # "sending" /\ mac' = "sending" /\ sleeps = 0 /\ lastTxDoneTime # 0
          => now - lastTxDoneTime >= lastAir * (aggregatedDCycle - 1)]_vars
  BY AggregatedStep DEF TimeOffOver
<1> QED BY <1>1, <1>2, <1>3, PTL DEF Spec, AggregatedRespected
=============================================================================
