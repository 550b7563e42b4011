---------------------------- MODULE RegionParams ----------------------------
(***************************************************************************)
(* What Region<name>.h fixes for each region, as far as the channel plan   *)
(* and the data rate depend on it, and the helpers of the regions' files   *)
(* that read nothing but these values.  The regions come in three plans:   *)
(*   "list"  default channels, to which the network adds others;           *)
(*   "hop"   a fixed band of 125 kHz channels in banks with one 500 kHz    *)
(*           channel each, of which every one is used before any is again; *)
(*   "mask"  a fixed band of channels.                                     *)
(* Channels are numbered from 0, data rates are the indices DR_0 to DR_7.  *)
(***************************************************************************)
EXTENDS Integers

(* A list plan of which only the sizes are given: DR_0 to DR_5 on the      *)
(* default channels, a join request at DR_0, no dwell time.                *)
List(defaults, channels, maxDr, minTxPower) ==
    [plan |-> "list", defaults |-> defaults, cfList |-> 5, channels |-> channels,
     maxDr |-> maxDr, channelDrs |-> 0..5, unsupported |-> {}, defaultDr |-> 0, joinDr |-> 0,
     dwell |-> 0, dwellDr |-> 0, txParamSetup |-> FALSE, minTxPower |-> minTxPower,
     lbt |-> FALSE]

EU868 == List(3, 16, 7, 7)
EU433 == List(3, 16, 7, 5)
CN779 == List(3, 16, 7, 5)
RU864 == List(2, 8, 7, 7)
IN865 == [List(3, 16, 7, 10) EXCEPT !.unsupported = {6}]
KR920 == [List(3, 16, 5, 7) EXCEPT !.lbt = TRUE]
AS923 ==
    [List(2, 16, 7, 7) EXCEPT !.defaultDr = 2, !.joinDr = 2, !.dwell = 1, !.dwellDr = 2,
                              !.txParamSetup = TRUE]

(* A hop plan; wideDr is the data rate of its 500 kHz channels, at least   *)
(* minNarrow 125 kHz channels the application may select.                  *)
US915 ==
    [plan |-> "hop", banks |-> 8, bankSize |-> 8, channelDrs |-> 0..3, wideDr |-> 4,
     maxDr |-> 4, unsupported |-> {}, defaultDr |-> 0, joinDr |-> 0, dwell |-> 0, dwellDr |-> 0,
     txParamSetup |-> FALSE, minTxPower |-> 14, lbt |-> FALSE, minNarrow |-> 2]
AU915 ==
    [plan |-> "hop", banks |-> 8, bankSize |-> 8, channelDrs |-> 0..5, wideDr |-> 6,
     maxDr |-> 6, unsupported |-> {}, defaultDr |-> 2, joinDr |-> 2, dwell |-> 1, dwellDr |-> 2,
     txParamSetup |-> TRUE, minTxPower |-> 14, lbt |-> FALSE, minNarrow |-> 0]

CN470 ==
    [plan |-> "mask", banks |-> 12, bankSize |-> 8, channelDrs |-> 0..5, maxDr |-> 5,
     unsupported |-> {}, defaultDr |-> 0, joinDr |-> 0, dwell |-> 0, dwellDr |-> 0,
     txParamSetup |-> FALSE, minTxPower |-> 7, lbt |-> FALSE]

-----------------------------------------------------------------------------
(* The channels of a region.                                               *)
NbNarrow(r) == r.banks * r.bankSize
Narrow(r) == IF r.plan = "list" THEN {} ELSE 0..(NbNarrow(r) - 1)
Wide(r) == IF r.plan = "hop" THEN NbNarrow(r)..(NbNarrow(r) + r.banks - 1) ELSE {}
ChannelIds(r) == IF r.plan = "list" THEN 0..(r.channels - 1) ELSE Narrow(r) \cup Wide(r)

(* Those INIT_TYPE_DEFAULTS enables; a list plan may join on no others.    *)
DefaultChannels(r) == IF r.plan = "list" THEN 0..(r.defaults - 1) ELSE ChannelIds(r)

(* ChannelParams_t.DrRange of INIT_TYPE_DEFAULTS, as the set of its data   *)
(* rates; the empty set is a channel without a frequency.                  *)
DefaultDrs(r, c) ==
    IF c \in Wide(r) THEN {r.wideDr}
    ELSE IF c \in DefaultChannels(r) THEN r.channelDrs
    ELSE {}

(* A bank of eight channels and, in a hop plan, its 500 kHz channel.       *)
Bank(r, b) == (b * r.bankSize)..(b * r.bankSize + r.bankSize - 1)
WideOf(r, b) == IF r.plan = "hop" THEN {NbNarrow(r) + b} ELSE {}
SubBand(r, b) == Bank(r, b) \cup WideOf(r, b)

(* Channel of bit b of ChMask w: a mask spans two banks.                   *)
ChannelOfBit(r, w, b) == w * 2 * r.bankSize + b

(* PHY_MIN_TX_DR.                                                          *)
MinTxDr(r, uplinkDwellTime) == IF uplinkDwellTime = 1 THEN r.dwellDr ELSE 0

(* Region<name>Verify of a PHY_TX_DR.                                      *)
VerifyTxDr(r, uplinkDwellTime, dr) ==
    dr \in MinTxDr(r, uplinkDwellTime)..r.maxDr /\ dr \notin r.unsupported

(* The data rates the region has.                                          *)
Datarates(r) == 0..r.maxDr
=============================================================================
