--------------------------- MODULE MCChannelPlan ----------------------------
(* Small regions of each kind: a list plan of two default channels, one of *)
(* a CFList and one more, of which the highest data rate is on no default  *)
(* channel; with listen-before-talk and a dwell time; a hop plan of one    *)
(* bank of three channels and one of two banks; a mask plan of two banks.  *)
EXTENDS ChannelPlan

Plans == {"list", "hop", "mask"}

SmallList ==
    [List(2, 4, 3, 1) EXCEPT !.cfList = 1, !.channelDrs = 0..2]
SmallDwell ==
    [SmallList EXCEPT !.joinDr = 1, !.defaultDr = 1, !.dwell = 1, !.dwellDr = 1,
                      !.txParamSetup = TRUE, !.lbt = TRUE]
SmallHop ==
    [US915 EXCEPT !.banks = 1, !.bankSize = 3, !.channelDrs = 0..1, !.wideDr = 2, !.maxDr = 2,
                  !.minTxPower = 1]
TwoBanks == [SmallHop EXCEPT !.banks = 2, !.bankSize = 1]
SmallMask ==
    [CN470 EXCEPT !.banks = 2, !.bankSize = 2, !.channelDrs = 0..2, !.maxDr = 2, !.minTxPower = 1]

(* What is assumed of a region holds of the ten of the code.               *)
ASSUME RegionsOfTheCode ==
    \A r \in {AS923, AU915, CN470, CN779, EU433, EU868, IN865, KR920, RU864, US915} : WellFormed(r)

MCRegions == {SmallList, SmallDwell, SmallHop, TwoBanks, SmallMask}

Request(ctrl, bits, dr, power, nbRep) ==
    [ctrl |-> ctrl, bits |-> bits, dr |-> dr, power |-> power, nbRep |-> nbRep]
MCLinkAdrBlocks ==
    [plan \in Plans |->
        CASE plan = "list" -> {<<Request(0, {0, 2}, 2, 1, 2)>>, <<Request(6, {}, 3, 0, 0)>>,
                               <<Request(0, {2, 3}, 0, 0, 1), Request(0, {3}, 3, 1, 1)>>}
          [] plan = "hop" -> {<<Request(7, {0}, 0, 0, 1), Request(0, {0, 1}, 1, 1, 2)>>,
                              <<Request(5, {1}, 2, 1, 0)>>, <<Request(6, {0}, 0, 2, 1)>>}
          [] plan = "mask" -> {<<Request(6, {}, 2, 1, 2)>>, <<Request(0, {0, 1}, 1, 0, 0)>>,
                               <<Request(7, {}, 0, 0, 0)>>}]
MCAppMasks ==
    [plan \in Plans |->
        CASE plan = "list" -> {{}, {1}} [] plan = "hop" -> {{0, 1, 3}, {0, 1, 2}}
          [] plan = "mask" -> {{}}]
MCCFLists ==
    [plan \in Plans |->
        CASE plan = "list" -> {{}, {0}} [] plan = "hop" -> {{0, 1, 2}} [] plan = "mask" -> {{1}}]
MCNewChannels ==
    [plan \in Plans |->
        IF plan = "list"
        THEN {[channel |-> 2, drs |-> {}], [channel |-> 3, drs |-> {3}], [channel |-> 1, drs |-> 0..1]}
        ELSE {[channel |-> 0, drs |-> 0..1]}]
=============================================================================
