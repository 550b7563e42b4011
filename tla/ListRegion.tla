----------------------------- MODULE ListRegion -----------------------------
(***************************************************************************)
(* The channels of a region that starts with a few default ones, to which  *)
(* the network adds others: the part of Region<name>.c that EU868, EU433,  *)
(* CN779, RU864, IN865, KR920 and AS923 share.  nvm is what the region     *)
(* keeps of RegionNvmDataGroup2_t: the channels and the mask of those      *)
(* enabled; nothing changes the default mask.                              *)
(***************************************************************************)
EXTENDS RegionPhy

CONSTANTS
    DefaultChannels,        \* <name>_LC1 and so on, from 0
    MaxNbChannels,          \* <name>_MAX_NB_CHANNELS
    TxDrs,                  \* <name>_TX_MIN_DATARATE to <name>_TX_MAX_DATARATE
    RxDrs,                  \* those a RXParamSetupReq may name
    MaxRx1DrOffset,         \* <name>_MAX_RX1_DR_OFFSET
    VerifyRfFreq(_),
    BandOf(_)               \* the band of a frequency

NoChannel == [frequency |-> 0, rx1Frequency |-> 0, minDr |-> 0, maxDr |-> 0, band |-> 0]
DefaultIds == DOMAIN DefaultChannels
Blank == [channels |-> [id \in 0..(MaxNbChannels - 1) |-> NoChannel], mask |-> {}]

(* Mutant: a new session keeps where window 1 was moved to.                *)
InitDefaultsKeepsRx1(type, nvm) ==
    CASE type = "DEFAULTS" ->
            [channels |-> [id \in DOMAIN nvm.channels |->
                               IF id \in DefaultIds THEN DefaultChannels[id]
                               ELSE nvm.channels[id]],
             mask |-> DefaultIds]
      [] type = "RESET_TO_DEFAULT_CHANNELS" -> [nvm EXCEPT !.mask = DefaultIds]
      [] type = "ACTIVATE_DEFAULT_CHANNELS" -> [nvm EXCEPT !.mask = @ \cup DefaultIds]

InitDefaults(type, nvm) ==
    CASE type = "DEFAULTS" ->
            [channels |-> [id \in DOMAIN nvm.channels |->
                               IF id \in DefaultIds THEN DefaultChannels[id]
                               ELSE nvm.channels[id]],
             mask |-> DefaultIds]
      [] type = "RESET_TO_DEFAULT_CHANNELS" ->
            [channels |-> [id \in DOMAIN nvm.channels |->
                               IF id \in DefaultIds
                               THEN [nvm.channels[id] EXCEPT !.rx1Frequency = 0]
                               ELSE nvm.channels[id]],
             mask |-> DefaultIds]
      [] type = "ACTIVATE_DEFAULT_CHANNELS" -> [nvm EXCEPT !.mask = @ \cup DefaultIds]

(* A channel's uplink frequency, and where its window 1 listens.           *)
Frequency(nvm, id) == nvm.channels[id].frequency
Rx1Frequency(nvm, id) ==
    IF nvm.channels[id].rx1Frequency # 0 THEN nvm.channels[id].rx1Frequency
    ELSE nvm.channels[id].frequency

-----------------------------------------------------------------------------
ChannelAddStatus(id, new) ==
    LET drInvalid == ~(new.minDr \in TxDrs /\ new.maxDr \in TxDrs /\ new.minDr <= new.maxDr)
        freqInvalid == ~VerifyRfFreq(new.frequency)
    IN  CASE id \in DefaultIds -> "FREQ_AND_DR_INVALID"
          [] id >= MaxNbChannels -> "PARAMETER_INVALID"
          [] OTHER -> CASE drInvalid /\ freqInvalid -> "FREQ_AND_DR_INVALID"
                        [] drInvalid /\ ~freqInvalid -> "DATARATE_INVALID"
                        [] ~drInvalid /\ freqInvalid -> "FREQUENCY_INVALID"
                        [] OTHER -> "OK"

ChannelAdd(nvm, id, new) ==
    IF ChannelAddStatus(id, new) # "OK" THEN nvm
    ELSE [channels |-> [nvm.channels EXCEPT ![id] = [new EXCEPT !.band = BandOf(new.frequency)]],
          mask |-> nvm.mask \cup {id}]

CanRemove(id) == id \notin DefaultIds /\ id < MaxNbChannels
ChannelsRemove(nvm, id) ==
    IF ~CanRemove(id) THEN nvm
    ELSE [channels |-> [nvm.channels EXCEPT ![id] = NoChannel], mask |-> nvm.mask \ {id}]

(* The answer, and what is left of the channels.                           *)
NewChannelReq(nvm, id, new) ==
    IF new.frequency = 0
    THEN [answer |-> IF CanRemove(id) THEN "accepted" ELSE "refused",
          nvm |-> ChannelsRemove(nvm, id)]
    ELSE [answer |-> IF ChannelAddStatus(id, new) = "OK" THEN "accepted" ELSE "refused",
          nvm |-> ChannelAdd(nvm, id, new)]

(* Mutant: only the channel is checked.                                    *)
DlChannelReqAnyFrequency(nvm, id, rx1Frequency) ==
    IF nvm.channels[id].frequency # 0
    THEN [answer |-> "accepted", nvm |-> [nvm EXCEPT !.channels[id].rx1Frequency = rx1Frequency]]
    ELSE [answer |-> "refused", nvm |-> nvm]

DlChannelReq(nvm, id, rx1Frequency) ==
    IF VerifyRfFreq(rx1Frequency) /\ nvm.channels[id].frequency # 0
    THEN [answer |-> "accepted", nvm |-> [nvm EXCEPT !.channels[id].rx1Frequency = rx1Frequency]]
    ELSE [answer |-> "refused", nvm |-> nvm]

RxParamSetupReq(frequency, datarate, drOffset) ==
    IF VerifyRfFreq(frequency) /\ datarate \in RxDrs /\ drOffset \in 0..MaxRx1DrOffset
    THEN "accepted" ELSE "refused"

(* The five frequencies of a CFList of type 0 follow the default channels; *)
(* one that ChannelAdd refuses leaves what was there, and every channel    *)
(* without one is removed.                                                 *)
Listed(cfList) ==
    [id \in {Cardinality(DefaultIds) + i : i \in 0..4} |->
        [NoChannel EXCEPT !.frequency = cfList.frequencies[id - Cardinality(DefaultIds) + 1],
                          !.maxDr = 5]]

ApplyCFList(nvm, cfList) ==
    LET listed == Listed(cfList)
        named == {id \in DOMAIN listed \cap DOMAIN nvm.channels : listed[id].frequency # 0}
        added == {id \in named : ChannelAddStatus(id, listed[id]) = "OK"}
        removed == DOMAIN nvm.channels \ (DefaultIds \cup named)
    IN  IF cfList.type # 0 THEN nvm
        ELSE [channels |-> [id \in DOMAIN nvm.channels |->
                                CASE id \in added -> [listed[id] EXCEPT
                                                        !.band = BandOf(listed[id].frequency)]
                                  [] id \in removed -> NoChannel
                                  [] OTHER -> nvm.channels[id]],
              mask |-> (nvm.mask \cup added) \ removed]

(* The channels of which NextChannel draws one: those enabled that have    *)
(* the data rate, before a join only default ones.  Which of them the duty *)
(* cycle holds back DutyCycle says, how the mask comes back ChannelPlan.   *)
NextChannel(nvm, joined, datarate) ==
    {id \in nvm.mask : /\ nvm.channels[id].frequency # 0
                       /\ datarate \in nvm.channels[id].minDr..nvm.channels[id].maxDr
                       /\ joined \/ id \in DefaultIds}
=============================================================================
