---------------------------- MODULE FixedRegion -----------------------------
(***************************************************************************)
(* The channels of a region with a fixed band: the part of Region<name>.c  *)
(* that US915, AU915 and CN470 share.  The table of channels is written    *)
(* once and never again, so nvm is the mask of those enabled; the masks    *)
(* kept for hopping are modelled in ChannelPlan.                           *)
(***************************************************************************)
EXTENDS RegionPhy

CONSTANTS
    ChannelIds,             \* 0 to <name>_MAX_NB_CHANNELS - 1
    ChannelFrequency(_),    \* what InitDefaults writes into the table
    ChannelDrs(_),
    FirstRx1Channel,        \* <name>_FIRST_RX1_CHANNEL
    LastRx1Channel,         \* <name>_LAST_RX1_CHANNEL
    StepwidthRx1Channel,    \* <name>_STEPWIDTH_RX1_CHANNEL
    NbRx1Channels,
    RxDrs,                  \* those a RXParamSetupReq may name
    MaxRx1DrOffset          \* <name>_MAX_RX1_DR_OFFSET

Blank == [mask |-> {}]

(* The three types of initialisation leave the same mask.                  *)
InitDefaults(type, nvm) == [nvm EXCEPT !.mask = ChannelIds]

Frequency(nvm, id) == ChannelFrequency(id)
Rx1Frequency(nvm, id) == FirstRx1Channel + (id % NbRx1Channels) * StepwidthRx1Channel

(* Only a frequency window 1 may have is one to receive on.                *)
VerifyRxFreq(freq) ==
    /\ freq \in FirstRx1Channel..LastRx1Channel
    /\ (freq - FirstRx1Channel) % StepwidthRx1Channel = 0

RxParamSetupReq(frequency, datarate, drOffset) ==
    IF VerifyRxFreq(frequency) /\ datarate \in RxDrs /\ drOffset \in 0..MaxRx1DrOffset
    THEN "accepted" ELSE "refused"

(* Neither is answered.                                                    *)
NewChannelReq(nvm, id, new) == [answer |-> "none", nvm |-> nvm]
DlChannelReq(nvm, id, rx1Frequency) == [answer |-> "none", nvm |-> nvm]

(* A CFList of type 1 is a mask; bits of channels there are not are cut.   *)
ApplyCFList(nvm, cfList) ==
    IF cfList.type # 1 THEN nvm ELSE [nvm EXCEPT !.mask = cfList.mask \cap ChannelIds]

(* The channels of which NextChannel draws one; how they are hopped over   *)
(* is modelled in ChannelPlan.                                             *)
NextChannel(nvm, joined, datarate) == {id \in nvm.mask : datarate \in ChannelDrs(id)}
=============================================================================
