---------------------------- MODULE RegionAU915 -----------------------------
(***************************************************************************)
(* RegionAU915.c over the tables and limits of RegionAU915.h.              *)
(* Australia, 915 to 928 MHz: 64 channels of 125 kHz, 8 of 500 kHz, and a  *)
(* dwell time limit below DR_2 on uplinks.                                 *)
(***************************************************************************)
EXTENDS RegionPhy

Datarates == Table(<<12, 11, 10, 9, 8, 7, 8, 0, 12, 11, 10, 9, 8, 7, 0, 0>>)
Bandwidths == Table(<<125000, 125000, 125000, 125000, 125000, 125000, 500000, 0,
                      500000, 500000, 500000, 500000, 500000, 500000, 0, 0>>)
MaxPayloadOfDatarate == Table(<<51, 51, 51, 115, 242, 242, 242, 0, 53, 129, 242, 242, 242, 242>>)
MaxPayloadOfDatarateDwell1 ==
    Table(<<0, 0, 11, 53, 125, 242, 242, 0, 53, 129, 242, 242, 242, 242>>)
DatarateOffsets ==
    Table(<<Table(<<8, 8, 8, 8, 8, 8>>), Table(<<9, 8, 8, 8, 8, 8>>),
            Table(<<10, 9, 8, 8, 8, 8>>), Table(<<11, 10, 9, 8, 8, 8>>),
            Table(<<12, 11, 10, 9, 8, 8>>), Table(<<13, 12, 11, 10, 9, 8>>),
            Table(<<13, 13, 12, 11, 10, 9>>)>>)

ChannelIds == 0..71
ChannelFrequency(id) ==
    IF id < 64 THEN 915200000 + id * 200000 ELSE 915900000 + (id - 64) * 1600000
ChannelDrs(id) == IF id < 64 THEN 0..5 ELSE {6}
FirstRx1Channel == 923300000
LastRx1Channel == 927500000
StepwidthRx1Channel == 600000
NbRx1Channels == 8
TxDrs == 0..6
RxDrs == 8..13
MaxRx1DrOffset == 5

Plan == INSTANCE FixedRegion
VerifyRfFreq(freq) == Plan!VerifyRxFreq(freq) /\ InRange(freq, 915200000, 927800000)
MaxEirpAt(frequency, maxEirp) == maxEirp
MaxRxDr == 13
LossCompensation == 0

Phy == INSTANCE RegionRadio
    WITH Frequency <- Plan!Frequency, Rx1Frequency <- Plan!Rx1Frequency

-----------------------------------------------------------------------------
GetTimeOnAir(dr, pktLen) == Phy!GetTimeOnAir(dr, pktLen)

(* GetPhyParam: what depends on the data rate and the dwell times, and     *)
(* what a region is initialised with.                                      *)
GetPhyParam(datarate, uplinkDwellTime, downlinkDwellTime) ==
    [minRxDr |-> IF downlinkDwellTime = 0 THEN 8 ELSE 2,
     minTxDr |-> IF uplinkDwellTime = 0 THEN 0 ELSE 2,
     maxPayload |-> IF uplinkDwellTime = 0 THEN MaxPayloadOfDatarate[datarate]
                    ELSE MaxPayloadOfDatarateDwell1[datarate]]
PhyDefaults ==
    [datarate |-> 2, maxRxWindow |-> 3000, rx1DrOffset |-> 0,
     rx2Frequency |-> 923300000, rx2Datarate |-> 8,
     uplinkDwellTime |-> 1, downlinkDwellTime |-> 0, maxEirp |-> 3000, antennaGain |-> 215]

InitDefaults(type, nvm) == Plan!InitDefaults(type, nvm)
NextChannel(nvm, joined, datarate) == Plan!NextChannel(nvm, joined, datarate)

Verify(attribute, value, uplinkDwellTime, downlinkDwellTime) ==
    CASE attribute = "FREQUENCY" -> VerifyRfFreq(value)
      [] attribute = "TX_DR" -> value \in TxDrs /\ (uplinkDwellTime = 0 \/ value >= 2)
      [] attribute = "RX_DR" -> value \in (IF uplinkDwellTime = 0 THEN 8 ELSE 2)..13
      [] attribute = "TX_POWER" -> value \in 0..14

ApplyCFList(nvm, cfList) == Plan!ApplyCFList(nvm, cfList)

ComputeRxWindowParameters(datarate, minRxSymbols, rxErrorMs) ==
    Phy!ComputeRxWindowParameters(datarate, minRxSymbols, rxErrorMs)
RxConfig(nvm, rxConfig) == Phy!RxConfig(nvm, rxConfig)
TxConfig(nvm, txConfig) == Phy!TxConfig(nvm, txConfig, 0)

RxParamSetupReq(frequency, datarate, drOffset) ==
    Plan!RxParamSetupReq(frequency, datarate, drOffset)
NewChannelReq(nvm, id, new) == Plan!NewChannelReq(nvm, id, new)
TxParamSetupReq == TRUE
DlChannelReq(nvm, id, rx1Frequency) == Plan!DlChannelReq(nvm, id, rx1Frequency)

(* Which trial of a join is at DR_6, the ninth, ChannelPlan says.          *)
AlternateDr(currentDr) == {2, 6}

ApplyDrOffset(downlinkDwellTime, dr, drOffset) == Most(DatarateOffsets[dr][drOffset], 0)
=============================================================================
