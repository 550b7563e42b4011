---------------------------- MODULE RegionUS915 -----------------------------
(***************************************************************************)
(* RegionUS915.c over the tables and limits of RegionUS915.h.              *)
(* North America, 902 to 928 MHz: 64 channels of 125 kHz, 8 of 500 kHz.    *)
(***************************************************************************)
EXTENDS RegionPhy

Datarates == Table(<<10, 9, 8, 7, 8, 0, 0, 0, 12, 11, 10, 9, 8, 7, 0, 0>>)
Bandwidths == Table(<<125000, 125000, 125000, 125000, 500000, 0, 0, 0,
                      500000, 500000, 500000, 500000, 500000, 500000, 0, 0>>)
MaxPayloadOfDatarate == Table(<<11, 53, 125, 242, 242, 0, 0, 0, 53, 129, 242, 242, 242, 242, 0, 0>>)
DatarateOffsets ==
    Table(<<Table(<<10, 9, 8, 8>>), Table(<<11, 10, 9, 8>>), Table(<<12, 11, 10, 9>>),
            Table(<<13, 12, 11, 10>>), Table(<<13, 13, 12, 11>>)>>)

ChannelIds == 0..71
ChannelFrequency(id) ==
    IF id < 64 THEN 902300000 + id * 200000 ELSE 903000000 + (id - 64) * 1600000
ChannelDrs(id) == IF id < 64 THEN 0..3 ELSE {4}
FirstRx1Channel == 923300000
LastRx1Channel == 927500000
StepwidthRx1Channel == 600000
NbRx1Channels == 8
TxDrs == 0..4
RxDrs == 8..13
MaxRx1DrOffset == 3

Plan == INSTANCE FixedRegion
VerifyRfFreq(freq) == Plan!VerifyRxFreq(freq) /\ InRange(freq, 902300000, 927500000)
MaxEirpAt(frequency, maxEirp) == 3000
MaxRxDr == 13
LossCompensation == 3

Phy == INSTANCE RegionRadio
    WITH Frequency <- Plan!Frequency, Rx1Frequency <- Plan!Rx1Frequency

-----------------------------------------------------------------------------
GetTimeOnAir(dr, pktLen) == Phy!GetTimeOnAir(dr, pktLen)

(* GetPhyParam: what depends on the data rate and the dwell times, and     *)
(* what a region is initialised with.                                      *)
GetPhyParam(datarate, uplinkDwellTime, downlinkDwellTime) ==
    [minRxDr |-> 8,
     minTxDr |-> 0,
     maxPayload |-> MaxPayloadOfDatarate[datarate]]
PhyDefaults ==
    [datarate |-> 0, maxRxWindow |-> 3000, rx1DrOffset |-> 0,
     rx2Frequency |-> 923300000, rx2Datarate |-> 8,
     uplinkDwellTime |-> 0, downlinkDwellTime |-> 0, maxEirp |-> 3215, antennaGain |-> 0]

InitDefaults(type, nvm) == Plan!InitDefaults(type, nvm)
NextChannel(nvm, joined, datarate) == Plan!NextChannel(nvm, joined, datarate)

Verify(attribute, value, uplinkDwellTime, downlinkDwellTime) ==
    CASE attribute = "FREQUENCY" -> VerifyRfFreq(value)
      [] attribute = "TX_DR" -> value \in TxDrs
      [] attribute = "RX_DR" -> value \in RxDrs
      [] attribute = "TX_POWER" -> value \in 0..14

ApplyCFList(nvm, cfList) == Plan!ApplyCFList(nvm, cfList)

ComputeRxWindowParameters(datarate, minRxSymbols, rxErrorMs) ==
    Phy!ComputeRxWindowParameters(datarate, minRxSymbols, rxErrorMs)
RxConfig(nvm, rxConfig) == Phy!RxConfig(nvm, rxConfig)
TxConfig(nvm, txConfig) == Phy!TxConfig(nvm, txConfig, 0)

RxParamSetupReq(frequency, datarate, drOffset) ==
    Plan!RxParamSetupReq(frequency, datarate, drOffset)
NewChannelReq(nvm, id, new) == Plan!NewChannelReq(nvm, id, new)
TxParamSetupReq == FALSE
DlChannelReq(nvm, id, rx1Frequency) == Plan!DlChannelReq(nvm, id, rx1Frequency)

(* Which trial of a join is at DR_4, the ninth, ChannelPlan says.          *)
AlternateDr(currentDr) == {0, 4}

ApplyDrOffset(downlinkDwellTime, dr, drOffset) == Most(DatarateOffsets[dr][drOffset], 0)
=============================================================================
