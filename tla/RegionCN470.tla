---------------------------- MODULE RegionCN470 -----------------------------
(***************************************************************************)
(* RegionCN470.c over the tables and limits of RegionCN470.h.              *)
(* China, 470 to 510 MHz: 96 channels, window 1 on one of 48 others.       *)
(***************************************************************************)
EXTENDS RegionPhy

Datarates == Table(<<12, 11, 10, 9, 8, 7>>)
Bandwidths == Table(<<125000, 125000, 125000, 125000, 125000, 125000>>)
MaxPayloadOfDatarate == Table(<<51, 51, 51, 115, 242, 242>>)

ChannelIds == 0..95
ChannelFrequency(id) ==
    470300000 + id * 200000
ChannelDrs(id) == 0..5
FirstRx1Channel == 500300000
LastRx1Channel == 509700000
StepwidthRx1Channel == 200000
NbRx1Channels == 48
TxDrs == 0..5
RxDrs == 0..5
MaxRx1DrOffset == 5

Plan == INSTANCE FixedRegion
VerifyRfFreq(freq) == Plan!VerifyRxFreq(freq) /\ InRange(freq, 470300000, 509700000)
MaxEirpAt(frequency, maxEirp) == maxEirp
MaxRxDr == 5
LossCompensation == 0

Phy == INSTANCE RegionRadio
    WITH Frequency <- Plan!Frequency, Rx1Frequency <- Plan!Rx1Frequency

-----------------------------------------------------------------------------
GetTimeOnAir(dr, pktLen) == Phy!GetTimeOnAir(dr, pktLen)

(* GetPhyParam: what depends on the data rate and the dwell times, and     *)
(* what a region is initialised with.                                      *)
GetPhyParam(datarate, uplinkDwellTime, downlinkDwellTime) ==
    [minRxDr |-> 0,
     minTxDr |-> 0,
     maxPayload |-> MaxPayloadOfDatarate[datarate]]
PhyDefaults ==
    [datarate |-> 0, maxRxWindow |-> 3000, rx1DrOffset |-> 0,
     rx2Frequency |-> 505300000, rx2Datarate |-> 0,
     uplinkDwellTime |-> 0, downlinkDwellTime |-> 0, maxEirp |-> 1915, antennaGain |-> 215]

InitDefaults(type, nvm) == Plan!InitDefaults(type, nvm)
NextChannel(nvm, joined, datarate) == Plan!NextChannel(nvm, joined, datarate)

Verify(attribute, value, uplinkDwellTime, downlinkDwellTime) ==
    CASE attribute = "FREQUENCY" -> VerifyRfFreq(value)
      [] attribute = "TX_DR" -> value \in TxDrs
      [] attribute = "RX_DR" -> value \in RxDrs
      [] attribute = "TX_POWER" -> value \in 0..7

ApplyCFList(nvm, cfList) == Plan!ApplyCFList(nvm, cfList)

ComputeRxWindowParameters(datarate, minRxSymbols, rxErrorMs) ==
    Phy!ComputeRxWindowParameters(datarate, minRxSymbols, rxErrorMs)
RxConfig(nvm, rxConfig) == Phy!RxConfig(nvm, rxConfig)
TxConfig(nvm, txConfig) == Phy!TxConfig(nvm, txConfig, 0)

RxParamSetupReq(frequency, datarate, drOffset) ==
    Plan!RxParamSetupReq(frequency, datarate, drOffset)
NewChannelReq(nvm, id, new) == Plan!NewChannelReq(nvm, id, new)
TxParamSetupReq == FALSE
DlChannelReq(nvm, id, rx1Frequency) == Plan!DlChannelReq(nvm, id, rx1Frequency)

AlternateDr(currentDr) == {currentDr}

ApplyDrOffset(downlinkDwellTime, dr, drOffset) == Most(dr - drOffset, 0)
=============================================================================
