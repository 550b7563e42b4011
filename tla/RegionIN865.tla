---------------------------- MODULE RegionIN865 -----------------------------
(***************************************************************************)
(* RegionIN865.c over the tables and limits of RegionIN865.h.              *)
(* India, 865 to 867 MHz: there is no DR_6, and offsets 6 and 7 raise the  *)
(* data rate of window 1, which is never above DR_5.                       *)
(***************************************************************************)
EXTENDS RegionPhy

Datarates == Table(<<12, 11, 10, 9, 8, 7, 7, 50>>)
Bandwidths == Table(<<125000, 125000, 125000, 125000, 125000, 125000, 250000, 0>>)
MaxPayloadOfDatarate == Table(<<51, 51, 51, 115, 242, 242, 242, 242>>)
EffectiveRx1DrOffset == Table(<<0, 1, 2, 3, 4, 5, -1, -2>>)

VerifyRfFreq(freq) == InRange(freq, 865000000, 867000000)
BandOf(freq) == 0

Channel(frequency) ==
    [frequency |-> frequency, rx1Frequency |-> 0, minDr |-> 0, maxDr |-> 5, band |-> 0]
DefaultChannels == Table(<<Channel(865062500), Channel(865402500), Channel(865985000)>>)
MaxNbChannels == 16
TxDrs == 0..7
RxDrs == (0..7) \ {6}
MaxRx1DrOffset == 7

Plan == INSTANCE ListRegion
MaxEirpAt(frequency, maxEirp) == maxEirp
MaxRxDr == 7
LossCompensation == 0

Phy == INSTANCE RegionRadio
    WITH Frequency <- Plan!Frequency, Rx1Frequency <- Plan!Rx1Frequency

-----------------------------------------------------------------------------
GetTimeOnAir(dr, pktLen) == Phy!GetTimeOnAir(dr, pktLen)

(* GetPhyParam: what depends on the data rate and the dwell times, and     *)
(* what a region is initialised with.                                      *)
GetPhyParam(datarate, uplinkDwellTime, downlinkDwellTime) ==
    [minRxDr |-> 0,
     minTxDr |-> 0,
     maxPayload |-> MaxPayloadOfDatarate[datarate]]
PhyDefaults ==
    [datarate |-> 0, maxRxWindow |-> 3000, rx1DrOffset |-> 0,
     rx2Frequency |-> 866550000, rx2Datarate |-> 2,
     uplinkDwellTime |-> 0, downlinkDwellTime |-> 0, maxEirp |-> 3000, antennaGain |-> 215]

InitDefaults(type, nvm) == Plan!InitDefaults(type, nvm)
NextChannel(nvm, joined, datarate) == Plan!NextChannel(nvm, joined, datarate)

Verify(attribute, value, uplinkDwellTime, downlinkDwellTime) ==
    CASE attribute = "FREQUENCY" -> VerifyRfFreq(value)
      [] attribute = "TX_DR" -> value \in TxDrs \ {6}
      [] attribute = "RX_DR" -> value \in RxDrs
      [] attribute = "TX_POWER" -> value \in 0..10

ApplyCFList(nvm, cfList) == Plan!ApplyCFList(nvm, cfList)

ComputeRxWindowParameters(datarate, minRxSymbols, rxErrorMs) ==
    Phy!ComputeRxWindowParameters(datarate, minRxSymbols, rxErrorMs)
RxConfig(nvm, rxConfig) == Phy!RxConfig(nvm, rxConfig)
TxConfig(nvm, txConfig) == Phy!TxConfig(nvm, txConfig, 0)

RxParamSetupReq(frequency, datarate, drOffset) ==
    Plan!RxParamSetupReq(frequency, datarate, drOffset)
NewChannelReq(nvm, id, new) == Plan!NewChannelReq(nvm, id, new)
TxParamSetupReq == FALSE
DlChannelReq(nvm, id, rx1Frequency) == Plan!DlChannelReq(nvm, id, rx1Frequency)

AlternateDr(currentDr) == {currentDr}

ApplyDrOffset(downlinkDwellTime, dr, drOffset) ==
    Least(5, Most(0, dr - EffectiveRx1DrOffset[drOffset]))
=============================================================================
