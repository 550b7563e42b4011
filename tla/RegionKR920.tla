---------------------------- MODULE RegionKR920 -----------------------------
(***************************************************************************)
(* RegionKR920.c over the tables and limits of RegionKR920.h.              *)
(* Korea, 920.9 to 923.3 MHz: no FSK, and a power limit that depends on    *)
(* the frequency.                                                          *)
(***************************************************************************)
EXTENDS RegionPhy

Datarates == Table(<<12, 11, 10, 9, 8, 7>>)
Bandwidths == Table(<<125000, 125000, 125000, 125000, 125000, 125000>>)
MaxPayloadOfDatarate == Table(<<51, 51, 51, 115, 242, 242>>)
GetMaxEIRP(freq) == IF freq >= 922100000 THEN 1400 ELSE 1000

VerifyRfFreq(freq) == InRange(freq, 920900000, 923300000) /\ (freq - 920900000) % 200000 = 0
BandOf(freq) == 0

Channel(frequency) ==
    [frequency |-> frequency, rx1Frequency |-> 0, minDr |-> 0, maxDr |-> 5, band |-> 0]
DefaultChannels == Table(<<Channel(922100000), Channel(922300000), Channel(922500000)>>)
MaxNbChannels == 16
TxDrs == 0..5
RxDrs == 0..5
MaxRx1DrOffset == 5

Plan == INSTANCE ListRegion
MaxEirpAt(frequency, maxEirp) == Least(maxEirp, GetMaxEIRP(frequency))
MaxRxDr == 5
LossCompensation == 0

Phy == INSTANCE RegionRadio
    WITH Frequency <- Plan!Frequency, Rx1Frequency <- Plan!Rx1Frequency

-----------------------------------------------------------------------------
GetTimeOnAir(dr, pktLen) == Phy!GetTimeOnAir(dr, pktLen)

(* GetPhyParam: what depends on the data rate and the dwell times, and     *)
(* what a region is initialised with.                                      *)
GetPhyParam(datarate, uplinkDwellTime, downlinkDwellTime) ==
    [minRxDr |-> 0,
     minTxDr |-> 0,
     maxPayload |-> MaxPayloadOfDatarate[datarate]]
PhyDefaults ==
    [datarate |-> 0, maxRxWindow |-> 4000, rx1DrOffset |-> 0,
     rx2Frequency |-> 921900000, rx2Datarate |-> 0,
     uplinkDwellTime |-> 0, downlinkDwellTime |-> 0, maxEirp |-> 1400, antennaGain |-> 215]

InitDefaults(type, nvm) == Plan!InitDefaults(type, nvm)
NextChannel(nvm, joined, datarate) == Plan!NextChannel(nvm, joined, datarate)

Verify(attribute, value, uplinkDwellTime, downlinkDwellTime) ==
    CASE attribute = "FREQUENCY" -> VerifyRfFreq(value)
      [] attribute = "TX_DR" -> value \in TxDrs
      [] attribute = "RX_DR" -> value \in RxDrs
      [] attribute = "TX_POWER" -> value \in 0..7

ApplyCFList(nvm, cfList) == Plan!ApplyCFList(nvm, cfList)

ComputeRxWindowParameters(datarate, minRxSymbols, rxErrorMs) ==
    Phy!ComputeRxWindowParameters(datarate, minRxSymbols, rxErrorMs)
RxConfig(nvm, rxConfig) == Phy!RxConfig(nvm, rxConfig)
TxConfig(nvm, txConfig) == Phy!TxConfig(nvm, txConfig, 0)

RxParamSetupReq(frequency, datarate, drOffset) ==
    Plan!RxParamSetupReq(frequency, datarate, drOffset)
NewChannelReq(nvm, id, new) == Plan!NewChannelReq(nvm, id, new)
TxParamSetupReq == FALSE
DlChannelReq(nvm, id, rx1Frequency) == Plan!DlChannelReq(nvm, id, rx1Frequency)

AlternateDr(currentDr) == {currentDr}

ApplyDrOffset(downlinkDwellTime, dr, drOffset) == Most(dr - drOffset, 0)
=============================================================================
