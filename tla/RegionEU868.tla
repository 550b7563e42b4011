---------------------------- MODULE RegionEU868 -----------------------------
(***************************************************************************)
(* RegionEU868.c over the tables and limits of RegionEU868.h.              *)
(* Europe, 863 to 870 MHz: six bands, each with its own duty cycle.        *)
(***************************************************************************)
EXTENDS RegionPhy

Datarates == Table(<<12, 11, 10, 9, 8, 7, 7, 50>>)
Bandwidths == Table(<<125000, 125000, 125000, 125000, 125000, 125000, 250000, 0>>)

(* Mutant: the table holds the payload with the header.                    *)
MaxPayloadWithHeader == Table(<<59, 59, 59, 123, 250, 250, 250, 250>>)

MaxPayloadOfDatarate == Table(<<51, 51, 51, 115, 242, 242, 242, 242>>)

(* VerifyRfFreq also finds the band; 6 stands for none.                    *)
BandOf(freq) ==
    CASE InRange(freq, 863000000, 864999999) -> 2
      [] InRange(freq, 865000000, 868000000) -> 0
      [] InRange(freq, 868000001, 868600000) -> 1
      [] InRange(freq, 868700000, 869200000) -> 5
      [] InRange(freq, 869400000, 869650000) -> 3
      [] InRange(freq, 869700000, 870000000) -> 4
      [] OTHER -> 6
VerifyRfFreq(freq) == BandOf(freq) # 6

Channel(frequency) ==
    [frequency |-> frequency, rx1Frequency |-> 0, minDr |-> 0, maxDr |-> 5, band |-> 1]
DefaultChannels == Table(<<Channel(868100000), Channel(868300000), Channel(868500000)>>)
MaxNbChannels == 16
TxDrs == 0..7
RxDrs == 0..7
MaxRx1DrOffset == 5

Plan == INSTANCE ListRegion
MaxEirpAt(frequency, maxEirp) == maxEirp
MaxRxDr == 7
LossCompensation == 3

Phy == INSTANCE RegionRadio
    WITH Frequency <- Plan!Frequency, Rx1Frequency <- Plan!Rx1Frequency

-----------------------------------------------------------------------------
GetTimeOnAir(dr, pktLen) == Phy!GetTimeOnAir(dr, pktLen)

(* GetPhyParam: what depends on the data rate and the dwell times, and     *)
(* what a region is initialised with.                                      *)
GetPhyParam(datarate, uplinkDwellTime, downlinkDwellTime) ==
    [minRxDr |-> 0,
     minTxDr |-> 0,
     maxPayload |-> MaxPayloadOfDatarate[datarate]]
PhyDefaults ==
    [datarate |-> 0, maxRxWindow |-> 3000, rx1DrOffset |-> 0,
     rx2Frequency |-> 869525000, rx2Datarate |-> 0,
     uplinkDwellTime |-> 0, downlinkDwellTime |-> 0, maxEirp |-> 1600, antennaGain |-> 215]

InitDefaults(type, nvm) == Plan!InitDefaults(type, nvm)
NextChannel(nvm, joined, datarate) == Plan!NextChannel(nvm, joined, datarate)

Verify(attribute, value, uplinkDwellTime, downlinkDwellTime) ==
    CASE attribute = "FREQUENCY" -> VerifyRfFreq(value)
      [] attribute = "TX_DR" -> value \in TxDrs
      [] attribute = "RX_DR" -> value \in RxDrs
      [] attribute = "TX_POWER" -> value \in 0..7

ApplyCFList(nvm, cfList) == Plan!ApplyCFList(nvm, cfList)

ComputeRxWindowParameters(datarate, minRxSymbols, rxErrorMs) ==
    Phy!ComputeRxWindowParameters(datarate, minRxSymbols, rxErrorMs)
RxConfig(nvm, rxConfig) == Phy!RxConfig(nvm, rxConfig)
TxConfig(nvm, txConfig) == Phy!TxConfig(nvm, txConfig, 0)

RxParamSetupReq(frequency, datarate, drOffset) ==
    Plan!RxParamSetupReq(frequency, datarate, drOffset)
NewChannelReq(nvm, id, new) == Plan!NewChannelReq(nvm, id, new)
TxParamSetupReq == FALSE
DlChannelReq(nvm, id, rx1Frequency) == Plan!DlChannelReq(nvm, id, rx1Frequency)

AlternateDr(currentDr) == {currentDr}

ApplyDrOffset(downlinkDwellTime, dr, drOffset) == Most(dr - drOffset, 0)
=============================================================================
