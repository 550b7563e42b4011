---------------------------- MODULE RegionAS923 -----------------------------
(***************************************************************************)
(* RegionAS923.c over the tables and limits of RegionAS923.h.              *)
(* Asia, 923 MHz: dwell time limits below DR_2 in either direction, which  *)
(* the network may lift, and payloads that depend on them.                 *)
(***************************************************************************)
EXTENDS RegionPhy

Datarates == Table(<<12, 11, 10, 9, 8, 7, 7, 50>>)
Bandwidths == Table(<<125000, 125000, 125000, 125000, 125000, 125000, 250000, 0>>)
MaxPayloadOfDatarate == Table(<<59, 59, 123, 123, 250, 250, 250, 250>>)
MaxPayloadOfDatarateDwell1Up == Table(<<0, 0, 19, 61, 133, 250, 250, 250>>)
EffectiveRx1DrOffset == Table(<<0, 1, 2, 3, 4, 5, -1, -2>>)

VerifyRfFreq(freq) == InRange(freq, 915000000, 928000000)
BandOf(freq) == 0

Channel(frequency) ==
    [frequency |-> frequency, rx1Frequency |-> 0, minDr |-> 0, maxDr |-> 5, band |-> 0]
DefaultChannels == Table(<<Channel(923200000), Channel(923400000)>>)
MaxNbChannels == 16
TxDrs == 0..7
RxDrs == 0..7
MaxRx1DrOffset == 7

Plan == INSTANCE ListRegion
MaxEirpAt(frequency, maxEirp) == maxEirp
MaxRxDr == 7
LossCompensation == 0

Phy == INSTANCE RegionRadio
    WITH Frequency <- Plan!Frequency, Rx1Frequency <- Plan!Rx1Frequency

-----------------------------------------------------------------------------
GetTimeOnAir(dr, pktLen) == Phy!GetTimeOnAir(dr, pktLen)

(* GetPhyParam: what depends on the data rate and the dwell times, and     *)
(* what a region is initialised with.                                      *)
GetPhyParam(datarate, uplinkDwellTime, downlinkDwellTime) ==
    [minRxDr |-> IF downlinkDwellTime = 0 THEN 0 ELSE 2,
     minTxDr |-> IF uplinkDwellTime = 0 THEN 0 ELSE 2,
     maxPayload |-> IF uplinkDwellTime = 0 THEN MaxPayloadOfDatarate[datarate]
                    ELSE MaxPayloadOfDatarateDwell1Up[datarate]]
PhyDefaults ==
    [datarate |-> 2, maxRxWindow |-> 3000, rx1DrOffset |-> 0,
     rx2Frequency |-> 923200000, rx2Datarate |-> 2,
     uplinkDwellTime |-> 1, downlinkDwellTime |-> 0, maxEirp |-> 1600, antennaGain |-> 215]

InitDefaults(type, nvm) == Plan!InitDefaults(type, nvm)
NextChannel(nvm, joined, datarate) == Plan!NextChannel(nvm, joined, datarate)

Verify(attribute, value, uplinkDwellTime, downlinkDwellTime) ==
    CASE attribute = "FREQUENCY" -> VerifyRfFreq(value)
      [] attribute = "TX_DR" -> value \in TxDrs /\ (uplinkDwellTime = 0 \/ value >= 2)
      [] attribute = "RX_DR" -> value \in RxDrs /\ (downlinkDwellTime = 0 \/ value >= 2)
      [] attribute = "TX_POWER" -> value \in 0..7

ApplyCFList(nvm, cfList) == Plan!ApplyCFList(nvm, cfList)

ComputeRxWindowParameters(datarate, minRxSymbols, rxErrorMs) ==
    Phy!ComputeRxWindowParameters(datarate, minRxSymbols, rxErrorMs)
RxConfig(nvm, rxConfig) == Phy!RxConfig(nvm, rxConfig)
TxConfig(nvm, txConfig) == Phy!TxConfig(nvm, txConfig, 0)

RxParamSetupReq(frequency, datarate, drOffset) ==
    Plan!RxParamSetupReq(frequency, datarate, drOffset)
NewChannelReq(nvm, id, new) == Plan!NewChannelReq(nvm, id, new)
TxParamSetupReq == TRUE
DlChannelReq(nvm, id, rx1Frequency) == Plan!DlChannelReq(nvm, id, rx1Frequency)

(* Only AS923_DWELL_LIMIT_DATARATE.                                        *)
AlternateDr(currentDr) == {2}

ApplyDrOffset(downlinkDwellTime, dr, drOffset) ==
    Least(5, Most(IF downlinkDwellTime = 1 THEN 2 ELSE 0,
                  dr - EffectiveRx1DrOffset[drOffset]))
=============================================================================
