---------------------------- MODULE RegionRadio -----------------------------
(***************************************************************************)
(* How a region sets the radio up: the part of Region<name>.c that is the  *)
(* same in all of them, up to the region's tables and the three operators  *)
(* below.  A module of a region instantiates it with its own.              *)
(***************************************************************************)
EXTENDS RegionPhy

CONSTANTS
    Datarates,              \* the spreading factor, or kbit/s, of a data rate
    Bandwidths,             \* its bandwidth in Hz
    MaxPayloadOfDatarate,   \* the longest payload RxConfig lets the radio take
    MaxRxDr,                \* <name>_RX_MAX_DATARATE
    LossCompensation,       \* in dBm, added to the transmit power
    Frequency(_, _),        \* of a channel
    Rx1Frequency(_, _),     \* where window 1 listens after an uplink on a channel
    MaxEirpAt(_, _)         \* what MaxEirp is cut to at a frequency

(* DR_7, where the region has it, is FSK at 50 kbit/s.                     *)
Modem(dr) == IF Datarates[dr] = 50 THEN "FSK" ELSE "LORA"
PreambleLen(dr) == IF Modem(dr) = "FSK" THEN 5 ELSE 8
PhyDatarate(dr) == IF Modem(dr) = "FSK" THEN 1000 * Datarates[dr] ELSE Datarates[dr]

SymbolTimeUs(dr) ==
    IF Modem(dr) = "FSK" THEN SymbolTimeFskUs(Datarates[dr])
    ELSE SymbolTimeLoRaUs(Datarates[dr], Bandwidths[dr])

GetTimeOnAir(dr, pktLen) ==
    TimeOnAirMs(Modem(dr), GetBandwidth(dr, Bandwidths), PhyDatarate(dr), 1, PreambleLen(dr),
                pktLen)

(* Data rate and bandwidth of a window, how many symbols it is open and    *)
(* how many milliseconds it is opened after the delay.                     *)
ComputeRxWindowParameters(datarate, minRxSymbols, rxErrorMs) ==
    LET dr == Least(datarate, MaxRxDr)
        window == WindowParameters(SymbolTimeUs(dr), minRxSymbols, rxErrorMs)
    IN  [datarate |-> dr, bandwidth |-> GetBandwidth(dr, Bandwidths),
         timeout |-> window.timeout, offset |-> window.offset]

(* Only called with the radio in standby, which is idle: it never refuses. *)
RxConfig(nvm, rxConfig) ==
    LET dr == rxConfig.datarate
        fsk == Modem(dr) = "FSK"
        config == SetRxConfig(Modem(dr), IF fsk THEN 50000 ELSE rxConfig.bandwidth,
                              PhyDatarate(dr), PreambleLen(dr), rxConfig.timeout, ~fsk,
                              rxConfig.rxContinuous)
        frequency == IF rxConfig.rxSlot = "WIN_1" THEN Rx1Frequency(nvm, rxConfig.channel)
                     ELSE rxConfig.frequency
    IN  WithMaxPayload(WithFrequency(config, frequency),
                       MaxPayloadOfDatarate[dr] + PayloadOverhead)

TxConfig(nvm, txConfig, maxBandTxPower) ==
    LET dr == txConfig.datarate
        frequency == Frequency(nvm, txConfig.channel)
        power == ComputeTxPower(LimitTxPower(txConfig.txPower, maxBandTxPower),
                                MaxEirpAt(frequency, txConfig.maxEirp), txConfig.antennaGain)
                 + LossCompensation
        config == SetTxConfig(Modem(dr), power, GetBandwidth(dr, Bandwidths), PhyDatarate(dr),
                              PreambleLen(dr))
    IN  [radio |-> WithMaxPayload(WithFrequency(config, frequency), txConfig.pktLen),
         timeOnAir |-> GetTimeOnAir(dr, txConfig.pktLen)]
=============================================================================
