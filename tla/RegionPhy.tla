----------------------------- MODULE RegionPhy ------------------------------
(***************************************************************************)
(* What the regions' files share when they set the radio up: the           *)
(* computations of RegionCommon.c for a receive window and for the         *)
(* transmit power, and what radio.c and sx126x.c make of a configuration.  *)
(* Times are in microseconds where a name ends in Us and in milliseconds   *)
(* where it ends in Ms; powers and gains are in hundredths of a dB.        *)
(***************************************************************************)
EXTENDS Integers, Sequences, FiniteSets

(* A C array, indexed from 0.                                              *)
Table(seq) == [i \in 0..(Len(seq) - 1) |-> seq[i + 1]]

Least(a, b) == IF a <= b THEN a ELSE b
Most(a, b) == IF a >= b THEN a ELSE b

InRange(value, min, max) == min <= value /\ value <= max

(* DIV_CEIL: a negative quotient is cut, which is upwards as well.         *)
DivCeil(n, d) == IF n > 0 THEN (n + d - 1) \div d ELSE -((-n) \div d)

(* LORAMAC_FRAME_PAYLOAD_OVERHEAD_SIZE, the timeout every TxConfig gives a *)
(* transmission, and the defaults of RegionCommon.h, in milliseconds.      *)
PayloadOverhead == 13
TxTimeoutMs == 4000
DefaultReceiveDelay1 == 1000
DefaultJoinAcceptDelay1 == 5000

-----------------------------------------------------------------------------
(* RegionCommon.c.                                                         *)
GetBandwidth(dr, bandwidths) ==
    CASE bandwidths[dr] = 250000 -> 1
      [] bandwidths[dr] = 500000 -> 2
      [] OTHER -> 0

(* Every bandwidth is a number of kHz: the C product needs 32 bits.        *)
SymbolTimeLoRaUs(sf, bandwidth) == (2^sf * 1000) \div (bandwidth \div 1000)
SymbolTimeFskUs(kbps) == 8000 \div kbps

(* RADIO_TCXO_SETUP_TIME + RADIO_WAKEUP_TIME.                              *)
WakeupTimeMs == 50 + 3

(* RegionCommonComputeRxWindowParameters: how many symbols the window is   *)
(* open, and when before or after the delay the MAC starts to open it.     *)
WindowTimeout(tSymbolUs, minRxSymbols, rxErrorMs) ==
    Most(DivCeil((2 * minRxSymbols - 8) * tSymbolUs + 2 * (rxErrorMs * 1000), tSymbolUs),
         minRxSymbols)
WindowOffsetMs(tSymbolUs, timeout) ==
    DivCeil(4 * tSymbolUs - DivCeil(timeout * tSymbolUs, 2) - WakeupTimeMs * 1000, 1000)

(* Mutant: the time the radio takes to wake up is left out.                *)
WindowParametersNoWakeup(tSymbolUs, minRxSymbols, rxErrorMs) ==
    LET timeout == WindowTimeout(tSymbolUs, minRxSymbols, rxErrorMs)
    IN  [timeout |-> timeout, offset |-> WindowOffsetMs(tSymbolUs, timeout) + WakeupTimeMs]

WindowParameters(tSymbolUs, minRxSymbols, rxErrorMs) ==
    LET timeout == WindowTimeout(tSymbolUs, minRxSymbols, rxErrorMs)
    IN  [timeout |-> timeout, offset |-> WindowOffsetMs(tSymbolUs, timeout)]

(* RegionCommonComputeTxPower, in dBm; RegionCommonLimitTxPower: a higher  *)
(* index is less power.                                                    *)
ComputeTxPower(index, maxEirp, antennaGain) == (maxEirp - 200 * index - antennaGain) \div 100
LimitTxPower(index, maxBandTxPower) == Most(index, maxBandTxPower)

-----------------------------------------------------------------------------
(* radio.c: RadioTimeOnAir, of a frame with a CRC and a variable length.   *)
BandwidthInHz(bandwidth) == CASE bandwidth = 0 -> 125000 [] bandwidth = 1 -> 250000
                              [] bandwidth = 2 -> 500000

LowDatarateOptimize(bandwidth, sf) ==
    (bandwidth = 0 /\ sf \in {11, 12}) \/ (bandwidth = 1 /\ sf = 12)

PayloadSymbols(bandwidth, sf, coderate, size) ==
    LET bits == 8 * size + 16 - 4 * sf + 20 + (IF sf <= 6 THEN 0 ELSE 8)
        perBlock == IF LowDatarateOptimize(bandwidth, sf) THEN 4 * (sf - 2) ELSE 4 * sf
    IN  DivCeil(Most(bits, 0), perBlock) * (coderate + 4)

(* In quarters of a symbol, each of them 2^(sf - 2) chips.                 *)
LoRaTimeOnAirNumerator(bandwidth, sf, coderate, preambleLen, size) ==
    LET preamble == IF sf \in {5, 6} THEN Most(preambleLen, 12) ELSE preambleLen
        symbols == PayloadSymbols(bandwidth, sf, coderate, size) + preamble + 12
                   + (IF sf <= 6 THEN 2 ELSE 0)
    IN  (4 * symbols + 1) * 2^(sf - 2)

GfskTimeOnAirNumerator(preambleLen, size) == 8 * preambleLen + 8 + 24 + 8 * (size + 2)

(* The size is a uint8_t.                                                  *)
TimeOnAirMs(modem, bandwidth, datarate, coderate, preambleLen, size) ==
    CASE modem = "FSK" -> DivCeil(1000 * GfskTimeOnAirNumerator(preambleLen, size % 256), datarate)
      [] modem = "LORA" ->
            DivCeil(1000 * LoRaTimeOnAirNumerator(bandwidth, datarate, coderate, preambleLen,
                                                  size % 256),
                    BandwidthInHz(bandwidth))

(* SX126xSetLoRaSymbNumTimeout: how many symbols the chip waits for one it *)
(* can use; the register holds a mantissa and an exponent.                 *)
SymbNumTimeout(symbTimeout) ==
    LET mant == (Least(symbTimeout % 256, 248) + 1) \div 2
    IN  IF mant <= 31 THEN 2 * mant ELSE 8 * ((mant + 3) \div 4)

(* RadioSetRxConfig: timerMs is what RadioRx gives the chip as the time in *)
(* which it must find a frame, 0x380 << 6 of its ticks for LoRa.           *)
SetRxConfig(modem, bandwidth, datarate, preambleLen, symbTimeout, iqInverted, continuous) ==
    [modem |-> modem, bandwidth |-> bandwidth, datarate |-> datarate,
     preambleLen |-> preambleLen, iqInverted |-> iqInverted, continuous |-> continuous,
     symbols |-> IF modem = "LORA" /\ ~continuous THEN SymbNumTimeout(symbTimeout) ELSE 0,
     timerMs |-> CASE continuous -> 0
                   [] modem = "FSK" /\ ~continuous -> (symbTimeout * 8000) \div datarate
                   [] modem = "LORA" /\ ~continuous -> 896]

(* RadioSetTxConfig; the workaround for 500 kHz is a register of its own.  *)
SetTxConfig(modem, power, bandwidth, datarate, preambleLen) ==
    [modem |-> modem, power |-> power, bandwidth |-> bandwidth, datarate |-> datarate,
     preambleLen |-> preambleLen, iqInverted |-> FALSE,
     modulationQuality |-> modem = "LORA" /\ bandwidth = 2]

(* RadioSetMaxPayloadLength: MaxPayloadLength is a uint8_t.                *)
WithMaxPayload(radio, max) ==
    [k \in DOMAIN radio \cup {"maxPayload"} |-> IF k = "maxPayload" THEN max % 256 ELSE radio[k]]

(* RadioSetChannel.                                                        *)
WithFrequency(radio, frequency) ==
    [k \in DOMAIN radio \cup {"frequency"} |->
        IF k = "frequency" THEN frequency ELSE radio[k]]
=============================================================================
