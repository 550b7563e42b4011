------------------------------ MODULE RxWindows -----------------------------
(***************************************************************************)
(* The two receive windows of a class A node after each uplink: where they *)
(* come from (join accept and MAC commands that change their frequencies,  *)
(* data rates and delays), when they are computed, when they are opened,   *)
(* and how the radio is configured for them, in every region.              *)
(*                                                                         *)
(* The network server is modelled as far as the node depends on it: what   *)
(* it believes the node has set (net), the command it awaits an answer to  *)
(* (asked), and these rules.  It acknowledges every confirmed frame in the *)
(* downlink it answers it with.  It asks one command at a time, and none   *)
(* whose identifier the uplink it answers carries an answer of.  A command *)
(* whose answer is not in the next uplink it hears was lost.  It does not  *)
(* redefine a channel whose window 1 it has moved.                         *)
(***************************************************************************)
EXTENDS Region, RegionPhy

CONSTANTS
    Regions,            \* the regions a node may be set to
    SendChannels,       \* of each region, the channels an uplink may be drawn for,
    SendDatarates,      \* the data rates the application sends at,
    NetFrequencies,     \* the frequencies,
    NetRxDatarates,     \* the window 2 data rates
    NetDrOffsets,       \* and the offsets the network asks for,
    NetJoinAccepts,     \* and the join accepts it sends
    NetDelays,          \* delays it asks for, in seconds
    NetChannelIds,      \* channels it defines or moves
    MaxExchanges,       \* bound: exchanges
    MaxCommands         \* bound: MAC commands the network sends

ASSUME RegionsAssumption == Regions \subseteq Names

(* The node takes the data rate and the offset of a join accept without a  *)
(* check (LoRaMac.c:905-907).  The network is assumed to grant only what   *)
(* the region would take of a command: of a node with other values, some   *)
(* of which index the region's tables out of bounds, nothing is said here. *)
(* It names channels that the node has.                                    *)
ASSUME AcceptsAssumption ==
    \A r \in Regions : \A accept \in NetJoinAccepts[r] :
        /\ RegionRxParamSetupReq(r, RegionPhyDefaults(r).rx2Frequency, accept.rx2Datarate,
                                 accept.rx1DrOffset) = "accepted"
        /\ accept.rxDelay \in Nat
ASSUME DelaysAssumption == NetDelays \subseteq Nat
ASSUME ChannelIdsAssumption ==
    \A r \in Regions :
        "channels" \in DOMAIN RegionBlank(r) => NetChannelIds \subseteq DOMAIN RegionBlank(r).channels

VARIABLES
    region,         \* Nvm.MacGroup2.Region
    nvm,            \* the channels of the region
    macParams,      \* Nvm.MacGroup2.MacParams
    joined,         \* Nvm.MacGroup2.NetworkActivation # ACTIVATION_TYPE_NONE
    answers,        \* the MAC command answers queued for the next uplink
    frame,          \* the uplink of the running exchange
    windows,        \* MacCtx.RxWindow1Config, RxWindow2Config and their delays
    rxTimers,       \* the window timers that run
    rxSlot,         \* MacCtx.RxSlot
    radio,          \* its status and configuration
    net,            \* what the network believes
    asked,          \* the command it awaits an answer to
    exchanges, commands

nodeVars == <<region, nvm, macParams, joined, answers>>
macVars == <<frame, windows, rxTimers, rxSlot, radio>>
netVars == <<net, asked>>
vars == <<nodeVars, macVars, netVars, exchanges, commands>>

Slots == {"WIN_1", "WIN_2"}

(* SystemMaxRxError in milliseconds and MinRxSymbols.                      *)
SystemMaxRxError == 10
MinRxSymbols == 6

(* LoRaMacMaxEirpTable, in hundredths of a dBm.                            *)
MaxEirpTable ==
    Table(<<800, 1000, 1200, 1300, 1400, 1600, 1800, 2000, 2100, 2400, 2600, 2700, 2900, 3000,
            3300, 3600>>)

NoFrame == [kind |-> "none"]
NoWindows == [slot \in {} |-> 0]
NoCommand == [cid |-> "none"]
NoConfig == [frequency |-> 0]
Asleep == [status |-> "sleep", config |-> NoConfig]

Phy == RegionPhyDefaults(region)

(* MacParamsDefaults, but for the receive delay of the session.            *)
MacParamsDefaults(r, receiveDelay1) ==
    LET phy == RegionPhyDefaults(r)
    IN  [rx1DrOffset |-> phy.rx1DrOffset, rx2Frequency |-> phy.rx2Frequency,
         rx2Datarate |-> phy.rx2Datarate, uplinkDwellTime |-> phy.uplinkDwellTime,
         downlinkDwellTime |-> phy.downlinkDwellTime, maxEirp |-> phy.maxEirp,
         receiveDelay1 |-> receiveDelay1]

(* What both sides have before anything changed it, and where window 1 was *)
(* moved to.                                                               *)
NetDefaults(r) ==
    [rx1DrOffset |-> 0, rx2Frequency |-> RegionPhyDefaults(r).rx2Frequency,
     rx2Datarate |-> RegionPhyDefaults(r).rx2Datarate, downlinkDwellTime |-> 0,
     receiveDelay1 |-> DefaultReceiveDelay1, moved |-> {}]

(* A node that was activated by personalisation, or not at all.            *)
Init ==
    /\ region \in Regions
    /\ nvm = RegionInitDefaults(region, "DEFAULTS", RegionBlank(region))
    /\ macParams = MacParamsDefaults(region, DefaultReceiveDelay1)
    /\ joined \in BOOLEAN
    /\ answers = {}
    /\ frame = NoFrame
    /\ windows = NoWindows
    /\ rxTimers = {}
    /\ rxSlot = "NONE"
    /\ radio = Asleep
    /\ net = NetDefaults(region)
    /\ asked = NoCommand
    /\ exchanges = 0
    /\ commands = 0

-----------------------------------------------------------------------------
(* ComputeRxWindowParameters: both windows, from what is set now.          *)
ComputedWindows(params, isJoined, datarate) ==
    LET rx1 == RegionComputeRxWindowParameters(region,
                   RegionApplyDrOffset(region, params.downlinkDwellTime, datarate,
                                       params.rx1DrOffset),
                   MinRxSymbols, SystemMaxRxError)
        rx2 == RegionComputeRxWindowParameters(region, params.rx2Datarate, MinRxSymbols,
                                               SystemMaxRxError)
        delay1 == IF isJoined THEN params.receiveDelay1 ELSE DefaultJoinAcceptDelay1
    IN  [slot \in Slots |->
            IF slot = "WIN_1" THEN [parameters |-> rx1, delay |-> delay1 + rx1.offset]
            ELSE [parameters |-> rx2, delay |-> delay1 + 1000 + rx2.offset]]

(* ScheduleTx and SendFrameOnChannel, on a channel that may be used now;   *)
(* sent counts from TxConfig what the frame takes.                         *)
ScheduleTx(channels, params, isJoined, kind, channel, datarate, size, said, trial) ==
    LET tx == RegionTxConfig(region, channels,
                  [channel |-> channel, datarate |-> datarate, txPower |-> 0,
                   maxEirp |-> params.maxEirp, antennaGain |-> Phy.antennaGain,
                   pktLen |-> size])
    IN  /\ channel \in RegionNextChannel(region, channels, isJoined, datarate)
                       \cap SendChannels[region]
        /\ windows' = ComputedWindows(params, isJoined, datarate)
        /\ radio' = [status |-> "tx", config |-> tx.radio]
        /\ frame' = [kind |-> kind, channel |-> channel, datarate |-> datarate, size |-> size,
                     timeOnAir |-> tx.timeOnAir, frequency |-> tx.radio.frequency,
                     said |-> said, trial |-> trial, heard |-> FALSE]

Sticky(cid) == cid \in {"DL_CHANNEL", "RX_PARAM_SETUP", "RX_TIMING_SETUP", "TX_PARAM_SETUP"}

(* The application sends as much as the data rate allows; the answers go   *)
(* with it, and those that are not sticky only once.                       *)
Send(channel, datarate) ==
    LET payload == RegionGetPhyParam(region, datarate, macParams.uplinkDwellTime,
                                     macParams.downlinkDwellTime).maxPayload
    IN  /\ frame = NoFrame /\ joined /\ exchanges < MaxExchanges
        /\ RegionVerify(region, "TX_DR", datarate, macParams.uplinkDwellTime,
                        macParams.downlinkDwellTime)
        /\ ScheduleTx(nvm, macParams, TRUE, "data", channel, datarate,
                      payload + PayloadOverhead, answers, 1)
        /\ answers' = {a \in answers : Sticky(a.cid)}
        /\ exchanges' = exchanges + 1
        /\ UNCHANGED <<region, nvm, macParams, joined, rxTimers, rxSlot, netVars, commands>>

(* A join request is sent at the data rate the region makes of the one     *)
(* that was asked for.                                                     *)
JoinDatarates ==
    UNION {RegionAlternateDr(region, dr) : dr \in SendDatarates[region]}

(* LoRaMacMlmeRequest of MLME_JOIN, in a session or without: the           *)
(* parameters and the mask are reset, the receive delays and the answers   *)
(* of the last session stay.                                               *)
JoinRequest(channel, datarate) ==
    LET params == MacParamsDefaults(region, macParams.receiveDelay1)
        channels == RegionInitDefaults(region, "RESET_TO_DEFAULT_CHANNELS", nvm)
    IN  /\ frame = NoFrame /\ exchanges < MaxExchanges
        /\ datarate \in JoinDatarates
        /\ ScheduleTx(channels, params, FALSE, "join", channel, datarate, 23, {}, 1)
        /\ macParams' = params
        /\ nvm' = channels
        /\ joined' = FALSE
        /\ exchanges' = exchanges + 1
        /\ UNCHANGED <<region, answers, rxTimers, rxSlot, netVars, commands>>

(* The exchange ended without a downlink: MacDone.                         *)
MacDone == frame # NoFrame /\ radio = Asleep /\ rxTimers = {}

(* The same frame again, confirmed or not, on a channel drawn anew.        *)
Repeat(channel) ==
    /\ MacDone /\ frame.kind = "data" /\ frame.trial = 1
    /\ ScheduleTx(nvm, macParams, TRUE, "data", channel, frame.datarate, frame.size, frame.said, 2)
    /\ UNCHANGED <<nodeVars, rxTimers, rxSlot, netVars, exchanges, commands>>

Over ==
    /\ MacDone
    /\ frame' = NoFrame
    /\ windows' = NoWindows
    /\ UNCHANGED <<nodeVars, rxTimers, rxSlot, radio, netVars, exchanges, commands>>

-----------------------------------------------------------------------------
(* The network: what it has when a command is accepted.                    *)
Adopted(cmd) ==
    CASE cmd.cid = "RX_PARAM_SETUP" ->
            [net EXCEPT !.rx1DrOffset = cmd.drOffset, !.rx2Frequency = cmd.frequency,
                        !.rx2Datarate = cmd.datarate]
      [] cmd.cid = "RX_TIMING_SETUP" -> [net EXCEPT !.receiveDelay1 = 1000 * Most(cmd.delay, 1)]
      [] cmd.cid = "TX_PARAM_SETUP" -> [net EXCEPT !.downlinkDwellTime = cmd.downlinkDwellTime]
      [] cmd.cid = "DL_CHANNEL" ->
            [net EXCEPT !.moved = {m \in @ : m.channel # cmd.channel}
                                  \cup {[channel |-> cmd.channel, frequency |-> cmd.frequency]}]
      [] OTHER -> net

(* An uplink that it hears concludes what it had asked.                    *)
Concludes ==
    /\ asked' = NoCommand
    /\ net' = IF [cid |-> asked.cid, answer |-> "accepted"] \in frame.said THEN Adopted(asked)
              ELSE net

(* ProcessRadioTxDone: the radio sleeps, both timers run.                  *)
TxDone ==
    /\ radio.status = "tx"
    /\ radio' = Asleep
    /\ rxTimers' = Slots
    /\ \E heard \in BOOLEAN :
          /\ frame' = [frame EXCEPT !.heard = heard]
          /\ IF heard /\ frame.kind = "data" THEN Concludes ELSE UNCHANGED netVars
    /\ UNCHANGED <<nodeVars, windows, rxSlot, exchanges, commands>>

(* RxWindowSetup: standby, configuration, reception.                       *)
RxWindowSetup(slot, frequency) ==
    LET parameters == windows[slot].parameters
    IN  /\ radio' = [status |-> "rx",
                     config |-> RegionRxConfig(region, nvm,
                        [rxSlot |-> slot, channel |-> frame.channel, frequency |-> frequency,
                         datarate |-> parameters.datarate, bandwidth |-> parameters.bandwidth,
                         timeout |-> parameters.timeout, rxContinuous |-> FALSE])]
        /\ rxSlot' = slot

OnRxWindow1TimerEvent ==
    /\ "WIN_1" \in rxTimers
    /\ rxTimers' = rxTimers \ {"WIN_1"}
    /\ RxWindowSetup("WIN_1", 0)
    /\ UNCHANGED <<nodeVars, frame, windows, netVars, exchanges, commands>>

(* While window 1 still receives, window 2 is not opened.                  *)
OnRxWindow2TimerEvent ==
    /\ rxTimers = {"WIN_2"}
    /\ rxTimers' = {}
    /\ IF rxSlot = "WIN_1" THEN UNCHANGED <<radio, rxSlot>>
       ELSE RxWindowSetup("WIN_2", macParams.rx2Frequency)
    /\ UNCHANGED <<nodeVars, frame, windows, netVars, exchanges, commands>>

-----------------------------------------------------------------------------
(* The windows the network uses for an uplink it hears, from the uplink's  *)
(* frequency and what it believes of the node.                             *)
MirrorChannel(frequency) ==
    CASE region = "CN470" -> 500300000 + ((frequency - 470300000) \div 200000 % 48) * 200000
      [] region = "US915" ->
            923300000 + 600000 * (IF frame.datarate = 4 THEN (frequency - 903000000) \div 1600000
                                  ELSE (frequency - 902300000) \div 200000 % 8)
      [] region = "AU915" ->
            923300000 + 600000 * (IF frame.datarate = 6 THEN (frequency - 915900000) \div 1600000
                                  ELSE (frequency - 915200000) \div 200000 % 8)
      [] OTHER -> frequency

NetWindow(slot) ==
    LET believed == IF frame.kind = "join" THEN NetDefaults(region) ELSE net
        moved == {m \in believed.moved : m.channel = frame.channel}
        delay1 == IF frame.kind = "join" THEN DefaultJoinAcceptDelay1 ELSE believed.receiveDelay1
    IN  IF slot = "WIN_1"
        THEN [frequency |-> IF moved = {} THEN MirrorChannel(frame.frequency)
                            ELSE (CHOOSE m \in moved : TRUE).frequency,
              datarate |-> RegionApplyDrOffset(region, believed.downlinkDwellTime, frame.datarate,
                                               believed.rx1DrOffset),
              delay |-> delay1]
        ELSE [frequency |-> believed.rx2Frequency, datarate |-> believed.rx2Datarate,
              delay |-> delay1 + 1000]

(* The window that is open on the node.                                    *)
NodeWindow ==
    [frequency |-> radio.config.frequency, datarate |-> windows[rxSlot].parameters.datarate,
     delay |-> windows[rxSlot].delay - windows[rxSlot].parameters.offset]

(* A downlink of the network gets through.                                 *)
Reached == radio.status = "rx" /\ frame.heard /\ NetWindow(rxSlot) = NodeWindow

(* The commands it may send, given the uplink it answers.                  *)
NewChannels == {[frequency |-> f, rx1Frequency |-> 0, minDr |-> 0, maxDr |-> 5, band |-> 0] :
                f \in NetFrequencies[region] \cup {0}}
Commands ==
    [cid : {"RX_PARAM_SETUP"}, frequency : NetFrequencies[region],
     datarate : NetRxDatarates[region], drOffset : NetDrOffsets[region]]
    \cup [cid : {"RX_TIMING_SETUP"}, delay : NetDelays]
    \cup [cid : {"NEW_CHANNEL"}, channel : NetChannelIds, new : NewChannels]
    \cup [cid : {"TX_PARAM_SETUP"}, uplinkDwellTime : {0, 1}, downlinkDwellTime : {0, 1},
          maxEirp : {5}]
    \cup [cid : {"DL_CHANNEL"}, channel : NetChannelIds, frequency : NetFrequencies[region]]

MayAsk(cmd) ==
    /\ asked = NoCommand /\ commands < MaxCommands
    /\ \A a \in frame.said : a.cid # cmd.cid
    /\ cmd.cid = "NEW_CHANNEL" => \A m \in net.moved : m.channel # cmd.channel

(* ProcessMacCommands: what a command leaves of the channels and the       *)
(* parameters, and its answer.                                             *)
Outcome(channels, params, answer) == [nvm |-> channels, macParams |-> params, answer |-> answer]

Processed(cmd) ==
    CASE cmd.cid = "none" -> Outcome(nvm, macParams, "none")
      [] cmd.cid = "RX_PARAM_SETUP" ->
            LET answer == RegionRxParamSetupReq(region, cmd.frequency, cmd.datarate, cmd.drOffset)
            IN  Outcome(nvm,
                        IF answer # "accepted" THEN macParams
                        ELSE [macParams EXCEPT !.rx1DrOffset = cmd.drOffset,
                                               !.rx2Frequency = cmd.frequency,
                                               !.rx2Datarate = cmd.datarate],
                        answer)
      [] cmd.cid = "RX_TIMING_SETUP" ->
            Outcome(nvm, [macParams EXCEPT !.receiveDelay1 = 1000 * Most(cmd.delay, 1)],
                    "accepted")
      [] cmd.cid = "TX_PARAM_SETUP" ->
            IF ~RegionTxParamSetupReq(region) THEN Outcome(nvm, macParams, "none")
            ELSE Outcome(nvm, [macParams EXCEPT !.uplinkDwellTime = cmd.uplinkDwellTime,
                                                !.downlinkDwellTime = cmd.downlinkDwellTime,
                                                !.maxEirp = MaxEirpTable[cmd.maxEirp]],
                         "accepted")
      [] cmd.cid = "NEW_CHANNEL" ->
            LET result == RegionNewChannelReq(region, nvm, cmd.channel, cmd.new)
            IN  Outcome(result.nvm, macParams, result.answer)
      [] cmd.cid = "DL_CHANNEL" ->
            LET result == RegionDlChannelReq(region, nvm, cmd.channel, cmd.frequency)
            IN  Outcome(result.nvm, macParams, result.answer)

EndsExchange ==
    /\ radio' = Asleep
    /\ rxTimers' = {}
    /\ rxSlot' = "NONE"
    /\ frame' = NoFrame
    /\ windows' = NoWindows

(* ProcessRadioRxDone of a data frame: the sticky answers have arrived and *)
(* are removed (RemoveMacCommands) before the command it carries, if any,  *)
(* is processed and answered.                                              *)
Downlink ==
    /\ Reached /\ frame.kind = "data"
    /\ \E cmd \in {NoCommand} \cup {c \in Commands : MayAsk(c)} :
          LET result == Processed(cmd)
              kept == {a \in answers : ~Sticky(a.cid)}
          IN  /\ nvm' = result.nvm
              /\ macParams' = result.macParams
              /\ answers' = IF result.answer = "none" THEN kept
                            ELSE kept \cup {[cid |-> cmd.cid, answer |-> result.answer]}
              /\ asked' = IF cmd = NoCommand THEN asked ELSE cmd
              /\ commands' = IF cmd = NoCommand THEN commands ELSE commands + 1
    /\ EndsExchange
    /\ UNCHANGED <<region, joined, net, exchanges>>

(* ProcessRadioRxDone of a join accept.                                    *)
JoinAccept ==
    /\ Reached /\ frame.kind = "join"
    /\ \E accept \in NetJoinAccepts[region] :
          LET delay == 1000 * Most(accept.rxDelay, 1)
          IN  /\ macParams' = [macParams EXCEPT !.rx1DrOffset = accept.rx1DrOffset,
                                                !.rx2Datarate = accept.rx2Datarate,
                                                !.receiveDelay1 = delay]
              /\ nvm' = RegionApplyCFList(region, nvm, accept.cfList)
              /\ net' = [NetDefaults(region) EXCEPT !.rx1DrOffset = accept.rx1DrOffset,
                                                    !.rx2Datarate = accept.rx2Datarate,
                                                    !.receiveDelay1 = delay]
    /\ joined' = TRUE
    /\ asked' = NoCommand
    /\ EndsExchange
    /\ UNCHANGED <<region, answers, exchanges, commands>>

(* HandleRadioRxErrorTimeout.  The network may have sent a command that    *)
(* did not get through.                                                    *)
RxTimeout ==
    /\ radio.status = "rx"
    /\ radio' = Asleep
    /\ rxSlot' = "NONE"
    /\ \/ UNCHANGED <<asked, commands>>
       \/ /\ frame.kind = "data" /\ frame.heard
          /\ \E cmd \in {c \in Commands : MayAsk(c)} : asked' = cmd
          /\ commands' = commands + 1
    /\ UNCHANGED <<nodeVars, frame, windows, rxTimers, net, exchanges>>

Next ==
    \/ \E c \in SendChannels[region], dr \in SendDatarates[region] : Send(c, dr)
    \/ \E c \in SendChannels[region], dr \in JoinDatarates : JoinRequest(c, dr)
    \/ \E c \in SendChannels[region] : Repeat(c)
    \/ Over
    \/ TxDone
    \/ OnRxWindow1TimerEvent
    \/ OnRxWindow2TimerEvent
    \/ Downlink
    \/ JoinAccept
    \/ RxTimeout

Spec == Init /\ [][Next]_vars

-----------------------------------------------------------------------------
(* Properties.                                                             *)

(* Windows agreed: whatever commands were asked, refused, lost or answered *)
(* in a lost uplink before, and whatever a new session kept of the old, a  *)
(* window that opens after an uplink the network has heard is the one the  *)
(* network sends in: same frequency, data rate and delay.                  *)
WindowsAgreed ==
    radio.status = "rx" /\ frame.heard => NodeWindow = NetWindow(rxSlot)

(* Windows timed: the radio listens wakeup time after the window is opened *)
(* and for the symbols it is given.  If the clocks are apart by as much as *)
(* SystemMaxRxError either way, it hears MinRxSymbols of the eight symbols *)
(* of a LoRa preamble, less the millisecond the timers round to; it then   *)
(* finds the header before the chip's own timer ends the reception; and a  *)
(* window 1 without a frame is over before window 2 opens.                 *)
HeardUs(parameters, errorUs) ==
    LET tSymbol == SymbolTimeLoRaUs(radio.config.datarate, BandwidthInHz(radio.config.bandwidth))
        opens == 1000 * (parameters.offset + WakeupTimeMs)
        closes == opens + radio.config.symbols * tSymbol
    IN  Least(closes, errorUs + 8 * tSymbol) - Most(opens, errorUs)

WindowsTimed ==
    radio.status = "rx" /\ radio.config.modem = "LORA" =>
        LET parameters == windows[rxSlot].parameters
            tSymbol == SymbolTimeLoRaUs(radio.config.datarate,
                                        BandwidthInHz(radio.config.bandwidth))
            opens == 1000 * (parameters.offset + WakeupTimeMs)
        IN  /\ \A error \in {-SystemMaxRxError, 0, SystemMaxRxError} :
                  /\ HeardUs(parameters, 1000 * error) >= MinRxSymbols * tSymbol - 1000
                  /\ 1000 * error + (81 * tSymbol) \div 4 - opens < 1000 * radio.config.timerMs
            /\ rxSlot = "WIN_1" =>
                  1000 * (windows["WIN_1"].delay + WakeupTimeMs)
                      + radio.config.symbols * tSymbol < 1000 * windows["WIN_2"].delay

(* Longest frame: where the tables hold the payload without the header     *)
(* (AS923's hold it with the header), the longest frame of a data rate     *)
(* fits into what the radio was told to send or to receive, an uplink is   *)
(* over before the timer of the transmission, and a downlink before the    *)
(* reception is given up, however far the clocks are apart.                *)
LongestFrame ==
    region # "AS923" =>
        /\ radio.status = "tx" =>
              radio.config.maxPayload = frame.size /\ frame.timeOnAir < TxTimeoutMs
        /\ radio.status = "rx" =>
              LET dr == windows[rxSlot].parameters.datarate
                  size == RegionGetPhyParam(region, dr, 0, 0).maxPayload + PayloadOverhead
              IN  /\ size <= radio.config.maxPayload
                  /\ SystemMaxRxError + RegionGetTimeOnAir(region, dr, size)
                         - windows[rxSlot].parameters.offset < Phy.maxRxWindow

(* Windows legal: no sequence of commands, lists of channels (CFList) and  *)
(* new sessions, legal or not, leaves a frequency the region does not have *)
(* in a channel or a window, and none of commands moves a window to a data *)
(* rate the region has no downlinks at.  It says nothing of sessions whose *)
(* join accept set such a data rate (AcceptsAssumption).                   *)
WindowsLegal ==
    /\ "channels" \in DOMAIN nvm =>
          \A c \in DOMAIN nvm.channels :
             \A f \in {nvm.channels[c].frequency, nvm.channels[c].rx1Frequency} :
                f # 0 => RegionVerify(region, "FREQUENCY", f, 0, 0)
    /\ radio.status = "rx" =>
          LET dr == windows[rxSlot].parameters.datarate
          IN  /\ RegionVerify(region, "FREQUENCY", radio.config.frequency, 0, 0)
              /\ RegionVerify(region, "RX_DR", dr, macParams.uplinkDwellTime, 0)
              /\ rxSlot = "WIN_1" =>
                    dr >= RegionGetPhyParam(region, dr, macParams.uplinkDwellTime,
                                            macParams.downlinkDwellTime).minRxDr
=============================================================================
