# A verification development for DFRobot_LoRaWAN

TLA+ models of the LoRaWAN node software in this repository: the MAC layer
(a port of Semtech's LoRaMac-node), the SX126x driver under it and the Arduino
API above it. TLC checks the models on small instances, TLAPS proves theorems
about them for every value of their constants. `PROJECT.json` maps every
definition to the lines it models; paths there begin with `src/`, the root of
the repository.

## The system

| part | code | state it keeps | operations | works with |
|---|---|---|---|---|
| node API, LoRa task | `src/DFRobot_LoRaWAN.cpp` | the binary semaphore `loraIntSem`, callbacks, parameters | `init`, `join`, `sendConfirmedPacket`, `sendUnconfirmedPacket`, `deepSleepMs`, `loraTask` | calls LmHandler and the MAC from the application's task; `loraTask` runs `LmHandlerProcess` |
| LmHandler | `src/apps/LoRaMac/common/LmHandler/LmHandler.c` | handler parameters, join and Tx/Rx parameters | join, class requests, forwarding of confirms and indications | MAC primitives |
| MAC core | `src/mac/LoRaMac.c` | `MacCtx` and `Nvm` (in RTC memory), `LoRaMacRadioEvents`, `rxtimeoutflag` | `McpsRequest`, `MlmeRequest`, MIB, `LoRaMacProcess`, radio and timer callbacks | radio, timers, confirm queue, commands, crypto, region |
| MLME confirm queue | `src/mac/LoRaMacConfirmQueue.c` | ring buffer of five, count, two pointers, common status | add, remove, set status, `HandleCb` | MAC core; calls `MacMlmeConfirm` |
| MAC commands | `src/mac/LoRaMacCommands.c` | pool of slots, linked list, serialized size | add, remove, serialize, sticky commands | MAC core |
| crypto, frame counters | `src/mac/LoRaMacCrypto.c` | keys, `FCntUp`, the `FCntDown`s, nonces | secure, unsecure, counters | MAC core |
| ADR | `src/mac/LoRaMacAdr.c` | none | next data rate and power | MAC core |
| class B | `src/mac/LoRaMacClassB.c` | beacon, ping slot and multicast state machines | compiled with `LORAMAC_CLASSB_ENABLED` | MAC core |
| regions | `src/mac/region/*` | channels, masks, channels left of a hop round, bands | next channel, data rates, command verification, window and radio configuration, duty cycle | MAC core, radio |
| radio driver | `src/radio/sx126x/*` | operating mode, `IrqFired`, two timers | send, receive, `RadioBgIrqProcess` | DIO1 interrupt, MAC callbacks |
| timers | `src/boards/mcu/espressif/timer.cpp` | ten `Ticker`s | init, start, stop | all of the above |
| packages | `.../LmHandler/packages/*` | clock sync, fragmentation sessions and decoder, multicast setup, compliance | never registered by this library | LmHandler |
| point-to-point radio | `src/DFRobot_LoRaRadio.cpp` | callbacks, the driver's variables | send, receive, channel activity detection, standby | radio driver, in place of the MAC |
| others | system time, NVM management, Cayenne LPP, display library, examples | | | |

How they interact. Three contexts share the MAC's memory without a lock. The
*application's task* calls `LoRaMacMcpsRequest`, which ends with the frame given
to the radio. The *timer task* of the Ticker library opens the receive windows,
notes that an acknowledgement is overdue and sends what the duty cycle delayed.
The *LoRa task* sleeps on `loraIntSem`; `RadioOnDioIrq` gives it, and each time
the task runs `RadioBgIrqProcess` (interrupt bits to MAC events) and then
`LoRaMacProcess` (events, retransmissions, confirms, indications) once.
`MacProcessNotify` is empty here, so nothing but a radio interrupt wakes it.

What is hard. Which of the three contexts runs when; windows that are opened
while the end of the last one is being handled; a receive timeout reported
without waking anybody; state kept in RTC memory across a deep sleep that cuts
an exchange short; the MAC state forced to idle by a confirmed request; counters
that are read in one step and compared in a later one; a queue that is walked
while callbacks add to it; command answers that pile up between the application's
query and its request; downlinks that are late, repeated or of the session before.
`PROJECT.json` lists these hazards by line.

What makes each part correct. *MAC core*: a frame's header and MIC agree, no
counter secures two frames, a confirm belongs to its request and comes after the
windows, no window cuts a transmission off, the MAC is busy only while something
will free it, every request is confirmed. *Confirm queue*: it is a bounded
sequence, the walk stays within it and confirms all that is ready. *Commands*:
the size it reports is what it serializes, a frame fits its limit, an answer is
forgotten only when it was sent and a sticky one only when the network has the frame.
*Counters*: a downlink counter never goes back, a new frame is never refused, an
acknowledgement answers a frame that was accepted. *Duty cycle*: a
band spends no more than it has earned, however requests, repetitions and delayed
frames follow one another; a frame that is delayed is sent in the end. *Regions and
ADR*: whatever commands, settings, joins and back-offs do to channels, masks and data
rates, the next frame is legal, hops are even, and a node nobody answers falls back to
its lowest data rate. *Windows*: a window opens where, when and at the data rate the
network sends, long enough to hear a preamble, whatever command or answer was lost.
*Joining*: the sketch is told the truth, and no counter is used twice under one key.
*Point-to-point radio*: the antenna is powered when the chip needs it, every frame's end
is reported, no packet is delivered twice. *Fragmentation*: a session that ends has the
whole file, and it ends as soon as what arrived determines it.

Where the code does not keep one of these, the property checked says what it does keep,
and "Seen while modelling" says where it fails.

## Modules

| module | what it is |
|---|---|
| `ConfirmQueueAbs` | what the confirm queue promises: a bounded sequence of requests |
| `ConfirmQueue` | `LoRaMacConfirmQueue.c`: the ring buffer, `HandleCb` split around its callback; refines `ConfirmQueueAbs` |
| `LoRaMac` | data uplinks of a joined class A or C node: the three contexts, the transceiver and time |
| `LoRaMacProofs` | types, what keeps the MAC busy, how often a frame goes out; counters and confirms of a MAC nothing forces to idle; the order of transmission, windows and confirm of such a node in class A; then all of `FCntDown`, and the invariants and the refinement of `ConfirmQueue`, proved |
| `MacCommandsAbs` | what the store of MAC commands promises: a sequence of bounded length |
| `CommandSequences` | two operators the store and its abstract specification share |
| `MacCommands` | `LoRaMacCommands.c`, slots and list pointers, with the handlers of `LoRaMac.c` that use it; refines `MacCommandsAbs` |
| `MacCommandsProofs` | its types and all its properties, the refinement among them, proved |
| `FCntDown` | the downlink counter of `LoRaMacCrypto.c` and the acknowledgement a confirmed downlink asks for |
| `DutyCycle` | time credits of `RegionCommon.c`, the aggregated time off, and the schedule of a frame that must wait |
| `DutyCycleProofs` | its types and the properties that hold, proved |
| `RegionParams` | what the regions' headers fix of channels and data rates, for `ChannelPlan` |
| `ChannelPlan` | channels, masks, hop rounds and data rates with all that changes them: choice of a channel, `LinkAdrReq` and the other commands, joins, settings, ADR and retry back-off |
| `Joining` | from the sketch's `init` and `join` to its callback: node API, LmHandler, `MlmeRequest`, the confirm queue (as `ConfirmQueueAbs`), keys and counters, deep sleep and power loss |
| `JoiningProofs` | when a counter may be used again under one key, and that the sketch is told the truth, proved |
| `RegionPhy` | what all regions compute for a receive window, the transmit power, the time on air and a radio configuration |
| `RegionProofs` | that a window computed for any symbol time and clock hears the preamble, and all that `ChannelPlan` says of plans and choices, proved |
| `ListRegion`, `FixedRegion` | the channels of a region that starts with a few and of one with a fixed band |
| `RegionRadio` | how a region configures the radio, given its tables |
| `RegionAS923` ... `RegionUS915` | the ten regions: their tables and what only they do, instances of the three above |
| `Region` | `Region.c`: the dispatch to the region in use |
| `RxWindows` | the receive windows of a class A node: the exchange, the commands that move them, the network on the other side; composes `Region` and `RegionPhy` |
| `RxWindowsProofs` | its four properties, proved for all regions |
| `PointToPoint` | `DFRobot_LoRaRadio.cpp` over the driver, command by command |
| `PointToPointProofs` | that packets are delivered once whichever tasks use the radio, proved |
| `FragDecoder` | `FragDecoder.c` and the fragmentation session that feeds it |
| `FragDecoderProofs` | its types, its invariant, that its arrays hold what is put there, that a file is complete and that its session ends as soon as it can, proved |
| `MCConfirmQueue`, `MCLoRaMac`, `MCMacCommands`, `MCFCntDown`, `MCDutyCycle`, `MCChannelPlan`, `MCJoining`, `MCRxWindows`, `MCPointToPoint` | instances for TLC (`FragDecoder` needs none) |

### ConfirmQueue

Pointers are indices; the elements keep their four fields. `Add`, `RemoveLast`,
`SetStatus`, `SetStatusCmn` and `ReInit` are the functions of the API.
`LoRaMacConfirmQueueHandleCb` is cut where it calls out: `HandleCb` starts a walk of as
many elements as there are, `HandleReady` calls `MacMlmeConfirm`, during which only
`Add` may run (the callback may request again), `HandleReturn` removes the confirmed
element, `HandleDefer` moves an unanswered one to the back. `SleepEndsWalk` is a deep
sleep, which ends a walk anywhere: the context is in RTC memory. `Visited` is the
do-while of `SetStatusCmn`, which with both pointers equal goes all the way round.
Exported but not called in this library: `RemoveLast`.

### LoRaMac

One action per call between two points where another context can run:

* application: `McpsRequest(type)` is `LoRaMacMcpsRequest` up to the busy check,
  `Send` the rest (`PrepareFrame`, `ScheduleTx(false)`, `SecureFrame`,
  `SendFrameOnChannel`); `DeepSleep` is `startDeepSleep` and the wake-up;
* LoRa task: `BgIrqProcess` (`RadioBgIrqProcess` and the snapshot
  `LoRaMacHandleIrqEvents` takes), one `ProcessRadio...` per event in the code's
  order, `EventsHandled`, `CheckForRxAbort`, `HandleMcpsRequest`,
  `HandleRequestEvents`, `McpsConfirmReturns`, `HandleIndicationEvents`,
  `OpenContinuousRxCWindow`;
* timer task: `OnRxWindow1TimerEvent`, `OnRxWindow2TimerEvent`,
  `OnAckTimeoutTimerEvent`, `OnTxDelayedTimerEvent`, `RadioOnRxTimeoutIrq`;
* outside the code: `TransmissionEnds`, `ReceptionEnds`, `ReceptionTimesOut`
  (the chip raises interrupt bits and DIO1), `Tick` (time).

Abstractions. A frame is its request, its header's counter and the counter of
its MIC. `MacState` and `MacFlags` are the sets of their bits. `ScheduleTx` finds
a channel, a duty cycle delay, one of no length, or an error (`TxPlans`), in any order;
the third, `NO_WAIT`, is the answer OK of a repetition that is neither sent nor delayed
(lines 2552-2563). Two observers note what the properties except: `unscheduled` such a
repetition, `cutShort` an exchange ended from outside `LoRaMacProcess`. A downlink
is an acknowledgement, other data, proprietary, or one of the many frames that
end in `PrepareRxDoneAbort`. Time is the number of delays passed since the last
transmission; a timer is never a whole delay late, and an application does not
stay within `LoRaMacMcpsRequest` for a delay. MAC commands in frames, MLME
requests and the class B windows are not in this module.

### MacCommands

A slot holds a command and the pointer to the next; a pointer is a slot number.
`AddCmd`, `RemoveCmd`, the three bulk removals and `SerializeCmds` are the
functions of the API, `LinkedListAdd` and `LinkedListRemove` their helpers, and
the running `SerializedCmdsSize` is a variable next to what it should equal.
Around them are the handlers that call them: `Downlink` adds an answer per request
(`ProcessMacCommands`) after `RemoveMacCommands`, `MlmeRequest` a link check or
device time request, `Query` is `LoRaMacQueryTxPossible` as the API asks it,
`Send` and `SendFails` the request made later, when the list or the data rate may
be another. Payload values and order within a command are left out. A downlink comes in a
window of class A, of the uplink or a repetition, with or without the acknowledgement, or
of class C at any time. Two observers: `proved` says that the last downlink shows that the
network has the frame that is out, `late` holds the sticky answers queued since it was
made.

### FCntDown

The network numbers its downlinks with the whole counter; a frame carries the low
half. `Outcome` is what `LoRaMacCryptoGetFCntDown`, `CheckFCntDown` and the MIC make
of it: a MIC is right exactly for the counter the network used. `HalfRange` stands
for 2^16. Frames may be lost, arrive late and arrive again. `SendBegins` reads
`SrvAckRequested`, `SendSucceeds` clears it. `JoinRequest` leaves the old session's
keys and counters in force until `JoinAccept`, as the code does. In class A
(`ClassC = FALSE`) a reception ends the windows of a join and none is open while a
request is being sent; a class C node hears at any time. The multicast counters
follow the same code and have no copy here; the two counters of LoRaWAN 1.1 are
never selected, as the node always answers as version 1.0.

### DutyCycle

A joined node whose duty cycle is on. `ScheduleTx` is the function with the calls it
makes: `CalculateBackOff` (`BackOff`), the aggregated time off of
`RegionCommonIdentifyChannels`, `UpdateTimeCredits` for every band, the wait of
`RegionCommonUpdateBandTimeOff`, the choice among the channels of ready bands, and
`TxDelayedTimer` or an error. `Send`, `Repeat` and `OnTxDelayedTimerEvent` are its three
callers; `ProcessRadioTxDone` charges the band, `ProcessRadioTxTimeout` does not.
`LoRaMac` has this as a plan in any order; here it has its clock, one tick per
millisecond, and an exchange is only its order. `due` is the end of the frame on the air
or of the delay; `mac = "lost"` is a MAC in `LORAMAC_TX_RUNNING` with no timer.

A frame is its time on air. `Usable` gives the bands with an enabled channel for its
data rate: the longest has none, as after a change of channel mask. The clock starts
again in a deep sleep and does not come round otherwise (2^32 ms are 49 days). A
`DutyCycleReq` comes in the windows after a frame, as in class A. `elapsed` and
`spent` belong to an observer, who opens a window at any time and adds up what the
bands are on the air, weighted by their duty cycle, until a first deep sleep; a
frame whose end the radio did not report is taken out again, as the code does not
charge it. Class B and the join back-off of a node not joined are left out.

### ChannelPlan

`nvm` is what a region keeps: the data rates of its channels, the two masks, the
channels left of a hop round and the join group. Regions come in three plans
(`RegionParams`); one action is one call: `McpsRequest`, `JoinRequest` with its
alternating data rate, `JoinAccept`, `Repeat` and `OnTxDelayedTimerEvent`, `Downlink`
with one command or one block of `LinkAdrReq`, the MIB requests, `SetSubBand` and
`DelChannel`. `NextChannel` gives the outcomes of `Region<name>NextChannel` with the
channels it replenishes even when it then fails; `NextDr`, `NextTxPower` and
`NextAdrAckCounter` are `LoRaMacAdrCalcNext`. `picks` belongs to an observer who counts
hops.

A frame too long for its data rate is refused after a channel was chosen. With ADR off
the data rate is the request's. Window parameters, bands and frequencies are not here but
in `RxWindows` and `DutyCycle`; the default data rate and power stay the region's. Bits of
a mask beyond the channels of RU864, and of `LinkAdrReq` control 4, are not modelled.

### Joining

`Setup` is `LoRaWAN_Node::init`: it starts afresh unless the node is activated in RTC
memory. `Join(t)` looks at `isJoined`, `Requests` is `LoRaMacMlmeRequest` made later, from
the sketch's task or from the callback. The LoRa task handles one event, then confirms,
then calls back, each an action; `DeepSleep` and `PowerLoss` may come between them and
leave what is in RTC memory. An exchange is how each of its windows ends. `OTHER` is a
frame that ends in `PrepareRxDoneAbort`; `FRAME` one that is accepted and answers no join:
a proprietary frame or a downlink of the session the join is to replace. Neither answers
the request in the queue (`NoAnswer`). `nbTrans` is whether `ChannelsNbTransCounter` is at
least one, by which `SecureFrame` takes the next uplink for a repetition (`NextCounter`);
a sleep in mid-exchange keeps it. A DevNonce is its place in the order (it is drawn from a
counter in RTC memory or at random, `USE_RANDOM_DEV_NONCE`; a repetition by chance is left
out). Session keys and requests are named by their DevNonce. Observers: `waiting` holds
the requests the sketch has no answer to, `spoiled` those whose exchange a frame ended
without an answer and those whose answer went to such a one (`SetStatus` answers the first
join in the queue, not the one on the air), `informed` the session the sketch was last
told of, `unended` whether the last uplink's exchange was cut short. What is not an answer
here is the `false` with which `join` itself calls back when the MAC refuses
(`OnMacMlmeRequest`).

### Regions and RxWindows

`RegionPhy` computes with the code's integer arithmetic: `WindowTimeout` and
`WindowOffsetMs` (`RegionCommonComputeRxWindowParameters`), the rounding of the chip's
symbol counter, `TimeOnAirMs`, eight-bit payload limits. A `Region<name>` module is the
translation of its header and C file: tables, frequencies it accepts, `RxConfig`,
`TxConfig`, `ApplyCFList`, `RxParamSetupReq`, `NewChannelReq`, `DlChannelReq`,
`ApplyDrOffset` and the rest of what `Region.c` dispatches to.

`RxWindows` runs exchanges of one node with a network server. `ScheduleTx` computes both
windows, the timers open them, `ProcessMacCommands` changes the parameters and queues the
answers, sticky ones until a downlink is heard, `JoinAccept` and a new session set them
back. The server (`net`, `asked`) is not code of this repository; it is modelled by
what the node depends on: it acknowledges each confirmed frame in the downlink it
answers it with; it asks one command at a time, and none whose answer the uplink it
answers already carries; a command whose answer is not in the next uplink it hears was
lost; it does not redefine a channel whose window 1 it moved. The class C window is left
out.

`WindowsTimed` allows one millisecond, to which the timers round. `LongestFrame` leaves
out AS923, whose tables hold another quantity (see below).

### PointToPoint

A call of the sketch is a sequence of commands, each the write of a pin or one command on
the bus; `Command(t)` carries out the next of task `t`. Both tasks call, as the examples
do: `examples/07.LoRaReliableSend` calls `stopRx` and `sendData` from `loop()` and
`startRx` from the transmit callback, which the LoRa task runs. They interleave between
any two commands. `RadioBgIrqProcess` is cut where it reads the flags, clears them, looks
at `TX_DONE`, reads the payload, looks at `RX_DONE` and at `CAD_DONE` (`place`, `After`);
a callback (`inCallback`) may call. The chip transmits, listens and detects on its own,
raises flags at any moment, also between the reading and the clearing, and DIO1 on an
edge only. Sent and received packets share the base of the chip's buffer, as in the
driver. Observers: `unreported` and `wiped` of the last frame that ended, `delivered`,
and `overrun`, the packets heard while an earlier one is being read (after the flags were
read and before the payload was) or with their flags turned off. Encryption, modulation
settings, timeouts (which have no callback and change nothing here) and deep sleep (which
ends the program) are left out.

### FragDecoder

Data is the set of fragments it is the exclusive or of, so both `Xor...` functions are
symmetric differences; the matrix is its rows, without the packing of a triangle into
bits. `FragDecoderProcess` is cut at its two data-dependent loops, `Eliminate` and
`BackSubstitute`. `Parity` is the code's generator of parity rows in the run; the proofs
use nothing of it. `MaxCoded` and `MaxSessions` bound coded fragments and sessions. Of
the arrays the model keeps the sizes: `VectorBits` of `dataTempVector` and `S`, whole
bytes of `ByteBits` bits, and the triangle in `MatrixM2B`. A first coded fragment that
finds more losses than a vector has bits overflows it (`FragDecoder.c` lines 342-389 do
not check); there the model stops (`Overflow`). `heard` and `late` belong to an observer:
the fragments that came, and those of them the decoder dropped because a higher one had
come before.

## Runs

| run | instance | checks |
|---|---|---|
| `confirm_queue` | three slots, two types, two statuses | `HandledAllReady`, refinement of the bounded sequence |
| `unconfirmed` | class A, two requests, two repetitions, all downlinks, receive and transmit timeouts, delays of any length, none included | counters, confirms, windows, repetitions, and that every request is confirmed unless a repetition was neither sent nor delayed |
| `confirmed` | class A, two requests, confirmed (of two trials) and not, forced idle, every outcome of scheduling, one deep sleep | busy for a reason, whatever was forced; how often a frame goes out, unless its exchange was cut short |
| `mac_commands` | three slots, commands of three sizes, two payload limits; downlinks of both classes, repetitions, joins and data rate changes between query and request | store, frame sizes, forgetting, sticky answers until heard, refinement |
| `fcnt_down` | class A, two halves of four values, gap of three, two frames on the way, rejoins | acceptance, acknowledgements answer accepted frames |
| `duty_cycle` | two bands of a half and a third, three times on air, a period of five, nine ticks, time off of one frame, one deep sleep | token bucket, paid in full, aggregated time off |
| `channels` | five small regions: two lists (one with dwell time and listen-before-talk), two hop plans, a mask plan; two changes | plan consistent, legal channels, even hops, usable `LinkAdrReq`, and that silence backs off |
| `joining` | a class C node of either activation, three joins, two uplinks per session, two sleeps or power losses, windows with accepts, bad accepts, other sessions' and other nodes' frames | answers come unless the exchange was spoiled, and are true; counters once per key unless an exchange was cut short |
| `rx_windows` | all ten regions, four exchanges, two commands | windows agreed, timed, long enough; legal, given legal join accepts |
| `point_to_point` | four calls from the sketch's task and from the callbacks, two packets | reports of frames' ends, deliveries |
| `frag_decoder` | six fragments, redundancy three, seven coded fragments, two sessions | file complete; ends when what came in time determines it |
| `ack_timeout` | class A, one confirmed request whose acknowledgement may be lost | violated: see below |

Bounds. Two requests: the second meets all the first may leave behind; a third meets
nothing the second could not. Two repetitions or trials tell "again" from "first".
`FCntModulus` makes the header's counter wrap within the run and `FlagModulus` the
timeout flag: with two, one receive timeout sets it and the second wraps it to 0. Three
slots: with three, full, empty and wrapped rings and an element between two of one type
all occur; with three command slots a command is removed from the head, the middle and
the end of the list, and the store fills up. With sixteen counters the low half rolls
over three times before the session ends; two frames on the way suffice for one that is
late and one that is newer, and every frame may be repeated at any time. A duty cycle run
ends after nine ticks (`MaxNow`): a band with five credits spends them, is refused, earns
enough for a second frame and is charged for it, with a window opened at any point, and
may then do as much after a deep sleep; costs of two to six lie below, at and above the
period. Two bands tell the one charged from the one waited for. `channels` runs on
regions cut down to two to four channels, of the same shape as the real ones (default and
added channels, a data rate no default channel has, a bank with its 500 kHz channel, two
banks); a hop round is begun, left by a change of mask and replenished within the run,
and ADR's limit and delay are one and two frames. Two changes (a setting, a command, a
join) meet each other and every state of an exchange. `joining`'s three joins are one
that is running, one from the callback and one after a sleep, or three in the queue of
which a frame spoils one. `rx_windows` takes of each region two channels, its slowest and
fastest data rate, and of each parameter one value it accepts and one it refuses; a
command, its lost answer, the next command and a new session need four exchanges. In
`point_to_point` four calls are two of one task and two of the other, or a send and a
receive disturbed by two more; two packets tell the one delivered from the next.
`frag_decoder` has more losses than the redundancy, a second session over the first's
remains, every order and repetition of thirteen fragments, and, with vectors of four
bits, losses that overflow them. The runs set `CHECK_DEADLOCK FALSE` where the
application stops after its last request or the clock at its bound. `ConfirmAfterWindows`
and `TransmissionUndisturbed` are checked for unconfirmed class A uplinks only: in class
C a confirm may come while a window is still pending, and with confirmed uplinks a stale
`AckTimeoutRetry` or the forced idle state breaks both.

Fairness (`FairSpec`). In `LoRaMac`: the LoRa task is the only task of its priority and
runs whenever it can: weak fairness of `LoRaTask`. The timer task has the highest
priority: weak fairness of each callback. The application finishes a call it began
(`Send`), the transceiver ends what it does (a transmission, a window with a timeout; no
fairness of receptions), time passes. Requests and deep sleeps carry no fairness.
`Joining` assumes the same of its tasks, callbacks, transmissions and windows;
`PointToPoint` that the sketch's task finishes a call and the LoRa task runs, and nothing
of the chip: `FrameReported` begins with the end of a frame. `ChannelPlan` asks
more, and has to: `SilenceBacksOff` is about a node that goes on sending, so the
application goes on requesting, and of its requests and of the repetitions not all are
refused (strong fairness of those that are sent).

## What the violation shows

`ack_timeout`. `LoRaMac.h` lines 804-805 promise a number of trials "if the
LoRaMAC layer did not receive an acknowledgment". The acknowledge timer sets
`AckTimeoutRetry` and calls `MacProcessNotify`, which is empty; after the second
window no interrupt comes, the LoRa task sleeps, the frame is neither repeated
nor confirmed.

## Seen while modelling

The modules state some properties the code does not keep, marked so in their comments.
To see a counterexample, add the property to a configuration:

* `SkippedMeansNotSent` (`MCMacCommands.cfg`, INVARIANT). When the commands exceed FOpts,
  `PrepareFrame` answers `LORAMAC_STATUS_SKIPPED_APP_DATA`, "The application data was not
  transmitted" (`LoRaMac.h` line 2271), but the data goes out, and the commands do not.
* In class C (`ClassC = TRUE` in `MCFCntDown.cfg`) `AckAnswersAccepted` falls. Not stated
  as a property: `Send` reads `SrvAckRequested` and clears it later; a confirmed class C
  downlink which the LoRa task, of higher priority, accepts in between is never
  acknowledged by "the next transmission" (`LoRaMac.h` line 567).
* `ConfirmNamesCounter` (`MCConfirmed.cfg`, PROPERTY). A confirmed request after a receive
  timeout calls `SetMacState(0)` with the last exchange still running; the confirm names
  a counter its frame was not sent with (`LoRaMac.h` line 914). A deep sleep in
  mid-exchange, after which counters go on from RTC memory, has the same effect.
* `TrialsBounded` without `cutShort` (the same). The request that forces the MAC to idle
  sets `AckTimeoutRetriesCounter` back while the LoRa task or the txDelayed timer still
  repeats the old frame, which then goes out a third time where two were asked for. So
  does a delayed transmission that fails in its timer.
* `DelayedNotLost` (`MCDutyCycle.cfg`, INVARIANT). A band is ready when its credits
  exceed the costs, but the wait ends when they are equal (`RegionCommon.c` line 336).
  For a repetition `ScheduleTx(true)` with a wait of 0 answers OK, sends nothing and
  starts no timer (`LoRaMac.c` lines 2555-2557 mean to delay it): the MAC stays busy and
  the request is never confirmed (`EveryRequestConfirmed` in `MCUnconfirmed.cfg`).
* `EveryJoinAnswered` (`MCJoining.cfg`, PROPERTY). Any frame in a window of a join request
  that is no answer to it ends the exchange without one: another node's in
  `PrepareRxDoneAbort` (`LoRaMac.c` line 786), a proprietary one or a downlink of the old
  session with `MacDone` alone (line 1221). The request stays in the queue until a later
  exchange confirms it, as failed, or takes that exchange's answer for its own.
* `FailureMeansOff` (`MCJoining.cfg`, PROPERTY). A joined node may be told of a failed
  join: a first window that hears nothing marks every join in the queue as failed (line
  1283), an accept in the second window sets only the first right (line 932), and the
  walk reports the success and then the other's failure; and an element kept in RTC
  memory over a sleep is reported as failed by a later exchange.
* `CounterNeverReused` of `Joining` (`MCJoining.cfg`, PROPERTY). After a deep sleep in
  mid-exchange `ChannelsNbTransCounter` is still one: `SecureFrame` takes the next
  unconfirmed frame for a repetition, gives it the interrupted frame's counter and takes
  its payload for one already encrypted. And an ABP node's counters start again after a
  loss of power (`LmHandler.c` line 488).
* `StickyOnlyOnceSent` (`MCMacCommands.cfg`, PROPERTY). A sticky answer queued while the
  frame is out, in the window of a repetition or by a class C downlink, is removed by the
  next acknowledgement though no uplink carried it (`LoRaMac.c` lines 2640-2657); so is
  one the frame skipped for lack of room.
* `AntennaOn` (`MCPointToPoint.cfg`, INVARIANT). `stopRx` of one task turns the antenna
  off in the middle of `sendData` or `startRx` of the other: the chip sends or listens
  without.
* `EndsWhenAllDetermined` (`MCFragDecoder.cfg`, INVARIANT). A fragment that comes after
  one with a higher number is dropped though it is missing (`FragDecoder.c` lines
  319-322): with 1, 2, 3, 5, 4, 6 and a coded fragment without 4, all that came
  determines the file, and the session goes on.
* `ClassAsChosen` (`MCJoining.cfg`, INVARIANT). A join request switches to class A
  (`LoRaMac.c` line 2382) and nothing switches back: a class C sketch runs in class A.
* `RestoredAfterFailure` (`MCChannels.cfg`, INVARIANT). "Datarate not supported by any
  channel, restore defaults" (`RegionEU868.c` line 877) restores the default channels,
  which may not have the data rate either.
* `OnlySupportedDatarates` (`MCChannels.cfg`, PROPERTY, with `IN865` of `RegionParams`,
  a new channel of the data rates 5 to 7 and a `LinkAdrReq` for 7). "DR_6 is not
  supported by this region" (`RegionIN865.c` line 352) is checked when a data rate is
  asked for, not when the ADR back-off steps down from 7.

The MAC: a delayed transmission that fails in its timer loses the confirm; a stale
`AckTimeoutRetry` confirms a later request before its windows; in class C a frame
received while a request is being sent ends its transmission, and if its repetition was
neither sent nor delayed the next frame's header and MIC disagree; in class C a confirmed
downlink of the old session heard between a join request and its Join-Accept makes the
new session begin with an acknowledgement of nothing; a transmission the radio does not
report as done in time is not charged to its band (line 1226); `sendUnconfirmedPacket`
returns the reverse of what `DFRobot_LoRaWAN.h` lines 247-248 say (`DFRobot_LoRaWAN.cpp`
line 522); the pool of ten tickers (`timer.cpp` line 92) is never refilled, which is
harmless with six timers.

The duty cycle: a request made when the `DutyCycleWaitTime` it was told is over can be
refused again, with a wait of 0 (the same off-by-one); a band that was idle spends its
full credits at once and goes on with what it earns, up to one and a half times the
limit in the hour that follows, where a comment (`RegionCommon.c` lines 50-52) says
"never" (`TokenBucket` is the bound that does hold); after a deep sleep `millis()`
starts again while `LastBandUpdateTime` is kept, the unsigned difference is huge and the
band has all its credits back, so a node that sleeps between its frames is hardly
limited.

Channels and data rates: `addChannel` is always rejected, as it adds with id 0; a send
that fails consumes a hop; control 6 of `LinkAdrReq` keeps bits of undefined channels;
`JoinTrialsCounter` wraps at 256, which breaks "every ninth"; at the lowest data rate
the ADR counter stays 0, so the transmit power is never raised there; in US915 control 7
leaves only 500 kHz channels, the retries of a confirmed frame lower its data rate to 0,
and no channel is found; the two channels at least that a comment says the FCC mandates
(`RegionUS915.c` line 681) are not ensured by a mask the application sets.

Windows and regions: after an accepted `RxParamSetupReq` the class C window has the new
data rate and the old frequency until the next uplink (`OpenContinuousRxCWindow`, lines
2759-2779); the answers of an old session stay queued in the new one; the window 2 data
rate and the offset of a join accept are used unverified (lines 905-907; an offset of 7 is
outside US915's table of four), which is why `RxWindows` assumes them legal
(`AcceptsAssumption`) and shows nothing of other accepts; a window
opened a millisecond late misses an FSK preamble and hears less of 500 kHz; AS923's
payload tables hold the MAC payload instead of the application's, so that 250 + 13 wraps
the radio's eight bits, DR_2 takes 452 ms of an allowed 400, and a downlink at DR_0 some
3121 ms of the reception's 3000; EU868 and US915 add 3 dB after the power was limited;
`ChannelsRemove` and `DlChannelReq` index the channels before they check the id. Only
EU868, CN470 and US915 can be selected (`DFRobot_LoRaWAN.cpp` lines 40-51). Only EU868
and US915 keep the pointers to their channels in RTC memory (`RegionEU868.c` lines
42-43): after a deep sleep a joined CN470 node does not initialise them again.

Joining: a join that is refused calls `joinCb` from within `join` (`DFRobot_LoRaWAN.cpp`
lines 138-153), from which the examples join again, recursively; a deep sleep in `joinCb`
leaves the element and `MacDone` in RTC memory, so that later exchanges report a failed
join and the first uplink after waking is confirmed as soon as it is sent; `txCb` is
called for join confirms too; two package hooks read a pointer that is NULL (lines 461
and 590); a joined class C node that wakes opens no window until its next uplink.

Point-to-point radio: the handler reads the flags and then clears all of them
(`radio.c` lines 1518-1521), so that a frame which ends in between is never reported; with
`TX_DONE` and `RX_DONE` in one reading the transmit callback runs before the payload is
read, and the packet heard meanwhile is delivered twice, in the other's place and as
itself; `startCad` or `sendData` of one task takes the receive flags, `startCad` also
`TX_DONE`, out of the mask while the other still waits for them; received and sent data
share the buffer, so the receive callback may get the sketch's own frame; `sendData` while
receiving may transmit a packet just received; the driver's transmit timeout (`radio.c`
line 1346) wakes nobody; the antenna switch is left on after waking from sleep; the chip
select of the bus is not guarded between the two tasks (`sx126x-board.cpp` line 191); a
second `init` leaks a task.

Fragmentation: nothing registers the package; a session's status is 0, which means
finished, before any is set up, so that a fragment then calls `OnDone`; `OnDone` is told
`NOT_STARTED` (`LmhpFragmentation.c` line 482) and only with the next fragment; a
session without losses ends only with a coded fragment; a first coded fragment that finds
more losses than `dataTempVector` has bits writes beyond it (`FragDecoder.c` lines
342-389); a decoder that gave up stays so
until the next set-up; four sessions share one decoder; deleting a session does not stop
it.

## Proofs

`LoRaMacProofs`, for every class, plan, network and bound (`UplinkAssumption`):

* `TypeCorrect`;
* `BusyForAReasonAlways`. An abort is followed up: inductive only with
  `AbortsHandled`, which adds that the LoRa task is between the event and
  `CheckForRxAbort`, where nothing clears `MacDone`;
* `TrialsBoundedAlways`, of the frame on the air, not of a counter. Unless an exchange was
  cut short, a request that waits for its confirm is being exchanged with counters that
  have kept up with how often its frame went out (`CountersKeepUp`), is about to be
  confirmed, or was put to sleep and nothing will wake the LoRa task (`TrialsInv`);
* under `NeverForced` (only unconfirmed requests, no deep sleep, no failing schedule;
  either class, in class C also no repetition that is neither sent nor delayed, after
  which an aborted reception would clear the MAC's state): `UplinkInv` is inductive, and
  `HeaderMatchesMicUnforced`, `RepetitionsBoundedUnforced`,
  `ConfirmNamesCounterUnforced`, `CounterNeverReusedUnforced` and
  `OneRequestAtATimeUnforced` follow. `UplinkInv` ties the repetition counter to
  everything it stands for: while it is not zero the frame in `TxMsg` carries the
  current counter, its request is unconfirmed and the MAC is busy or
  `LoRaMacProcess` is deciding; while it is zero nothing is sent or delayed.
  Without the assumption these properties do not hold (see above);
* of those nodes in class A: `ConfirmAfterWindowsUnforced` and
  `TransmissionUndisturbedUnforced`. `WindowInv` divides an exchange into seven phases,
  from a request to `Sending`, `Waiting`, `Listening` and back, and says for each what
  transceiver, driver, interrupt bits, timers, slot and LoRa task may be at together. It
  cannot be had in parts: a window may open only because no interrupt is pending, none is
  pending because the LoRa task has cleared it, and the task has nothing to do because no
  window is open. In class C the first property is false, its receiver never rests.

Two smaller parts of the MAC are proved at the end of the same module.

The confirm queue (`ConfirmQueue`), for every length and every set of requests: its
invariant (types, pointers and count agree, what a walk may rely on) is inductive; from
it `RingConsistent` and `WalkWithinQueue`, the action property `HandledAllReady`, and
the refinement of `ConfirmQueueAbs` step by step. The strengthening is needed because
count and pointers are updated separately, and because "all handled" depends on what is
behind the part still to be walked.

The downlink counter (`FCntDown`), for every width of the header's half and every gap up
to it, any number of frames on the way (`HalfRangeAssumption`, `GapAssumption`). The
heart is `Reconstruction`: counters less than a low half apart have the same high half
or neighbouring ones, so the sign of the difference of their low halves tells which, and
the extension is exact. From it `FreshAlwaysAccepted`; `CounterAlwaysGrows` follows from
`CheckFCntDown` alone. For class A, `AckInv` adds to `AckAnswersAccepted` that nothing
is owed while a plain uplink is being sent or a Join-Accept is awaited; from it
`AckAlwaysAnswersAccepted`. In class C it is false (see above).

`MacCommandsProofs`, for any commands, sizes, limits and number of slots
(`SizeAssumption` to `AnswersAssumption`). The argument is one sentence: the slots always
hold a sequence. `Chain` says that a list of slots is what First, the next pointers and
Last spell out, each slot once and every other slot free; `Lists` adds that the running
size is theirs; `Holds(c, cmds)` that such a list carries these commands. Per function of
`LoRaMacCommands.c` a lemma says what it does to the sequence: `HoldsAdd` appends, the
three removals and `SerializeCmds` select. `RemoveLists` is the crux: unlinking one
element, with its predecessor searched for from the head, leaves the others in order.
`IInv`, types and `Holds`, is inductive (`Invariant`), and `StoreIsConsistent`,
`FramesFit`, `AnswersForgottenOnlyWhenSent`, `StickyKeptUntilHeard` (by `SentInv`: while
a frame is out, the sticky answers are those it carried and then those queued since, or
the latter alone once the network has shown that it has the frame) and the refinement of
`MacCommandsAbs` (`StoreImplementsSequence`) follow. What a walk along a list computes
needs induction. The library's theorems for it take an operator, so the module states
induction for sets: a set of naturals has a lowest element (`LowestProperties`), hence
`UpTo`, `SequenceInduction`, and `Recursion`, that a function defined step by step
exists. For this the model's walks are recursive functions (`Selected`, `TotalSize`,
`RemoveAll`, `AddAll`) rather than folds and `SelectSeq`, whose definitions are out of
the provers' reach.

`DutyCycleProofs`, for any bands, duty cycles, times on air, periods and clock widths
(`BandAssumption` to `SleepAssumption`). `TypeInv` adds to `TypeOK` that a delayed frame
is one the application may send. `BucketInv` is the argument for `AlwaysPaidInFull`,
which holds across deep sleeps, and `AlwaysTokenBucket`: a band's potential is what it
holds once the frame on the air is charged and the time since its last update is
credited, at most the period; until a deep sleep, potential and what the window has seen
spent are together at most the period and the time passed. Charging a band keeps the
sum, an update or a tick adds no more than time does. The invariant needs the pending
frame because the band is charged only when the frame is done, long after the credits
were looked at. `AggregatedAlwaysRespected` rests on `AggregatedInv`: a stored time off
is that of the frame sent last, and when that is not the last completed frame, it was
sent, as was every one since, when the completed one's time off was over. The arithmetic
needs of unsigned times only that a remainder is at most what it is taken of.

`FragDecoderProofs`, for files of any length, any redundancy, any bounds and any parity
rows (`FragDecoderAssumption`). The invariant has four parts: `Received` (the row of a
fragment that came holds it), `Numbering` (missing fragments are numbered from one, each
once), `Matrix` (rows in use have a one on the diagonal, the others are untouched) and
`Places` (the place of a missing fragment holds exactly the fragments its row names, or
the fragment alone once back substitution has passed it). `Places` is what elimination
and back substitution keep true step by step, and with the diagonal it is why the last
step leaves every fragment in its place: `Complete`. `ArraysHold` says that the rows and
columns in use stay within `S`, `dataTempVector` and `MatrixM2B`, given room in the
latter for the triangle of any vector (`MatrixAssumption`, true of the code's sizes) and
short of `Overflow`. `EndsInTime` is a matter of rank, which the provers have no theory
of, and of induction, which they cannot do. `RankInv` keeps instead what an induction
would have to find: for every row the matrix lacks a set of missing fragments, beginning
with it, that meets every row of the matrix in an even number (`Slack`), so that all of
them could be inverted and no row would see it; and no coded fragment that arrived sees
what the matrix does not (`Heard`), since elimination adds rows to it, which change no
parity. While the session goes on a row is lacking, and its set shows that what arrived
does not determine the file. A fragment that came in time is not missing (`Arrived`); a
late one the decoder dropped still is, and `EndsInTime` leaves it out.

`JoiningProofs`, for any number of joins, uplinks, sleeps and losses of power, either
kind of activation and a queue of any length (`JoiningAssumption`). A node is *off*, or
*settled* (activated, no join under way, no accept to come: its keys stay as they are
whatever a sleep left in its flags), or its exchange is *ordered*: the MAC is busy while
anything is on the air, reported or being handled, so that no join request comes between.
These three are `Modes`; with `Keys`, by which counters are unused under keys that may
still be derived, the counter is never behind those used, and an uplink would take the
last one again only if the exchange before was never ended, they make `KeyInv` inductive
(`KeysFresh`), and `CounterAlwaysOncePerKey` follows. `AnswersAlwaysTruthful` needs
`TruthInv` besides. An answer of OK is at the head of the queue only, while the walk that
reports it is still to reach it; the request on the air is in the queue and not among
those the walk has still to report; while the sketch waits for any answer, the node is
off the network, or the sketch knows of the session, or is told of it next: so a second
join that is reported as failed after the first's success misleads nobody. `WalkBounded`
keeps the walk within the queue. OK in the queue of a node that sleeps in its callback
breaks this for a settled node, which expects no answer: hence `Disciplined`.

`RegionProofs` first has the receive window, for every symbol time in microseconds,
every clock error in milliseconds and up to eight symbols wanted: `DivCeilBounds` (the
macro rounds up by less than the divisor, for negative numbers too), `SymbolsGiven`
(mantissa and exponent never lose a symbol) and `TimeoutCovers` (the timeout covers the
symbols wanted and twice the clock's error beyond the preamble) give `WindowHears`: the
part of the preamble that falls in the window is as long as the symbols wanted, less the
millisecond the opening is rounded to. It assumes a timeout of at most 248 symbols, the
most the driver asks of the chip; `RxWindowsProofs` takes the regions' actual data rates.

Then `ChannelPlan`, for any set of regions and of inputs. The assumptions are
`RegionsAssumption`, that a region is `WellFormed` (there are no more default channels
than channels, channels offer the lowest data rate, 500 kHz channels one of their own,
joins and resets a data rate the dwell time allows), which TLC evaluates for the ten
regions of the code as well as for the five of the run (`RegionsOfTheCode` in
`MCChannelPlan`), and `InputsAssumption`, that masks name channels. `PlanSound` of the
plan and `NodeSound` of the rest are inductive: each operation on a plan has a lemma
(`AddedSound`, `CFListSound`, `ReplenishedSound`, ...), each action another. They add to
`PlanConsistent` what it rests on: default channels and default masks are the region's,
only a hop plan has rounds, a delayed repetition is never a join request. From them
`PlanAlwaysConsistent`, `FramesOnLegalChannels` and `AcceptedBlocksUsable`.
`HopsAlwaysEven` needs besides that since the enabled channels last changed a round has
`Level` picks: the channels still to come in the round lag at most one behind, those an
earlier round had used up may lead by one, and some channel has the least picks of all.

`RxWindowsProofs`, for any subset of the ten regions, any commands, frequencies, data
rates, delays and join accepts the network sends, and any number of them. The
assumptions are rules for the network: a join accept has values the region would accept
in a command (`AcceptsAssumption`; the node uses them unverified, see above, so that
`WindowsAreLegal` shows the checks of commands and channel lists sufficient and says
nothing of accepts that break the rule), delays are
natural numbers, and channels it names exist (`ChannelIdsAssumption`). The module has
three layers.

* *The regions*, each lemma stated once and proved region by region from the tables and
  the code's case distinctions: what `InitDefaults`, `ApplyCFList`, `NewChannelReq` and
  `DlChannelReq` make of a sound plan (`PlanSound`), which channel `NextChannel` offers,
  that `ApplyDrOffset` and accepted parameters are data rates of downlinks, that the
  network's arithmetic finds the channel the node answers on (`Mirrors`), and that the
  windows, configurations and times on air of all regions come down to one formula each
  (`WindowIs`, `RadioIs`).
* *The invariant* `IInv` (`Invariance`). `NodeSound`: plan and parameters are the
  region's. `SetupAgreed`, the heart: what the network believes, once the answer it
  still awaits is counted if it is queued, is what the node has set. It has to speak of
  answers not sent yet, since the node changes its parameters when the command comes and
  the network when the answer does, any number of exchanges later. `FrameDrawn`: the
  frame that runs was drawn from the plan, and its windows computed from the parameters,
  as they are now, so no command comes between. `FrameAnswers`: the answers queued are
  the sticky ones it carries, and if it was heard, none is the one awaited.
  `JoinDefaults`, `RadioSound`, `AnswersSound`, `BeliefSound`: what a join runs with,
  what the radio does, shapes. One lemma per action; `Downlink` has one per command.
* *The properties.* `WindowsAgree` and `WindowsAreLegal` compare both sides' windows
  under `IInv`. `WindowsAlwaysTimed`: a symbol is one of eight lengths from 256 us to
  32.8 ms (`SymbolTimes`); tables of the timeout, the offset and the symbols the chip
  makes of each show all of them in time (`HearingTable`), with the smallest offset
  bounding how early window 2 may open. `LongestFramesFit` needs `Sized` besides `IInv`:
  a frame is no longer than the data rate's payload and its header, and the radio knows
  its length. What was computed for the modulations (`AirTimes`) then bounds every frame
  by 2.9 s.

`PointToPointProofs`, for any number of calls from both tasks and of packets
(`PointToPointAssumption`), in every interleaving with the handler and the chip.
`FreshInv` follows a packet from the flag that announces it to its callback: while the
flag is up, the buffer holds a packet not yet given out (`AnnouncedFresh`); so it does
while the handler that has read the flag is on its way to the payload (`ReadFresh`), and
what it has read is no longer announced (`GivenFresh`), or it is an overrun or the
sketch's own frame, of which `DeliveredOnce` promises nothing. From it
`PacketsDeliveredOnce`.

Proved and not run, because the run of the same module shows more: `RingConsistent`,
`WalkWithinQueue`, `CounterOnlyGrows`, the types of `LoRaMac`, `DutyCycle`, `FCntDown` and
`MacCommands`, and of `LoRaMac` what holds in class C as well as in class A.

Only model-checked: the liveness properties (`SentRequestsConfirmed`, `SilenceBacksOff`,
`JoinsAnswered`, `FrameReported`), which speak of fairness and are beyond the prover.
Every safety property a passing run checks is a theorem.

## What is left

Within reach of the same methods, in this order: the class C window and the commands of
a class C node in `RxWindows`; the join back-off of a node that is not joined, in
`DutyCycle`; clock synchronisation.

Not modelled, and why. Class B is compiled only with `LORAMAC_CLASSB_ENABLED`, which
nothing defines: its functions are empty here. NVM management's call is commented out of
`LmHandlerProcess`. The parser and serializer are byte layout, the secure element is
cryptography, boards are SPI and GPIO access. System time is set only by class B and
clock synchronisation. Cayenne LPP, the display library and the examples are no part of
the node.
