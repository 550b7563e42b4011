---------------------------- MODULE ChannelPlan -----------------------------
(***************************************************************************)
(* The channel plan and the data rate of a class A node: the channels, the *)
(* masks and, in a hop plan, the channels that remain of the present       *)
(* round, with everything that changes them: the choice of a channel for   *)
(* each frame, the MAC commands, the join accept, the application's        *)
(* settings, the ADR back-off of a node that hears nothing and that of a   *)
(* confirmed frame without an acknowledgement.  What an exchange does      *)
(* otherwise is in LoRaMac, when a band is free in DutyCycle.              *)
(*                                                                         *)
(* nvm is RegionNvmDataGroup1_t and RegionNvmDataGroup2_t.                 *)
(***************************************************************************)
EXTENDS RegionParams, FiniteSets, SequencesExt

CONSTANTS
    Regions,          \* the regions, of which a node has one
    AppDatarates,     \* LmHandlerParams.TxDatarate
    AppMasks,         \* by plan: what a MIB request may make the mask
    CFLists,          \* by plan: what a join accept may carry
    LinkAdrBlocks,    \* by plan: contiguous LinkAdrReq of a downlink, the last one last
    NewChannels,      \* by plan: what NewChannelReq and DlChannelReq may ask for
    AdrAckLimit, AdrAckDelay,    \* REGION_COMMON_DEFAULT_ADR_ACK_LIMIT and _DELAY
    JoinPeriod,       \* 9: every so many join requests one on a 500 kHz channel
    TrialsModulus,    \* 2^8: JoinTrialsCounter
    NbTrials,         \* of a confirmed frame
    MaxChanges        \* bound: settings, join requests and downlinks

(* What the values Region<name>.h fixes for a region have in common.       *)
WellFormed(r) ==
    /\ r.plan \in {"list", "hop", "mask"}
    /\ r.maxDr \in Nat /\ r.minTxPower \in Nat /\ r.dwell \in 0..1
    /\ r.dwellDr \in 0..r.maxDr
    /\ r.channelDrs \subseteq 0..r.maxDr /\ 0 \in r.channelDrs
    /\ {r.joinDr, r.defaultDr} \subseteq MinTxDr(r, r.dwell)..r.maxDr
    /\ IF r.plan = "list"
       THEN r.channels \in Nat /\ r.defaults \in 1..r.channels /\ r.cfList \in Nat
       ELSE r.banks \in Nat \ {0} /\ r.bankSize \in Nat \ {0}
    /\ r.plan = "hop" =>
          r.wideDr \in MinTxDr(r, r.dwell)..r.maxDr /\ r.wideDr \notin r.channelDrs

ASSUME RegionsAssumption == \A r \in Regions : WellFormed(r)

ASSUME InputsAssumption ==
    /\ AppDatarates \subseteq Nat
    /\ \A r \in Regions :
          /\ \A mask \in AppMasks[r.plan] : mask \subseteq ChannelIds(r)
          /\ r.plan # "list" => \A list \in CFLists[r.plan] : list \subseteq ChannelIds(r)
          /\ \A block \in LinkAdrBlocks[r.plan] :
                Last(block).dr \in Nat /\ Last(block).power \in Nat /\ Last(block).nbRep \in Nat
    /\ AdrAckLimit \in Nat /\ AdrAckDelay \in Nat \ {0}
    /\ JoinPeriod \in Nat \ {0} /\ TrialsModulus \in Nat \ {0}

VARIABLES
    region, nvm,
    joinTrials,           \* JoinTrialsCounter
    joined,               \* NetworkActivation
    datarate, txPower,    \* ChannelsDatarate, ChannelsTxPower
    nbTrans,              \* ChannelsNbTrans
    adrOn, adrAckCounter, uplinkDwellTime,
    mac,                  \* "idle", "windows", "unanswered" (no ack in them), "delayed"
    kind,                 \* of the exchange: "join", "unconfirmed", "confirmed", "none"
    tries,                \* ChannelsNbTransCounter or AckTimeoutRetriesCounter
    channel,              \* of the last frame of the exchange; 0 between exchanges
    picks,                \* how often each 125 kHz channel was chosen since they changed
    changes

adrVars == <<datarate, txPower, nbTrans, adrOn, adrAckCounter, uplinkDwellTime>>
exchVars == <<mac, kind, tries, channel>>
vars == <<region, nvm, joinTrials, joined, adrVars, exchVars, picks, changes>>

-----------------------------------------------------------------------------
(* The state of the region, as functions of it.                            *)

MinDr == MinTxDr(region, uplinkDwellTime)

Larger(a, b) == IF a >= b THEN a ELSE b

Defined(n) == {c \in ChannelIds(region) : n.drs[c] # {}}
Supports(n, c, dr) == dr \in n.drs[c]

(* RegionCommonChanVerifyDr: of an undefined channel the range is 0..0.    *)
ChanVerifyDr(n, mask, dr) ==
    /\ dr \in MinDr..region.maxDr
    /\ \E c \in mask : Supports(n, c, dr) \/ (n.drs[c] = {} /\ dr = 0)

(* RegionCommonGetNextLowerTxDr, as the set of its one value.              *)
NextLowerTxDr(n, dr) ==
    LET valid == {d \in MinDr..(dr - 1) : ChanVerifyDr(n, n.mask, d)} \cup {MinDr}
    IN  IF dr <= MinDr THEN {MinDr} ELSE {d \in valid : \A e \in valid : e <= d}

(* INIT_TYPE_DEFAULTS.                                                     *)
Defaults(r) ==
    [drs |-> [c \in ChannelIds(r) |-> DefaultDrs(r, c)],
     rx1 |-> {},
     mask |-> DefaultChannels(r),
     defaultMask |-> DefaultChannels(r),
     remaining |-> IF r.plan = "hop" THEN DefaultChannels(r) ELSE {},
     group |-> 0]

(* Mutant: the round keeps channels the new mask disables.                 *)
WithMaskOnly(n, mask) == [n EXCEPT !.mask = mask]

(* A new mask takes from the present round the channels it disables.       *)
WithMask(n, mask) == [n EXCEPT !.mask = mask, !.remaining = @ \cap mask]

(* INIT_TYPE_ACTIVATE_DEFAULT_CHANNELS.                                    *)
Activated(n) ==
    IF region.plan = "list" THEN [n EXCEPT !.mask = @ \cup n.defaultMask]
    ELSE WithMask(n, n.defaultMask)

(* INIT_TYPE_RESET_TO_DEFAULT_CHANNELS.                                    *)
ResetToDefaults(n) ==
    [WithMask(n, n.defaultMask) EXCEPT !.rx1 = @ \ DefaultChannels(region)]

(* Region<name>ChannelAdd, of a channel with a frequency of the region.    *)
CanAdd(c, drs) ==
    /\ region.plan = "list"
    /\ c \in region.defaults..(region.channels - 1)
    /\ drs # {} /\ drs \subseteq Datarates(region)
Added(n, c, drs) ==
    [n EXCEPT !.drs[c] = drs, !.mask = @ \cup {c}, !.rx1 = @ \ {c}]

(* Region<name>ChannelsRemove, for a set of channels.                      *)
Removed(n, cs) ==
    [n EXCEPT !.drs = [c \in DOMAIN @ |-> IF c \in cs THEN {} ELSE @[c]],
              !.mask = @ \ cs, !.rx1 = @ \ cs]

(* Region<name>ApplyCFList: a list of frequencies, here of the channels    *)
(* for which it has one, or masks.                                         *)
CFListApplied(n, list) ==
    IF region.plan = "list"
    THEN LET others == region.defaults..(region.channels - 1)
             added == {c \in others :
                          c - region.defaults \in list /\ c < region.defaults + region.cfList}
         IN  [Removed(n, others) EXCEPT
                 !.drs = [c \in DOMAIN @ |-> IF c \in added THEN region.channelDrs ELSE @[c]],
                 !.mask = @ \cup added]
    ELSE WithMask(n, list)

-----------------------------------------------------------------------------
(* Region<name>LinkAdrReq.  A request is [ctrl, bits, dr, power, nbRep].   *)

(* What a request makes of the mask the ones before it left; a list plan  *)
(* starts each from its own bits, so that there only the last one counts.  *)
ListMaskAfter(n, req) == req.bits \cup (IF req.ctrl = 6 THEN Defined(n) ELSE {})

Word(w) == {ChannelOfBit(region, w, b) : b \in 0..(2 * region.bankSize - 1)}
BitsOf(req) == {ChannelOfBit(region, req.ctrl, b) : b \in req.bits} \cap ChannelIds(region)
WordReplaced(mask, req) == (mask \ Word(req.ctrl)) \cup BitsOf(req)

HopMaskAfter(mask, req) ==
    LET banks == req.bits \cap 0..(region.banks - 1)
        wide == UNION {WideOf(region, b) : b \in banks}
    IN  CASE req.ctrl = 7 -> wide
          [] req.ctrl = 6 -> Narrow(region) \cup wide
          [] req.ctrl = 5 -> UNION {SubBand(region, b) : b \in banks}
          [] OTHER -> WordReplaced(mask, req)

MaskMaskAfter(mask, req) ==
    CASE req.ctrl = 6 -> ChannelIds(region)
      [] req.ctrl = 7 -> mask
      [] OTHER -> WordReplaced(mask, req)

MaskAfterRequest(mask, req) ==
    IF region.plan = "hop" THEN HopMaskAfter(mask, req) ELSE MaskMaskAfter(mask, req)

BlockMask(n, block) ==
    ChannelIds(region)
    \cap (IF region.plan = "list" THEN ListMaskAfter(n, Last(block))
          ELSE FoldLeft(MaskAfterRequest, n.mask, block))

(* The channel mask bit of the status: only the last request counts.       *)
ChannelMaskOK(n, mask, req) ==
    CASE region.plan = "list" ->
            \/ req.ctrl = 6
            \/ req.ctrl = 0 /\ mask # {} /\ mask \subseteq Defined(n)
      [] region.plan = "mask" -> req.ctrl # 7
      [] region.plan = "hop" ->
            req.dr >= region.wideDr \/ Cardinality(mask \cap Narrow(region)) >= 2

(* RegionCommonLinkAdrReqVerifyParams: with ADR off all but the mask stays.*)
LinkAdrDatarate(req) == IF adrOn THEN req.dr ELSE datarate
LinkAdrTxPower(req) == IF adrOn THEN req.power ELSE txPower
LinkAdrNbRep(req) == IF ~adrOn THEN nbTrans ELSE IF req.nbRep = 0 THEN 1 ELSE req.nbRep

(* Mutant: the data rate asked for is verified, though with ADR off the    *)
(* present one stays.                                                      *)
LinkAdrAcceptedAsAsked(n, block) ==
    LET req == Last(block)
        mask == BlockMask(n, block)
    IN  /\ ChannelMaskOK(n, mask, req)
        /\ req.dr \notin region.unsupported
        /\ ChanVerifyDr(n, mask, req.dr)
        /\ LinkAdrTxPower(req) <= region.minTxPower

LinkAdrAccepted(n, block) ==
    LET req == Last(block)
        mask == BlockMask(n, block)
    IN  /\ ChannelMaskOK(n, mask, req)
        /\ req.dr \notin region.unsupported
        /\ ChanVerifyDr(n, mask, LinkAdrDatarate(req))
        /\ LinkAdrTxPower(req) <= region.minTxPower

(* The accepted mask; in a hop plan all its 500 kHz channels remain.       *)
LinkAdrMasked(n, block) ==
    LET mask == BlockMask(n, block)
    IN  [n EXCEPT !.mask = mask,
                  !.remaining = (@ \cap mask \cap Narrow(region)) \cup (mask \cap Wide(region))]

-----------------------------------------------------------------------------
(* Region<name>NextChannel: the set of its outcomes, each a status, the    *)
(* state it leaves and the channel it chose, if any.                       *)
Outcome(status, n, c) == [status |-> status, nvm |-> n, channel |-> c]

(* Mutant: a round of hops restarts when one channel remains.              *)
ReplenishedEarly(n, dr) ==
    LET narrow == n.remaining \cap Narrow(region)
        few == Cardinality(narrow) <= 1
    IN  IF region.plan = "hop"
        THEN [n EXCEPT !.remaining = (IF few THEN n.mask \cap Narrow(region) ELSE narrow)
                                     \cup (n.mask \cap Wide(region)),
                       !.group = IF few THEN 0 ELSE @]
        ELSE [n EXCEPT !.mask = IF @ = {} THEN DefaultChannels(region) ELSE @]

(* The mask it starts from: a list or mask plan without an enabled channel *)
(* takes the default ones, a hop plan without a channel that remains       *)
(* starts a round.                                                         *)
Replenished(n, dr) ==
    LET narrow == n.remaining \cap Narrow(region)
        wide == n.remaining \cap Wide(region)
    IN  IF region.plan = "hop"
        THEN [n EXCEPT
                !.remaining = (IF narrow = {} THEN n.mask \cap Narrow(region) ELSE narrow)
                              \cup (IF wide = {} /\ dr >= region.wideDr
                                    THEN n.mask \cap Wide(region) ELSE wide),
                !.group = IF narrow = {} THEN 0 ELSE @]
        ELSE [n EXCEPT !.mask = IF @ = {} THEN DefaultChannels(region) ELSE @]

(* Mutant: the data rates of a channel are not asked.                      *)
CandidatesAtAnyDr(n, dr, isJoined) ==
    {c \in (IF region.plan = "hop" THEN n.remaining ELSE n.mask) :
        n.drs[c] # {} /\ (isJoined \/ c \in DefaultChannels(region))}

(* RegionCommonCountNbOfEnabledChannels, bands apart: channels to choose   *)
(* from; a node that is not joined has its join channels.                  *)
Candidates(n, dr, isJoined) ==
    {c \in (IF region.plan = "hop" THEN n.remaining ELSE n.mask) :
        /\ Supports(n, c, dr)
        /\ isJoined \/ c \in DefaultChannels(region)}

(* RegionBaseUSComputeNext125kHzJoinChannel: a channel of the first group  *)
(* from group on that has one, and the group after it.                     *)
JoinGroup(n) ==
    LET banks == 0..(region.banks - 1)
        distance(b) == (b - n.group) % region.banks
        some == {b \in banks : n.remaining \cap Bank(region, b) # {}}
    IN  {b \in some : \A a \in some : distance(b) <= distance(a)}

Chosen(n, dr, isJoined) ==
    LET candidates == Candidates(n, dr, isJoined)
        without(c) == [n EXCEPT !.remaining = @ \ {c}]
    IN  CASE region.plan # "hop" -> {Outcome("OK", n, c) : c \in candidates}
          [] region.plan = "hop" /\ isJoined ->
                {Outcome("OK", without(c), c) : c \in candidates}
          [] region.plan = "hop" /\ ~isJoined /\ dr = region.joinDr ->
                {Outcome("OK", [without(x.channel) EXCEPT !.group = (x.bank + 1) % region.banks],
                         x.channel) :
                    x \in {y \in [bank : JoinGroup(n), channel : candidates] :
                              y.channel \in Bank(region, y.bank)}}
          [] region.plan = "hop" /\ ~isJoined /\ dr # region.joinDr ->
                {Outcome("OK", without(c), c) :
                    c \in {d \in candidates : \A e \in candidates : d <= e}}

(* Nothing found: a list plan adds the default channels.                   *)
NotFound(n) ==
    IF region.plan = "list" THEN [n EXCEPT !.mask = @ \cup DefaultChannels(region)] ELSE n

NextChannel(n0, dr, isJoined) ==
    LET n == Replenished(n0, dr)
        found == Candidates(n, dr, isJoined) # {}
    IN  Chosen(n, dr, isJoined)
        \cup {Outcome("RESTRICTED", n, 0)}
        \cup (IF found THEN {} ELSE {Outcome("NO_CHANNEL", NotFound(n), 0)})
        \cup (IF found /\ region.lbt THEN {Outcome("NO_FREE_CHANNEL", n, 0)} ELSE {})

(* Whether a frame at dr finds a channel.                                  *)
Usable(n, dr) == Candidates(Replenished(n, dr), dr, TRUE) # {}

-----------------------------------------------------------------------------
(* LoRaMacInitialization; the node is activated by personalisation or has  *)
(* to join.                                                                *)
Init ==
    /\ region \in Regions
    /\ nvm = Defaults(region)
    /\ joinTrials = 0
    /\ joined \in BOOLEAN
    /\ datarate = region.defaultDr
    /\ txPower = 0
    /\ nbTrans = 1
    /\ adrOn \in BOOLEAN
    /\ adrAckCounter = 0
    /\ uplinkDwellTime = region.dwell
    /\ mac = "idle"
    /\ kind = "none"
    /\ tries = 0
    /\ channel = 0
    /\ picks = [c \in (IF region.plan = "hop" THEN Narrow(region) ELSE {}) |-> 0]
    /\ changes = 0

Changes ==
    /\ changes < MaxChanges
    /\ changes' = changes + 1

(* The observer counts how often a hop plan chose each 125 kHz channel     *)
(* since the enabled ones changed or the application set a sub-band;       *)
(* rounds in which it chose all are forgotten.                             *)
Hops == IF region.plan = "hop" THEN Narrow(region) ELSE {}
Picked(n, cs) ==
    LET enabled == n.mask \cap Hops
        counted == [c \in Hops |-> (IF enabled = nvm.mask \cap Hops THEN picks[c] ELSE 0)
                                   + (IF c \in cs THEN 1 ELSE 0)]
        round == IF \A c \in enabled : counted[c] > 0 THEN 1 ELSE 0
    IN  [c \in Hops |-> IF c \in enabled THEN counted[c] - round ELSE 0]

PlanBecomes(n) == nvm' = n /\ picks' = Picked(n, {})
PlanChooses(o) ==
    /\ nvm' = o.nvm
    /\ picks' = Picked(o.nvm, IF o.status = "OK" THEN {o.channel} ELSE {})

(* SendFrameOnChannel, and the end of an exchange.                         *)
Sends(k, c, n) == mac' = "windows" /\ kind' = k /\ channel' = c /\ tries' = n
Over == mac' = "idle" /\ kind' = "none" /\ channel' = 0 /\ tries' = 0

-----------------------------------------------------------------------------
(* CalcNextV10X: the data rate, power and counter of the next frame, and   *)
(* whether the default channels are activated for it.                      *)
BackedOff == adrAckCounter >= AdrAckLimit + AdrAckDelay
NextDr(dr) ==
    LET least == Larger(dr, MinDr)
    IN  IF adrOn /\ least # MinDr /\ BackedOff /\ adrAckCounter % AdrAckDelay = 1
        THEN NextLowerTxDr(nvm, least)
        ELSE {IF adrOn THEN least ELSE dr}
NextTxPower(dr) == IF adrOn /\ dr > MinDr /\ BackedOff THEN 0 ELSE txPower
NextAdrAckCounter(dr) == IF adrOn /\ dr <= MinDr THEN 0 ELSE adrAckCounter
ActivatesDefaults(dr, next) == adrOn /\ dr > MinDr /\ next = MinDr

(* LoRaMacMcpsRequest and Send, with the data rate dr the request leaves.  *)
(* The frame may be too long for the data rate (VerifyTxFrame), which is   *)
(* found when its channel has been chosen.                                 *)
Send(k, dr) ==
    \E next \in NextDr(dr) :
    \E o \in NextChannel(IF ActivatesDefaults(dr, next) THEN Activated(nvm) ELSE nvm, next, TRUE) :
    \E fits \in BOOLEAN :
        /\ PlanChooses(o)
        /\ \/ /\ o.status = "OK" /\ fits
              /\ datarate' = next
              /\ txPower' = NextTxPower(dr)
              /\ adrAckCounter' = NextAdrAckCounter(dr)
              /\ Sends(k, o.channel, 1)
           \/ /\ o.status # "OK" \/ ~fits
              /\ datarate' = dr
              /\ UNCHANGED <<txPower, adrAckCounter, exchVars>>

McpsRequest(k) ==
    /\ mac = "idle"
    /\ joined
    /\ IF adrOn THEN Send(k, datarate)
       ELSE \E asked \in AppDatarates :
               /\ VerifyTxDr(region, uplinkDwellTime, Larger(asked, MinDr))
               /\ Send(k, Larger(asked, MinDr))
    /\ UNCHANGED <<region, joinTrials, joined, nbTrans, adrOn, uplinkDwellTime, changes>>

-----------------------------------------------------------------------------
(* RegionAlternateDr, for a JoinTrialsCounter.                             *)
AlternateDr(trials) ==
    IF region.plan = "hop" /\ trials % JoinPeriod = 0 THEN region.wideDr ELSE region.joinDr

(* LoRaMacMlmeRequest for MLME_JOIN, ResetMacParameters and SendReJoinReq. *)
JoinRequest ==
    /\ mac = "idle"
    /\ Changes
    /\ joined' = FALSE
    /\ adrAckCounter' = 0
    /\ txPower' = 0
    /\ uplinkDwellTime' = region.dwell
    /\ LET trials == (joinTrials + 1) % TrialsModulus
       IN  \E o \in NextChannel(ResetToDefaults(nvm), AlternateDr(trials), FALSE) :
              /\ PlanChooses(o)
              /\ IF o.status = "OK"
                 THEN /\ joinTrials' = trials
                      /\ datarate' = AlternateDr(trials)
                      /\ Sends("join", o.channel, 1)
                 ELSE /\ datarate' = AlternateDr(joinTrials)
                      /\ UNCHANGED <<joinTrials, exchVars>>
    /\ UNCHANGED <<region, nbTrans, adrOn>>

(* ProcessRadioRxDone for a join accept; the downlink settings are not of  *)
(* the plan.                                                               *)
JoinAccept(list) ==
    /\ mac = "windows"
    /\ kind = "join"
    /\ joined' = TRUE
    /\ Over
    /\ PlanBecomes(CFListApplied(nvm, list))
    /\ UNCHANGED <<region, joinTrials, adrVars, changes>>

JoinFails ==
    /\ mac = "windows"
    /\ kind = "join"
    /\ Over
    /\ UNCHANGED <<region, nvm, joinTrials, joined, adrVars, picks, changes>>

-----------------------------------------------------------------------------
(* Mutant: the counter stops at the limit.                                 *)
SilenceCountedToLimit ==
    adrAckCounter' = IF adrOn /\ adrAckCounter < AdrAckLimit THEN adrAckCounter + 1
                     ELSE adrAckCounter

(* StopRetransmission of an exchange in whose last windows nothing came.   *)
SilenceCounted == adrAckCounter' = IF adrOn THEN adrAckCounter + 1 ELSE adrAckCounter

(* ScheduleTx(true) of a repetition, at the present data rate.             *)
Repeat(dr) ==
    \E o \in NextChannel(nvm, dr, TRUE), fits \in BOOLEAN :
        /\ PlanChooses(o)
        /\ datarate' = dr
        /\ \/ /\ o.status = "OK" /\ fits
              /\ Sends(kind, o.channel, tries + 1)
              /\ UNCHANGED adrAckCounter
           \/ /\ o.status = "RESTRICTED"
              /\ mac' = "delayed"
              /\ UNCHANGED <<kind, tries, channel, adrAckCounter>>
           \/ /\ o.status \in {"NO_CHANNEL", "NO_FREE_CHANNEL"} \/ (o.status = "OK" /\ ~fits)
              /\ Over
              /\ SilenceCounted

(* LoRaMacHandleMcpsRequest when the windows of an unconfirmed frame, or   *)
(* the wait for the acknowledgement of a confirmed one, end in silence.    *)
RepeatUnconfirmed ==
    /\ kind = "unconfirmed"
    /\ tries < nbTrans
    /\ Repeat(datarate)

(* AckTimeoutRetriesProcess: every other retry goes one data rate down.    *)
RetryConfirmed ==
    /\ kind = "confirmed"
    /\ tries < NbTrials
    /\ \E dr \in IF (tries + 1) % 2 = 1 THEN NextLowerTxDr(nvm, datarate) ELSE {datarate} :
          Repeat(dr)

(* The exchange is over; a confirmed one activates the default channels    *)
(* (AckTimeoutRetriesFinalize).                                            *)
GiveUp ==
    /\ \/ kind = "unconfirmed" /\ tries >= nbTrans /\ PlanBecomes(nvm)
       \/ kind = "confirmed" /\ tries >= NbTrials /\ PlanBecomes(Activated(nvm))
    /\ Over
    /\ SilenceCounted
    /\ UNCHANGED datarate

Silence ==
    /\ mac \in {"windows", "unanswered"}
    /\ RepeatUnconfirmed \/ RetryConfirmed \/ GiveUp
    /\ UNCHANGED <<region, joinTrials, joined, txPower, nbTrans, adrOn, uplinkDwellTime,
                   changes>>

(* OnTxDelayedTimerEvent.                                                  *)
OnTxDelayedTimerEvent ==
    /\ mac = "delayed"
    /\ Repeat(datarate)
    /\ UNCHANGED <<region, joinTrials, joined, txPower, nbTrans, adrOn, uplinkDwellTime,
                   changes>>

-----------------------------------------------------------------------------
(* ProcessMacCommands.                                                     *)
LinkAdrReq(block) ==
    /\ IF LinkAdrAccepted(nvm, block)
       THEN /\ PlanBecomes(LinkAdrMasked(nvm, block))
            /\ datarate' = LinkAdrDatarate(Last(block))
            /\ txPower' = LinkAdrTxPower(Last(block))
            /\ nbTrans' = LinkAdrNbRep(Last(block))
       ELSE UNCHANGED <<nvm, picks, datarate, txPower, nbTrans>>
    /\ UNCHANGED uplinkDwellTime

(* A new channel has data rates, one to remove none.                       *)
NewChannelReq(c, drs) ==
    /\ CASE CanAdd(c, drs) -> PlanBecomes(Added(nvm, c, drs))
         [] drs = {} /\ region.plan = "list" /\ c >= region.defaults ->
               PlanBecomes(Removed(nvm, {c}))
         [] OTHER -> UNCHANGED <<nvm, picks>>
    /\ UNCHANGED <<datarate, txPower, nbTrans, uplinkDwellTime>>

DlChannelReq(c) ==
    /\ IF region.plan = "list" /\ c \in Defined(nvm)
       THEN PlanBecomes([nvm EXCEPT !.rx1 = @ \cup {c}])
       ELSE UNCHANGED <<nvm, picks>>
    /\ UNCHANGED <<datarate, txPower, nbTrans, uplinkDwellTime>>

TxParamSetupReq(dwell) ==
    /\ IF region.txParamSetup
       THEN /\ uplinkDwellTime' = dwell
            /\ datarate' = Larger(datarate, MinTxDr(region, dwell))
       ELSE UNCHANGED <<uplinkDwellTime, datarate>>
    /\ UNCHANGED <<nvm, picks, txPower, nbTrans>>

NoCommand == UNCHANGED <<nvm, picks, datarate, txPower, nbTrans, uplinkDwellTime>>

(* ProcessRadioRxDone for a data frame with at most one command, and what  *)
(* the exchange makes of it: a confirmed frame waits for its               *)
(* acknowledgement.                                                        *)
Downlink ==
    /\ mac = "windows"
    /\ kind # "join"
    /\ Changes
    /\ adrAckCounter' = 0
    /\ \/ \E block \in LinkAdrBlocks[region.plan] : LinkAdrReq(block)
       \/ \E q \in NewChannels[region.plan] : NewChannelReq(q.channel, q.drs)
       \/ \E q \in NewChannels[region.plan] : DlChannelReq(q.channel)
       \/ \E dwell \in 0..1 : TxParamSetupReq(dwell)
       \/ NoCommand
    /\ \/ Over
       \/ kind = "confirmed" /\ mac' = "unanswered" /\ UNCHANGED <<kind, tries, channel>>
    /\ UNCHANGED <<region, joinTrials, joined, adrOn>>

-----------------------------------------------------------------------------
(* LoRaMacMibSetRequestConfirm, between exchanges.                         *)
SetMask(mask) ==
    /\ region.plan = "hop"
       => Cardinality(mask \cap Narrow(region)) \notin 1..(region.minNarrow - 1)
    /\ \/ PlanBecomes(WithMask(nvm, mask))
       \/ PlanBecomes([nvm EXCEPT !.defaultMask = mask])
    /\ UNCHANGED <<datarate, adrOn>>

SetDatarate(dr) ==
    /\ VerifyTxDr(region, uplinkDwellTime, dr)
    /\ datarate' = dr
    /\ UNCHANGED <<nvm, picks, adrOn>>

SetAdr ==
    /\ adrOn' = ~adrOn
    /\ UNCHANGED <<nvm, picks, datarate>>

MibSetRequestConfirm ==
    /\ mac = "idle"
    /\ Changes
    /\ \/ \E mask \in AppMasks[region.plan] : SetMask(mask)
       \/ \E dr \in AppDatarates : SetDatarate(dr)
       \/ SetAdr
    /\ UNCHANGED <<region, joinTrials, joined, txPower, nbTrans, adrAckCounter, uplinkDwellTime,
                   exchVars>>

(* LoRaWAN_Node::setSubBand, at any time, and delChannel, that ask no one. *)
SetSubBand(b) ==
    /\ region.plan # "list"
    /\ nvm' = [nvm EXCEPT !.mask = SubBand(region, b), !.defaultMask = SubBand(region, b),
                          !.remaining = IF region.plan = "hop" THEN SubBand(region, b) ELSE @]
    /\ picks' = [c \in Hops |-> 0]

DelChannel(c) ==
    /\ region.plan = "list"
    /\ c \notin DefaultChannels(region)
    /\ PlanBecomes(Removed(nvm, {c}))

NodeSettings ==
    /\ Changes
    /\ \/ region.plan # "list" /\ \E b \in (0..(region.banks - 1)) \cap (0..7) : SetSubBand(b)
       \/ \E c \in Defined(nvm) : DelChannel(c)
    /\ UNCHANGED <<region, joinTrials, joined, adrVars, exchVars>>

-----------------------------------------------------------------------------
Next ==
    \/ \E k \in {"unconfirmed", "confirmed"} : McpsRequest(k)
    \/ Silence
    \/ OnTxDelayedTimerEvent
    \/ Downlink
    \/ JoinRequest
    \/ \E list \in CFLists[region.plan] : JoinAccept(list)
    \/ JoinFails
    \/ MibSetRequestConfirm
    \/ NodeSettings

(* The windows end; the application goes on sending, and of its requests,  *)
(* and of the repetitions, not all are restricted, too long or, in a       *)
(* listen-before-talk region, without a free channel.                      *)
Fairness ==
    /\ WF_vars(Silence)
    /\ WF_vars(JoinFails)
    /\ SF_vars((\E k \in {"unconfirmed", "confirmed"} : McpsRequest(k)) /\ mac' = "windows")
    /\ SF_vars(OnTxDelayedTimerEvent /\ mac' # "delayed")

Spec == Init /\ [][Next]_vars
FairSpec == Spec /\ Fairness
-----------------------------------------------------------------------------
(* Every variable has its type, and the plan is consistent whatever mixed  *)
(* commands, settings, joins and back-offs did to it: the default channels *)
(* are always defined with their data rates, only defined channels have a  *)
(* downlink frequency of their own, a round of hops never has a channel    *)
(* left that is not enabled, and the data rate is one the dwell time and   *)
(* the region allow.                                                       *)
PlanConsistent ==
    /\ nvm.drs \in [ChannelIds(region) -> SUBSET Datarates(region)]
    /\ \A c \in DefaultChannels(region) : nvm.drs[c] = DefaultDrs(region, c)
    /\ nvm.rx1 \subseteq Defined(nvm)
    /\ nvm.mask \subseteq ChannelIds(region)
    /\ nvm.remaining \subseteq nvm.mask
    /\ datarate \in MinDr..region.maxDr
    /\ txPower \in 0..region.minTxPower
    /\ adrAckCounter \in Nat /\ nbTrans \in Nat \ {0} /\ tries \in Nat
    /\ joinTrials \in 0..(TrialsModulus - 1)
    /\ mac \in {"idle", "windows", "unanswered", "delayed"}
    /\ kind \in {"join", "unconfirmed", "confirmed", "none"}
    /\ channel \in ChannelIds(region)

(* A hop plan uses its 125 kHz channels evenly: as long as the enabled     *)
(* ones stay the same none is chosen three times more than another,        *)
(* whatever joins, repetitions, refused commands and frames that turn out  *)
(* too long come in between, and whatever was left of the round before.    *)
HopsEvenly ==
    \A c, d \in nvm.mask \cap Hops : picks[c] - picks[d] <= 2

(* A block of LinkAdrReq that is accepted leaves a channel for the data    *)
(* rate it leaves: the next frame is not refused for want of one, though   *)
(* the mask, the data rate and what remains of the round are checked apart *)
(* and, with ADR off, against a data rate the block does not name.         *)
LinkAdrUsable ==
    \A block \in LinkAdrBlocks[region.plan] :
        LinkAdrAccepted(nvm, block)
        => Usable(LinkAdrMasked(nvm, block), LinkAdrDatarate(Last(block)))

(* Every frame, first or repeated, goes out on a channel that is enabled   *)
(* and that has its data rate, at no less than the dwell time allows, a    *)
(* join request on a default channel.                                      *)
Transmits == mac' = "windows" /\ (mac # "windows" \/ tries' # tries)
LegalChannel ==
    [][Transmits => /\ channel' \in nvm'.mask
                    /\ datarate' \in nvm'.drs[channel']
                    /\ datarate' >= MinDr'
                    /\ kind' = "join" => channel' \in DefaultChannels(region)]_vars

(* A joined node with ADR on that nobody answers ends up at the lowest     *)
(* data rate, whatever exchanges it makes and whatever the network and the *)
(* application have done to mask, data rate and counter before, as long as *)
(* its data rates have channels.                                           *)
SilenceBacksOff ==
    <>[](joined /\ adrOn /\ Usable(nvm, datarate)) => <>[](datarate = MinDr)

(* RegionEU868NextChannel: "Datarate not supported by any channel, restore *)
(* defaults".  After a frame that finds no channel for its data rate the   *)
(* next one does.  The code does not keep this: see the README.            *)
RestoredAfterFailure ==
    joined /\ adrOn => Usable(NotFound(nvm), datarate)

(* RegionIN865Verify and RegionIN865LinkAdrReq: "DR_6 is not supported by  *)
(* this region".  No frame is sent at such a data rate.  The code does not *)
(* keep this: see the README.                                              *)
OnlySupportedDatarates ==
    [][Transmits => datarate' \notin region.unsupported]_vars
=============================================================================
