----------------------------- MODULE MacCommands -----------------------------
(***************************************************************************)
(* The MAC commands that wait for an uplink: the slots, list and running   *)
(* size of src/mac/LoRaMacCommands.c, together with the handlers of        *)
(* LoRaMac.c that fill and empty them, and the application's way to a data *)
(* frame: LoRaMacQueryTxPossible first, LoRaMacMcpsRequest later, with the *)
(* LoRa task free to run in between.                                       *)
(*                                                                         *)
(* A command is its identifier, to which the code always gives the same    *)
(* payload size and stickiness; the values in its payload are left out.    *)
(***************************************************************************)
EXTENDS Integers, CommandSequences

CONSTANTS
    Cids,                  \* the MOTE_MAC_* identifiers in use
    PayloadSize,           \* payload bytes of each
    StickyCids,            \* those for which IsSticky answers true
    NoCid,                 \* the zero of a free slot
    Requests,              \* those an MLME request adds
    NumOfMacCommands,      \* NUM_OF_MAC_COMMANDS
    MaxFOptsLength,        \* LORA_MAC_COMMAND_MAX_FOPTS_LENGTH
    MaxPayloads,           \* the payload limits of the data rates in use
    AppSizes,              \* sizes of the application's data
    MaxAnswers             \* bound: answers to one downlink

ASSUME SizeAssumption == PayloadSize \in [Cids -> Nat]
ASSUME CidAssumption == StickyCids \subseteq Cids /\ Requests \subseteq Cids /\ NoCid \notin Cids
ASSUME SlotAssumption == NumOfMacCommands \in Nat \ {0}
ASSUME LengthAssumption == MaxFOptsLength \in Nat /\ MaxPayloads \subseteq Nat /\ AppSizes \subseteq Nat
ASSUME AnswersAssumption == MaxAnswers \in Nat \ {0}

VARIABLES
    commandsCtx,   \* CommandsCtx: slots, list and size, in RTC memory
    maxPayload,    \* GetMaxAppPayloadWithoutFOptsLength of ChannelsDatarate
    joined,        \* NetworkActivation # ACTIVATION_TYPE_NONE
    exchange,      \* what keeps the MAC busy
    plan,          \* what the application will request, once it has queried
    frame,         \* the frame of the exchange under way
    proved,        \* observer: the last downlink shows that the network has that frame
    late           \* observer: sticky answers queued since that frame was made

vars == <<commandsCtx, maxPayload, joined, exchange, plan, frame, proved, late>>
received == <<proved, late>>

-----------------------------------------------------------------------------
NULL == 0
CidFieldSize == 1
FreeSlot == [cid |-> NoCid, next |-> NULL]
Slots == 1..NumOfMacCommands

Size(cid) == CidFieldSize + PayloadSize[cid]
TotalSize(cmds) ==
    LET total[n \in 0..Len(cmds)] == IF n = 0 THEN 0 ELSE total[n - 1] + Size(cmds[n])
    IN total[Len(cmds)]

IsSticky(cid) == cid \in StickyCids
NotSticky == Cids \ StickyCids

(* The elements of the list, First to Last, as every loop in the file      *)
(* walks them.                                                             *)
Elements(c) ==
    LET next == [e \in 0..NumOfMacCommands |-> IF e = NULL THEN NULL ELSE c.slots[e].next]
        reached[n \in Slots] == IF n = 1 THEN c.First ELSE next[reached[n - 1]]
    IN [n \in {m \in Slots : reached[m] # NULL} |-> reached[n]]

Commands(c) == LET es == Elements(c) IN [i \in DOMAIN es |-> c.slots[es[i]].cid]

-----------------------------------------------------------------------------
(* LoRaMacCommands.c                                                       *)
CommandsInit == [slots |-> [s \in Slots |-> FreeSlot], First |-> NULL, Last |-> NULL,
                 SerializedCmdsSize |-> 0]

FreeSlots(c) == {s \in Slots : c.slots[s] = FreeSlot}

LinkedListAdd(c, e) ==
    [c EXCEPT !.First = IF @ = NULL THEN e ELSE @,
              !.slots = IF c.Last # NULL THEN [@ EXCEPT ![c.Last].next = e] ELSE @,
              !.Last = e]

(* With every slot taken nothing is added; ProcessMacCommands ignores the  *)
(* error and that answer is never given.                                   *)
AddCmd(c, cid) ==
    IF FreeSlots(c) = {} THEN c
    ELSE LET e == Lowest(FreeSlots(c))
         IN [LinkedListAdd(c, e) EXCEPT
                !.slots[e] = [cid |-> cid, next |-> NULL],
                !.SerializedCmdsSize = @ + Size(cid)]

LinkedListGetPrevious(c, e) ==
    LET es == Elements(c)
        before == {i \in DOMAIN es : c.slots[es[i]].next = e}
    IN IF e = c.First \/ before = {} THEN NULL ELSE es[Lowest(before)]

LinkedListRemoveKeepsLast(c, e) ==
    LET prev == LinkedListGetPrevious(c, e)
        next == c.slots[e].next
    IN [c EXCEPT !.First = IF @ = e THEN next ELSE @,
                 !.slots = IF prev # NULL THEN [@ EXCEPT ![prev].next = next] ELSE @]
LinkedListRemoveNoRelink(c, e) ==
    [c EXCEPT !.First = IF @ = e THEN c.slots[e].next ELSE @,
              !.Last = IF @ = e THEN LinkedListGetPrevious(c, e) ELSE @]
LinkedListRemove(c, e) ==
    LET prev == LinkedListGetPrevious(c, e)
        next == c.slots[e].next
    IN [c EXCEPT !.First = IF @ = e THEN next ELSE @,
                 !.Last = IF @ = e THEN prev ELSE @,
                 !.slots = IF prev # NULL THEN [@ EXCEPT ![prev].next = next] ELSE @]

RemoveCmd(c, e) ==
    [LinkedListRemove(c, e) EXCEPT
        !.SerializedCmdsSize = @ - Size(c.slots[e].cid),
        !.slots[e] = FreeSlot]

(* The loops that remove some of the elements; each takes the next before  *)
(* it frees an element.                                                    *)
RemoveAll(c, removed) ==
    LET es == Elements(c)
        left[n \in 0..Len(es)] ==
            IF n = 0 THEN c
            ELSE IF es[n] \in removed THEN RemoveCmd(left[n - 1], es[n]) ELSE left[n - 1]
    IN left[Len(es)]

RemoveNoneStickyCmds(c) == RemoveAll(c, {s \in Slots : ~IsSticky(c.slots[s].cid)})

RemoveStickyAnsCmds(c) == RemoveAll(c, {s \in Slots : IsSticky(c.slots[s].cid)})

(* The first command, from the head, for which the buffer has no room.     *)
FirstUnfit(c, available) ==
    LET cmds == Commands(c)
    IN Lowest({i \in DOMAIN cmds : TotalSize(SubSeq(cmds, 1, i)) > available}
                \cup {Len(cmds) + 1})

(* LoRaMacCommandsSerializeCmds: what did not fit is removed.              *)
SerializeCmds(c, available) ==
    RemoveAll(c, {Elements(c)[i] : i \in FirstUnfit(c, available)..Len(Elements(c))})

-----------------------------------------------------------------------------
(* LoRaMac.c                                                               *)
NoFrame == [app |-> 0, fopts |-> << >>, payload |-> << >>, skipped |-> FALSE]

(* PrepareFrame: what becomes of the list, and the frame.  When the        *)
(* commands do not fit into FOpts beside application data, they are        *)
(* serialised into MacCommandsBuffer, but the frame keeps the data.        *)
PreparedCommands(c, app) ==
    IF c.SerializedCmdsSize = 0 THEN c
    ELSE IF app > 0 /\ c.SerializedCmdsSize <= MaxFOptsLength
         THEN SerializeCmds(c, MaxFOptsLength)
         ELSE SerializeCmds(c, maxPayload)

SkippedAppData(c, app) == app > 0 /\ c.SerializedCmdsSize > MaxFOptsLength

PreparedFrame(c, app) ==
    LET cmds == Commands(PreparedCommands(c, app))
        skipped == SkippedAppData(c, app)
    IN [app |-> app,
        fopts |-> IF app > 0 /\ ~skipped THEN cmds ELSE << >>,
        payload |-> IF app = 0 THEN cmds ELSE << >>,
        skipped |-> skipped]

(* VerifyTxFrame                                                           *)
ValidatePayloadLengthNoCommands(c, app) == app <= maxPayload
ValidatePayloadLength(c, app) == app + c.SerializedCmdsSize <= maxPayload

QueryTxPossible(size) ==
    /\ commandsCtx.SerializedCmdsSize <= MaxFOptsLength
    /\ commandsCtx.SerializedCmdsSize <= maxPayload
    /\ commandsCtx.SerializedCmdsSize + size <= maxPayload

-----------------------------------------------------------------------------
Init ==
    /\ commandsCtx = CommandsInit
    /\ maxPayload \in MaxPayloads
    /\ joined = FALSE
    /\ exchange = "none"
    /\ plan = [type |-> "none", app |-> 0]
    /\ frame = NoFrame
    /\ proved = FALSE
    /\ late = << >>

(* LoRaMacInitialization, at power up and after a deep sleep.              *)
Initialization ==
    /\ commandsCtx' = IF joined THEN commandsCtx ELSE CommandsInit
    /\ exchange' = "none"
    /\ plan' = [type |-> "none", app |-> 0]
    /\ frame' = NoFrame
    /\ proved' = FALSE
    /\ late' = << >>
    /\ UNCHANGED <<maxPayload, joined>>

(* MLME_JOIN; the list is not part of ResetMacParameters, and the  *)
(* join request itself may find no channel.                                *)
JoinRequest ==
    /\ exchange = "none"
    /\ exchange' \in {"join", "none"}
    /\ joined' = FALSE
    /\ UNCHANGED <<commandsCtx, maxPayload, plan, frame, received>>

JoinAccept ==
    /\ exchange = "join"
    /\ joined' = TRUE
    /\ exchange' = "none"
    /\ UNCHANGED <<commandsCtx, maxPayload, plan, frame, received>>

(* LINK_ADR_REQ, the ADR backoff of Send, or a request's own data rate.    *)
DatarateChanges ==
    /\ maxPayload' \in MaxPayloads \ {maxPayload}
    /\ UNCHANGED <<commandsCtx, joined, exchange, plan, frame, received>>

(* LoRaMacMlmeRequest for a command sent piggy-back.                       *)
MlmeRequest(cid) ==
    /\ exchange = "none"
    /\ commandsCtx' = AddCmd(commandsCtx, cid)
    /\ UNCHANGED <<maxPayload, joined, exchange, plan, frame, received>>

(* sendConfirmedPacket and sendUnconfirmedPacket: the query, which falls   *)
(* back to an empty unconfirmed frame.                                     *)
Query(type, size) ==
    /\ plan.type = "none"
    /\ plan' = IF QueryTxPossible(size) THEN [type |-> type, app |-> size]
                                        ELSE [type |-> "unconfirmed", app |-> 0]
    /\ UNCHANGED <<commandsCtx, maxPayload, joined, exchange, frame, received>>

McpsRequestRefused ==
    /\ plan.type # "none"
    /\ exchange # "none" \/ ~joined
    /\ plan' = [type |-> "none", app |-> 0]
    /\ UNCHANGED <<commandsCtx, maxPayload, joined, exchange, frame, received>>

(* Send fails after PrepareFrame: no channel, duty cycle, or length.       *)
SendFails ==
    /\ plan.type # "none" /\ exchange = "none" /\ joined
    /\ commandsCtx' = PreparedCommands(commandsCtx, plan.app)
    /\ plan' = [type |-> "none", app |-> 0]
    /\ UNCHANGED <<maxPayload, joined, exchange, frame, received>>

SendDropsFirst ==
    /\ plan.type # "none" /\ exchange = "none" /\ joined
    /\ LET cleaned == RemoveNoneStickyCmds(commandsCtx)
       IN /\ ValidatePayloadLength(PreparedCommands(cleaned, plan.app), plan.app)
          /\ frame' = PreparedFrame(cleaned, plan.app)
          /\ commandsCtx' = PreparedCommands(cleaned, plan.app)
    /\ exchange' = plan.type
    /\ plan' = [type |-> "none", app |-> 0]
    /\ late' = << >>
    /\ UNCHANGED <<maxPayload, joined, proved>>
Send ==
    /\ plan.type # "none" /\ exchange = "none" /\ joined
    /\ LET prepared == PreparedCommands(commandsCtx, plan.app)
       IN /\ ValidatePayloadLength(prepared, plan.app)
          /\ commandsCtx' = RemoveNoneStickyCmds(prepared)
    /\ frame' = PreparedFrame(commandsCtx, plan.app)
    /\ exchange' = plan.type
    /\ plan' = [type |-> "none", app |-> 0]
    /\ late' = << >>
    /\ UNCHANGED <<maxPayload, joined, proved>>

(* A downlink in a class A window shows that the network has the uplink,   *)
(* after a confirmed one only if it carries the acknowledgement.           *)
Heard == exchange = "unconfirmed" \/ exchange = "confirmed"
Proves(slot, ack) == Heard /\ slot = "class_a" /\ (exchange = "confirmed" => ack)

(* RemoveMacCommands: then the sticky answers have arrived.                *)
RemoveMacCommandsAnyDownlink(c, slot, ack) == RemoveStickyAnsCmds(c)
RemoveMacCommands(c, slot, ack) ==
    IF slot = "class_a" /\ (exchange = "confirmed" => ack)
    THEN RemoveStickyAnsCmds(c) ELSE c

(* The answers of one downlink, as ProcessMacCommands adds them.           *)
AddAll(c, answers) ==
    LET added[n \in 0..Len(answers)] ==
            IF n = 0 THEN c ELSE AddCmd(added[n - 1], answers[n])
    IN added[Len(answers)]

(* What AddAll found slots for.                                            *)
Added(before, after) ==
    SubSeq(Commands(after), Len(Commands(before)) + 1, Len(Commands(after)))

(* ProcessRadioRxDone of a data frame, with the answers ProcessMacCommands *)
(* adds for the commands in it.  A class C window is open at any time, and *)
(* there the acknowledgement makes no difference; the repetitions of an    *)
(* uplink have windows of their own.                                       *)
Downlink(slot, ack, answers) ==
    /\ joined
    /\ slot = "class_a" => Heard
    /\ proved' = Proves(slot, ack)
    /\ LET settled == RemoveMacCommands(commandsCtx, slot, ack)
       IN /\ commandsCtx' = AddAll(settled, answers)
          /\ late' = IF Heard
                     THEN (IF Proves(slot, ack) THEN << >> ELSE late)
                            \o Selected(Added(settled, commandsCtx'), StickyCids)
                     ELSE late
    /\ UNCHANGED <<maxPayload, joined, exchange, plan, frame>>

ExchangeEnds ==
    /\ exchange # "none"
    /\ exchange' = "none"
    /\ frame' = NoFrame
    /\ proved' = FALSE
    /\ late' = << >>
    /\ UNCHANGED <<commandsCtx, maxPayload, joined, plan>>

Next ==
    \/ Initialization
    \/ JoinRequest
    \/ JoinAccept
    \/ DatarateChanges
    \/ \E cid \in Requests : MlmeRequest(cid)
    \/ \E type \in {"confirmed", "unconfirmed"}, size \in AppSizes : Query(type, size)
    \/ McpsRequestRefused
    \/ SendFails
    \/ Send
    \/ \E answers \in BoundedSeq(Cids \ Requests, MaxAnswers) :
        \/ \E ack \in BOOLEAN : Downlink("class_a", ack, answers)
        \/ Downlink("class_c", TRUE, answers)
    \/ ExchangeEnds

Spec == Init /\ [][Next]_vars

-----------------------------------------------------------------------------
TypeOK ==
    /\ commandsCtx \in [slots : [Slots -> [cid : Cids \cup {NoCid}, next : 0..NumOfMacCommands]],
                        First : 0..NumOfMacCommands, Last : 0..NumOfMacCommands,
                        SerializedCmdsSize : Nat]
    /\ maxPayload \in MaxPayloads
    /\ joined \in BOOLEAN
    /\ exchange \in {"none", "join", "confirmed", "unconfirmed"}
    /\ plan \in [type : {"none", "confirmed", "unconfirmed"}, app : AppSizes \cup {0}]
    /\ frame \in [app : AppSizes \cup {0}, fopts : Seq(Cids), payload : Seq(Cids),
                  skipped : BOOLEAN]
    /\ proved \in BOOLEAN
    /\ late \in Seq(Cids)

(* Slots, pointers and the running size, which add and remove update one   *)
(* after the other, always tell the same: every slot that is not free is   *)
(* in the list exactly once, the list ends at Last, and SerializedCmdsSize *)
(* is what serialising the list would take (LoRaMacCommandsAddCmd,         *)
(* LoRaMacCommandsRemoveCmd).                                              *)
StoreConsistent ==
    LET es == Elements(commandsCtx)
    IN /\ IsInjective(es)
       /\ ToSet(es) = Slots \ FreeSlots(commandsCtx)
       /\ commandsCtx.Last = IF es = << >> THEN NULL ELSE es[Len(es)]
       /\ commandsCtx.SerializedCmdsSize = TotalSize(Commands(commandsCtx))

(* Whatever changed between the query and the request, no frame leaves     *)
(* with more commands in FOpts than its length field can tell or with more *)
(* bytes than the data rate allows (PrepareFrame, VerifyTxFrame).          *)
FrameFits ==
    [][frame' # frame =>
        /\ TotalSize(frame'.fopts) <= MaxFOptsLength
        /\ frame'.app + TotalSize(frame'.fopts) + TotalSize(frame'.payload) <= maxPayload]_vars

(* An answer that need not be repeated is forgotten only once it has been  *)
(* transmitted, unless it was clipped from the tail for lack of room or    *)
(* the frame skipped it; a request that fails keeps it for the next one    *)
(* (Send, LoRaMacCommandsRemoveNoneStickyCmds).                            *)
Room == maxPayload >= commandsCtx.SerializedCmdsSize
Unrepeated == Selected(Commands(commandsCtx), NotSticky)
ForgottenOnlyWhenSent ==
    [][joined /\ Room /\ ~IsPrefix(Unrepeated, Unrepeated') =>
        \/ frame'.skipped
        \/ Unrepeated = Selected(frame'.fopts \o frame'.payload, NotSticky)]_vars

(* A sticky answer is repeated in every frame until the network shows that *)
(* it received it: it leaves the list only with a downlink in a class A    *)
(* window, with the acknowledgement if one was asked for; and then the     *)
(* frame on the air carried it, or it was queued while that frame was out, *)
(* or the frame skipped the commands.  Class C downlinks and windows       *)
(* without the acknowledgement prove nothing (RemoveMacCommands).          *)
Repeated == Selected(Commands(commandsCtx), StickyCids)
Carried == Selected(frame.fopts \o frame.payload, StickyCids)
StickyUntilHeard ==
    [][joined /\ Room /\ ~IsPrefix(Repeated, Repeated') =>
        /\ Heard /\ proved'
        /\ frame.skipped \/ Repeated \in {Carried \o late, late}]_vars

(* Without those two exceptions: no sticky answer is forgotten that no     *)
(* frame has carried.  The code does not keep this (LoRaMac.c:2640-2657):  *)
(* see the README.                                                         *)
StickyOnlyOnceSent ==
    [][joined /\ Room /\ ~IsPrefix(Repeated, Repeated') => Repeated = Carried]_vars

(* The application's data is not sent when prioritised MAC commands had to *)
(* be sent in its place (LORAMAC_STATUS_SKIPPED_APP_DATA, LoRaMac.h:2271). *)
(* The code does not keep this: see the README.                            *)
SkippedMeansNotSent ==
    frame.skipped => frame.app = 0 /\ frame.payload # << >>

(* The linked slots implement the bounded sequence of commands.            *)
Abs == INSTANCE MacCommandsAbs WITH pending <- Commands(commandsCtx),
                                    Capacity <- NumOfMacCommands
ImplementsSequence == Abs!Spec
=============================================================================
