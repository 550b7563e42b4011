-------------------------- MODULE RxWindowsProofs ---------------------------
(***************************************************************************)
(* In every region, after any sequence of commands, answers that are lost  *)
(* or repeated, and new sessions: a window that opens after an uplink the  *)
(* network has heard is the one the network sends in, it is at a legal     *)
(* frequency and data rate, it is open when the preamble comes and as long *)
(* as it has to be, and the longest frame of a data rate fits (RxWindows). *)
(* First what each region's tables and operations do, stated once for all  *)
(* regions; then the inductive invariant IInv; then a lemma for every      *)
(* action and, under Downlink, for every command; last, how long windows   *)
(* are open and frames on the air.                                         *)
(***************************************************************************)
EXTENDS RxWindows, TLAPS

(* What the lemmas say of a region: the regions that keep a list of        *)
(* channels, and the ids, data rates and offsets that the tables of each   *)
(* region allow.                                                           *)
ListNames == {"AS923", "CN779", "EU433", "EU868", "IN865", "KR920", "RU864"}

Ids(r) ==
    CASE r = "RU864" -> 0..7
      [] r = "CN470" -> 0..95
      [] r = "AU915" -> 0..71
      [] r = "US915" -> 0..71
      [] OTHER -> 0..15
DefaultIds(r) == IF r \in {"RU864", "AS923"} THEN 0..1 ELSE 0..2

UplinkDrs(r) ==
    CASE r = "KR920" -> 0..5
      [] r = "CN470" -> 0..5
      [] r = "AU915" -> 0..6
      [] r = "US915" -> 0..4
      [] OTHER -> 0..7
RxDrs(r) ==
    CASE r = "KR920" -> 0..5
      [] r = "CN470" -> 0..5
      [] r = "AU915" -> 8..13
      [] r = "US915" -> 8..13
      [] r = "IN865" -> (0..7) \ {6}
      [] OTHER -> 0..7
Offsets(r) ==
    CASE r = "AS923" -> 0..7
      [] r = "IN865" -> 0..7
      [] r = "US915" -> 0..3
      [] OTHER -> 0..5

(* What the region's VerifyRfFreq takes.                                   *)
Legal(r, f) == RegionVerify(r, "FREQUENCY", f, 0, 0)

(* An entry of the channel table that nothing has been written to.         *)
EmptyChannel == [frequency |-> 0, rx1Frequency |-> 0, minDr |-> 0, maxDr |-> 0, band |-> 0]

(* An entry of the table: empty, or at legal frequencies and data rates.   *)
ChannelSound(r, ch) ==
    /\ ch = [frequency |-> ch.frequency, rx1Frequency |-> ch.rx1Frequency,
             minDr |-> ch.minDr, maxDr |-> ch.maxDr, band |-> ch.band]
    /\ ch.frequency = 0 \/ Legal(r, ch.frequency)
    /\ ch.rx1Frequency = 0 \/ Legal(r, ch.rx1Frequency)
    /\ ch.minDr \in UplinkDrs(r) /\ ch.maxDr \in UplinkDrs(r)

(* The channel table and the mask of a region.                             *)
PlanSound(r, p) ==
    /\ p.mask \subseteq Ids(r)
    /\ IF r \in ListNames
       THEN /\ p = [channels |-> p.channels, mask |-> p.mask]
            /\ p.channels = [c \in Ids(r) |-> p.channels[c]]
            /\ \A c \in Ids(r) : ChannelSound(r, p.channels[c])
       ELSE p = [mask |-> p.mask]

(* No channel in use has its window 1 moved.                               *)
Unmoved(r, p) == r \in ListNames => \A c \in p.mask : p.channels[c].rx1Frequency = 0

-----------------------------------------------------------------------------
(* Regions that start with a list of default channels.                     *)
LEMMA DefaultTables ==
    /\ AS923!Plan!DefaultIds = 0..1 /\ CN779!Plan!DefaultIds = 0..2
    /\ EU433!Plan!DefaultIds = 0..2 /\ EU868!Plan!DefaultIds = 0..2
    /\ IN865!Plan!DefaultIds = 0..2 /\ KR920!Plan!DefaultIds = 0..2
    /\ RU864!Plan!DefaultIds = 0..1
BY SMT DEF AS923!Plan!DefaultIds, AS923!DefaultChannels, AS923!Table, CN779!Plan!DefaultIds,
   CN779!DefaultChannels, CN779!Table, EU433!Plan!DefaultIds, EU433!DefaultChannels,
   EU433!Table, EU868!Plan!DefaultIds, EU868!DefaultChannels, EU868!Table,
   IN865!Plan!DefaultIds, IN865!DefaultChannels, IN865!Table, KR920!Plan!DefaultIds,
   KR920!DefaultChannels, KR920!Table, RU864!Plan!DefaultIds, RU864!DefaultChannels, RU864!Table

(* No such region has a channel at frequency 0.                            *)
LEMMA ZeroIllegal == ASSUME NEW r \in ListNames PROVE ~Legal(r, 0)
<1>1. CASE r = "AS923"
  BY SMT, <1>1 DEF Legal, RegionVerify, AS923!Verify, AS923!VerifyRfFreq, AS923!BandOf,
     AS923!InRange
<1>2. CASE r = "CN779"
  BY SMT, <1>2 DEF Legal, RegionVerify, CN779!Verify, CN779!VerifyRfFreq, CN779!BandOf,
     CN779!InRange
<1>3. CASE r = "EU433"
  BY SMT, <1>3 DEF Legal, RegionVerify, EU433!Verify, EU433!VerifyRfFreq, EU433!BandOf,
     EU433!InRange
<1>4. CASE r = "EU868"
  BY SMT, <1>4 DEF Legal, RegionVerify, EU868!Verify, EU868!VerifyRfFreq, EU868!BandOf,
     EU868!InRange
<1>5. CASE r = "IN865"
  BY SMT, <1>5 DEF Legal, RegionVerify, IN865!Verify, IN865!VerifyRfFreq, IN865!BandOf,
     IN865!InRange
<1>6. CASE r = "KR920"
  BY SMT, <1>6 DEF Legal, RegionVerify, KR920!Verify, KR920!VerifyRfFreq, KR920!BandOf,
     KR920!InRange
<1>7. CASE r = "RU864"
  BY SMT, <1>7 DEF Legal, RegionVerify, RU864!Verify, RU864!VerifyRfFreq, RU864!BandOf,
     RU864!InRange
<1> QED
  BY <1>1, <1>2, <1>3, <1>4, <1>5, <1>6, <1>7 DEF ListNames

(* A default channel of a region: legal, not moved.                        *)
DefaultChannel(ch) ==
    ch = [frequency |-> ch.frequency, rx1Frequency |-> 0, minDr |-> 0, maxDr |-> 5,
          band |-> ch.band]

Defaults(r) ==
    CASE r = "AS923" -> AS923!DefaultChannels
      [] r = "CN779" -> CN779!DefaultChannels
      [] r = "EU433" -> EU433!DefaultChannels
      [] r = "EU868" -> EU868!DefaultChannels
      [] r = "IN865" -> IN865!DefaultChannels
      [] r = "KR920" -> KR920!DefaultChannels
      [] r = "RU864" -> RU864!DefaultChannels

(* The table of default channels of every region has legal ones.           *)
LEMMA DefaultsLegal ==
    ASSUME NEW r \in ListNames, NEW c \in DefaultIds(r)
    PROVE  DefaultChannel(Defaults(r)[c]) /\ Legal(r, Defaults(r)[c].frequency)
<1>1. CASE r = "AS923"
  <2>1. AS923!DefaultChannels[0] = AS923!Channel(923200000) /\ AS923!VerifyRfFreq(923200000)
    BY SMT DEF AS923!DefaultChannels, AS923!Table, AS923!VerifyRfFreq, AS923!InRange
  <2>2. AS923!DefaultChannels[1] = AS923!Channel(923400000) /\ AS923!VerifyRfFreq(923400000)
    BY SMT DEF AS923!DefaultChannels, AS923!Table, AS923!VerifyRfFreq, AS923!InRange
  <2>3. ASSUME NEW f PROVE DefaultChannel(AS923!Channel(f)) /\ AS923!Channel(f).frequency = f
    BY SMT DEF DefaultChannel, AS923!Channel
  <2>4. c \in 0..1 /\ Defaults(r) = AS923!DefaultChannels
    BY SMT, <1>1 DEF DefaultIds, Defaults
  <2>5. ASSUME NEW f PROVE Legal(r, f) <=> AS923!VerifyRfFreq(f)
    BY SMT, <1>1 DEF Legal, RegionVerify, AS923!Verify
  <2> QED BY <2>1, <2>2, <2>3, <2>4, <2>5, SMT
<1>2. CASE r = "CN779"
  <2>1. CN779!DefaultChannels[0] = CN779!Channel(779500000) /\ CN779!VerifyRfFreq(779500000)
    BY SMT DEF CN779!DefaultChannels, CN779!Table, CN779!VerifyRfFreq, CN779!InRange
  <2>2. CN779!DefaultChannels[1] = CN779!Channel(779700000) /\ CN779!VerifyRfFreq(779700000)
    BY SMT DEF CN779!DefaultChannels, CN779!Table, CN779!VerifyRfFreq, CN779!InRange
  <2>3. CN779!DefaultChannels[2] = CN779!Channel(779900000) /\ CN779!VerifyRfFreq(779900000)
    BY SMT DEF CN779!DefaultChannels, CN779!Table, CN779!VerifyRfFreq, CN779!InRange
  <2>4. ASSUME NEW f PROVE DefaultChannel(CN779!Channel(f)) /\ CN779!Channel(f).frequency = f
    BY SMT DEF DefaultChannel, CN779!Channel
  <2>5. c \in 0..2 /\ Defaults(r) = CN779!DefaultChannels
    BY SMT, <1>2 DEF DefaultIds, Defaults
  <2>6. ASSUME NEW f PROVE Legal(r, f) <=> CN779!VerifyRfFreq(f)
    BY SMT, <1>2 DEF Legal, RegionVerify, CN779!Verify
  <2> QED BY <2>1, <2>2, <2>3, <2>4, <2>5, <2>6, SMT
<1>3. CASE r = "EU433"
  <2>1. EU433!DefaultChannels[0] = EU433!Channel(433175000) /\ EU433!VerifyRfFreq(433175000)
    BY SMT DEF EU433!DefaultChannels, EU433!Table, EU433!VerifyRfFreq, EU433!InRange
  <2>2. EU433!DefaultChannels[1] = EU433!Channel(433375000) /\ EU433!VerifyRfFreq(433375000)
    BY SMT DEF EU433!DefaultChannels, EU433!Table, EU433!VerifyRfFreq, EU433!InRange
  <2>3. EU433!DefaultChannels[2] = EU433!Channel(433575000) /\ EU433!VerifyRfFreq(433575000)
    BY SMT DEF EU433!DefaultChannels, EU433!Table, EU433!VerifyRfFreq, EU433!InRange
  <2>4. ASSUME NEW f PROVE DefaultChannel(EU433!Channel(f)) /\ EU433!Channel(f).frequency = f
    BY SMT DEF DefaultChannel, EU433!Channel
  <2>5. c \in 0..2 /\ Defaults(r) = EU433!DefaultChannels
    BY SMT, <1>3 DEF DefaultIds, Defaults
  <2>6. ASSUME NEW f PROVE Legal(r, f) <=> EU433!VerifyRfFreq(f)
    BY SMT, <1>3 DEF Legal, RegionVerify, EU433!Verify
  <2> QED BY <2>1, <2>2, <2>3, <2>4, <2>5, <2>6, SMT
<1>4. CASE r = "EU868"
  <2>1. EU868!DefaultChannels[0] = EU868!Channel(868100000) /\ EU868!VerifyRfFreq(868100000)
    BY SMT DEF EU868!DefaultChannels, EU868!Table, EU868!VerifyRfFreq, EU868!BandOf,
       EU868!InRange
  <2>2. EU868!DefaultChannels[1] = EU868!Channel(868300000) /\ EU868!VerifyRfFreq(868300000)
    BY SMT DEF EU868!DefaultChannels, EU868!Table, EU868!VerifyRfFreq, EU868!BandOf,
       EU868!InRange
  <2>3. EU868!DefaultChannels[2] = EU868!Channel(868500000) /\ EU868!VerifyRfFreq(868500000)
    BY SMT DEF EU868!DefaultChannels, EU868!Table, EU868!VerifyRfFreq, EU868!BandOf,
       EU868!InRange
  <2>4. ASSUME NEW f PROVE DefaultChannel(EU868!Channel(f)) /\ EU868!Channel(f).frequency = f
    BY SMT DEF DefaultChannel, EU868!Channel
  <2>5. c \in 0..2 /\ Defaults(r) = EU868!DefaultChannels
    BY SMT, <1>4 DEF DefaultIds, Defaults
  <2>6. ASSUME NEW f PROVE Legal(r, f) <=> EU868!VerifyRfFreq(f)
    BY SMT, <1>4 DEF Legal, RegionVerify, EU868!Verify
  <2> QED BY <2>1, <2>2, <2>3, <2>4, <2>5, <2>6, SMT
<1>5. CASE r = "IN865"
  <2>1. IN865!DefaultChannels[0] = IN865!Channel(865062500) /\ IN865!VerifyRfFreq(865062500)
    BY SMT DEF IN865!DefaultChannels, IN865!Table, IN865!VerifyRfFreq, IN865!InRange
  <2>2. IN865!DefaultChannels[1] = IN865!Channel(865402500) /\ IN865!VerifyRfFreq(865402500)
    BY SMT DEF IN865!DefaultChannels, IN865!Table, IN865!VerifyRfFreq, IN865!InRange
  <2>3. IN865!DefaultChannels[2] = IN865!Channel(865985000) /\ IN865!VerifyRfFreq(865985000)
    BY SMT DEF IN865!DefaultChannels, IN865!Table, IN865!VerifyRfFreq, IN865!InRange
  <2>4. ASSUME NEW f PROVE DefaultChannel(IN865!Channel(f)) /\ IN865!Channel(f).frequency = f
    BY SMT DEF DefaultChannel, IN865!Channel
  <2>5. c \in 0..2 /\ Defaults(r) = IN865!DefaultChannels
    BY SMT, <1>5 DEF DefaultIds, Defaults
  <2>6. ASSUME NEW f PROVE Legal(r, f) <=> IN865!VerifyRfFreq(f)
    BY SMT, <1>5 DEF Legal, RegionVerify, IN865!Verify
  <2> QED BY <2>1, <2>2, <2>3, <2>4, <2>5, <2>6, SMT
<1>6. CASE r = "KR920"
  <2>1. KR920!DefaultChannels[0] = KR920!Channel(922100000) /\ KR920!VerifyRfFreq(922100000)
    BY SMT DEF KR920!DefaultChannels, KR920!Table, KR920!VerifyRfFreq, KR920!InRange
  <2>2. KR920!DefaultChannels[1] = KR920!Channel(922300000) /\ KR920!VerifyRfFreq(922300000)
    BY SMT DEF KR920!DefaultChannels, KR920!Table, KR920!VerifyRfFreq, KR920!InRange
  <2>3. KR920!DefaultChannels[2] = KR920!Channel(922500000) /\ KR920!VerifyRfFreq(922500000)
    BY SMT DEF KR920!DefaultChannels, KR920!Table, KR920!VerifyRfFreq, KR920!InRange
  <2>4. ASSUME NEW f PROVE DefaultChannel(KR920!Channel(f)) /\ KR920!Channel(f).frequency = f
    BY SMT DEF DefaultChannel, KR920!Channel
  <2>5. c \in 0..2 /\ Defaults(r) = KR920!DefaultChannels
    BY SMT, <1>6 DEF DefaultIds, Defaults
  <2>6. ASSUME NEW f PROVE Legal(r, f) <=> KR920!VerifyRfFreq(f)
    BY SMT, <1>6 DEF Legal, RegionVerify, KR920!Verify
  <2> QED BY <2>1, <2>2, <2>3, <2>4, <2>5, <2>6, SMT
<1>7. CASE r = "RU864"
  <2>1. RU864!DefaultChannels[0] = RU864!Channel(868900000) /\ RU864!VerifyRfFreq(868900000)
    BY SMT DEF RU864!DefaultChannels, RU864!Table, RU864!VerifyRfFreq, RU864!BandOf,
       RU864!InRange
  <2>2. RU864!DefaultChannels[1] = RU864!Channel(869100000) /\ RU864!VerifyRfFreq(869100000)
    BY SMT DEF RU864!DefaultChannels, RU864!Table, RU864!VerifyRfFreq, RU864!BandOf,
       RU864!InRange
  <2>3. ASSUME NEW f PROVE DefaultChannel(RU864!Channel(f)) /\ RU864!Channel(f).frequency = f
    BY SMT DEF DefaultChannel, RU864!Channel
  <2>4. c \in 0..1 /\ Defaults(r) = RU864!DefaultChannels
    BY SMT, <1>7 DEF DefaultIds, Defaults
  <2>5. ASSUME NEW f PROVE Legal(r, f) <=> RU864!VerifyRfFreq(f)
    BY SMT, <1>7 DEF Legal, RegionVerify, RU864!Verify
  <2> QED BY <2>1, <2>2, <2>3, <2>4, <2>5, SMT
<1> QED
  BY <1>1, <1>2, <1>3, <1>4, <1>5, <1>6, <1>7 DEF ListNames

(* The table as it is before the first initialisation.                     *)
LEMMA BlankIs ==
    ASSUME NEW r \in ListNames
    PROVE  RegionBlank(r) = [channels |-> [c \in Ids(r) |-> EmptyChannel], mask |-> {}]
<1>1. CASE r = "AS923"
  BY SMT, <1>1 DEF RegionBlank, Ids, EmptyChannel, AS923!Plan!Blank, AS923!Plan!NoChannel,
     AS923!MaxNbChannels
<1>2. CASE r = "CN779"
  BY SMT, <1>2 DEF RegionBlank, Ids, EmptyChannel, CN779!Plan!Blank, CN779!Plan!NoChannel,
     CN779!MaxNbChannels
<1>3. CASE r = "EU433"
  BY SMT, <1>3 DEF RegionBlank, Ids, EmptyChannel, EU433!Plan!Blank, EU433!Plan!NoChannel,
     EU433!MaxNbChannels
<1>4. CASE r = "EU868"
  BY SMT, <1>4 DEF RegionBlank, Ids, EmptyChannel, EU868!Plan!Blank, EU868!Plan!NoChannel,
     EU868!MaxNbChannels
<1>5. CASE r = "IN865"
  BY SMT, <1>5 DEF RegionBlank, Ids, EmptyChannel, IN865!Plan!Blank, IN865!Plan!NoChannel,
     IN865!MaxNbChannels
<1>6. CASE r = "KR920"
  BY SMT, <1>6 DEF RegionBlank, Ids, EmptyChannel, KR920!Plan!Blank, KR920!Plan!NoChannel,
     KR920!MaxNbChannels
<1>7. CASE r = "RU864"
  BY SMT, <1>7 DEF RegionBlank, Ids, EmptyChannel, RU864!Plan!Blank, RU864!Plan!NoChannel,
     RU864!MaxNbChannels
<1> QED
  BY <1>1, <1>2, <1>3, <1>4, <1>5, <1>6, <1>7 DEF ListNames

(* InitDefaults, with what differs between the regions named.              *)
LEMMA InitDefaultsIs ==
    ASSUME NEW r \in ListNames, NEW p
    PROVE  RegionInitDefaults(r, "DEFAULTS", p) =
              [channels |-> [c \in DOMAIN p.channels |->
                                IF c \in DefaultIds(r) THEN Defaults(r)[c] ELSE p.channels[c]],
               mask |-> DefaultIds(r)]
<1>1. CASE r = "AS923"
  BY SMT, <1>1, DefaultTables DEF RegionInitDefaults, DefaultIds, Defaults, AS923!InitDefaults,
     AS923!Plan!InitDefaults
<1>2. CASE r = "CN779"
  BY SMT, <1>2, DefaultTables DEF RegionInitDefaults, DefaultIds, Defaults, CN779!InitDefaults,
     CN779!Plan!InitDefaults
<1>3. CASE r = "EU433"
  BY SMT, <1>3, DefaultTables DEF RegionInitDefaults, DefaultIds, Defaults, EU433!InitDefaults,
     EU433!Plan!InitDefaults
<1>4. CASE r = "EU868"
  BY SMT, <1>4, DefaultTables DEF RegionInitDefaults, DefaultIds, Defaults, EU868!InitDefaults,
     EU868!Plan!InitDefaults
<1>5. CASE r = "IN865"
  BY SMT, <1>5, DefaultTables DEF RegionInitDefaults, DefaultIds, Defaults, IN865!InitDefaults,
     IN865!Plan!InitDefaults
<1>6. CASE r = "KR920"
  BY SMT, <1>6, DefaultTables DEF RegionInitDefaults, DefaultIds, Defaults, KR920!InitDefaults,
     KR920!Plan!InitDefaults
<1>7. CASE r = "RU864"
  BY SMT, <1>7, DefaultTables DEF RegionInitDefaults, DefaultIds, Defaults, RU864!InitDefaults,
     RU864!Plan!InitDefaults
<1> QED
  BY <1>1, <1>2, <1>3, <1>4, <1>5, <1>6, <1>7 DEF ListNames

(* RESET_TO_DEFAULT_CHANNELS takes back what moved the default channels.   *)
LEMMA ResetIs ==
    ASSUME NEW r \in ListNames, NEW p
    PROVE  RegionInitDefaults(r, "RESET_TO_DEFAULT_CHANNELS", p) =
              [channels |-> [c \in DOMAIN p.channels |->
                                IF c \in DefaultIds(r)
                                THEN [p.channels[c] EXCEPT !.rx1Frequency = 0]
                                ELSE p.channels[c]],
               mask |-> DefaultIds(r)]
<1>1. CASE r = "AS923"
  BY SMT, <1>1, DefaultTables DEF RegionInitDefaults, DefaultIds, AS923!InitDefaults,
     AS923!Plan!InitDefaults
<1>2. CASE r = "CN779"
  BY SMT, <1>2, DefaultTables DEF RegionInitDefaults, DefaultIds, CN779!InitDefaults,
     CN779!Plan!InitDefaults
<1>3. CASE r = "EU433"
  BY SMT, <1>3, DefaultTables DEF RegionInitDefaults, DefaultIds, EU433!InitDefaults,
     EU433!Plan!InitDefaults
<1>4. CASE r = "EU868"
  BY SMT, <1>4, DefaultTables DEF RegionInitDefaults, DefaultIds, EU868!InitDefaults,
     EU868!Plan!InitDefaults
<1>5. CASE r = "IN865"
  BY SMT, <1>5, DefaultTables DEF RegionInitDefaults, DefaultIds, IN865!InitDefaults,
     IN865!Plan!InitDefaults
<1>6. CASE r = "KR920"
  BY SMT, <1>6, DefaultTables DEF RegionInitDefaults, DefaultIds, KR920!InitDefaults,
     KR920!Plan!InitDefaults
<1>7. CASE r = "RU864"
  BY SMT, <1>7, DefaultTables DEF RegionInitDefaults, DefaultIds, RU864!InitDefaults,
     RU864!Plan!InitDefaults
<1> QED
  BY <1>1, <1>2, <1>3, <1>4, <1>5, <1>6, <1>7 DEF ListNames

(* The data rates of a default channel are data rates of the region.       *)
LEMMA ListDrs == ASSUME NEW r \in ListNames PROVE 0 \in UplinkDrs(r) /\ 5 \in UplinkDrs(r)
BY SMT DEF ListNames, UplinkDrs

(* The default channels fit in the table.                                  *)
LEMMA DefaultIdsFit == ASSUME NEW r \in ListNames PROVE DefaultIds(r) \subseteq Ids(r)
BY SMT DEF ListNames, DefaultIds, Ids

(* A default channel is a sound entry.                                     *)
LEMMA DefaultSound ==
    ASSUME NEW r \in ListNames, NEW ch, DefaultChannel(ch), Legal(r, ch.frequency)
    PROVE  ChannelSound(r, ch) /\ ch.rx1Frequency = 0
<1>1. ch.rx1Frequency = 0 /\ ch.minDr = 0 /\ ch.maxDr = 5
  BY SMT DEF DefaultChannel
<1> QED BY <1>1, ListDrs, Zenon DEF ChannelSound, DefaultChannel

(* So is an empty one.                                                     *)
LEMMA EmptySound == ASSUME NEW r \in ListNames PROVE ChannelSound(r, EmptyChannel)
<1> DEFINE ch == EmptyChannel
<1>1. /\ ch = [frequency |-> ch.frequency, rx1Frequency |-> ch.rx1Frequency,
                minDr |-> ch.minDr, maxDr |-> ch.maxDr, band |-> ch.band]
      /\ ch.frequency = 0 /\ ch.rx1Frequency = 0 /\ ch.minDr = 0 /\ ch.maxDr = 0
  BY SMT DEF EmptyChannel
<1> QED BY <1>1, ListDrs, Zenon DEF ChannelSound

(* The channels after the first initialisation, and after a new session.   *)
LEMMA ListInit ==
    ASSUME NEW r \in ListNames
    PROVE  LET p == RegionInitDefaults(r, "DEFAULTS", RegionBlank(r))
           IN  PlanSound(r, p) /\ Unmoved(r, p)
<1> DEFINE p == RegionInitDefaults(r, "DEFAULTS", RegionBlank(r))
<1> DEFINE blank == RegionBlank(r)
<1>0. DOMAIN blank.channels = Ids(r) /\ \A c \in Ids(r) : blank.channels[c] = EmptyChannel
  BY BlankIs, SMT
<1> HIDE DEF blank
<1>1. p = [channels |-> [c \in DOMAIN blank.channels |->
                            IF c \in DefaultIds(r) THEN Defaults(r)[c] ELSE blank.channels[c]],
           mask |-> DefaultIds(r)]
  BY InitDefaultsIs, Zenon DEF blank
<1> HIDE DEF p
<1>2. /\ p = [channels |-> p.channels, mask |-> p.mask]
      /\ p.channels = [c \in Ids(r) |-> p.channels[c]]
      /\ p.mask = DefaultIds(r)
      /\ \A c \in Ids(r) : p.channels[c] = IF c \in DefaultIds(r) THEN Defaults(r)[c]
                                         ELSE EmptyChannel
  BY <1>0, <1>1, SMT
<1>3. ASSUME NEW c \in Ids(r) PROVE ChannelSound(r, p.channels[c])
  <2>1. CASE c \in DefaultIds(r)
    BY <1>2, <2>1, DefaultsLegal, DefaultSound, Zenon
  <2>2. CASE c \notin DefaultIds(r)
    BY <1>2, <2>2, EmptySound, Zenon
  <2> QED BY <2>1, <2>2
<1>4. \A c \in p.mask : p.channels[c].rx1Frequency = 0
  <2> SUFFICES ASSUME NEW c \in p.mask PROVE p.channels[c].rx1Frequency = 0
    OBVIOUS
  <2>1. c \in DefaultIds(r) /\ c \in Ids(r)
    BY <1>2, DefaultIdsFit
  <2> QED BY <1>2, <2>1, DefaultsLegal, DefaultSound, Zenon
<1> QED BY <1>2, <1>3, <1>4, DefaultIdsFit, SMT DEF PlanSound, Unmoved, p

(* After a new session the plan is sound, and nothing is moved.            *)
LEMMA ListReset ==
    ASSUME NEW r \in ListNames, NEW p, PlanSound(r, p)
    PROVE  LET q == RegionInitDefaults(r, "RESET_TO_DEFAULT_CHANNELS", p)
           IN  PlanSound(r, q) /\ Unmoved(r, q) /\ q.mask = DefaultIds(r)
<1> DEFINE q == RegionInitDefaults(r, "RESET_TO_DEFAULT_CHANNELS", p)
<1>1. /\ DOMAIN p.channels = Ids(r)
      /\ \A c \in Ids(r) : ChannelSound(r, p.channels[c])
  BY SMT DEF PlanSound
<1>2. q = [channels |-> [c \in DOMAIN p.channels |->
                            IF c \in DefaultIds(r)
                            THEN [p.channels[c] EXCEPT !.rx1Frequency = 0]
                            ELSE p.channels[c]],
           mask |-> DefaultIds(r)]
  BY ResetIs, Zenon
<1> HIDE DEF q
<1>3. /\ q = [channels |-> q.channels, mask |-> q.mask]
      /\ q.channels = [c \in Ids(r) |-> q.channels[c]]
      /\ q.mask = DefaultIds(r)
      /\ \A c \in Ids(r) : q.channels[c] = IF c \in DefaultIds(r)
                                         THEN [p.channels[c] EXCEPT !.rx1Frequency = 0]
                                         ELSE p.channels[c]
  BY <1>1, <1>2, SMT
<1>4. ASSUME NEW c \in Ids(r) PROVE ChannelSound(r, q.channels[c])
  <2> DEFINE old == p.channels[c]
  <2>1. ChannelSound(r, old)
    BY <1>1
  <2>2. q.channels[c] = IF c \in DefaultIds(r) THEN [old EXCEPT !.rx1Frequency = 0] ELSE old
    BY <1>3
  <2> HIDE DEF old
  <2>3. CASE c \in DefaultIds(r)
    <3>1. q.channels[c] = [frequency |-> old.frequency, rx1Frequency |-> 0,
                           minDr |-> old.minDr, maxDr |-> old.maxDr, band |-> old.band]
      BY <2>1, <2>2, <2>3, SMT DEF ChannelSound
    <3> QED BY <2>1, <3>1, SMT DEF ChannelSound
  <2>4. CASE c \notin DefaultIds(r)
    BY <2>1, <2>2, <2>4
  <2> QED BY <2>3, <2>4
<1>5. ASSUME NEW c \in DefaultIds(r) PROVE q.channels[c].rx1Frequency = 0
  <2> DEFINE old == p.channels[c]
  <2>1. ChannelSound(r, old) /\ q.channels[c] = [old EXCEPT !.rx1Frequency = 0]
    BY <1>1, <1>3, <1>5, DefaultIdsFit
  <2> HIDE DEF old
  <2> QED BY <2>1, SMT DEF ChannelSound
<1> QED BY <1>3, <1>4, <1>5, DefaultIdsFit, SMT DEF PlanSound, Unmoved, q

(* The channels of which NextChannel draws one.                            *)
LEMMA ListNextIs ==
    ASSUME NEW r \in ListNames, NEW p, NEW isJoined, NEW dr
    PROVE  RegionNextChannel(r, p, isJoined, dr) =
              {c \in p.mask : /\ p.channels[c].frequency # 0
                              /\ dr \in p.channels[c].minDr..p.channels[c].maxDr
                              /\ isJoined \/ c \in DefaultIds(r)}
<1>1. CASE r = "AS923"
  BY SMT, <1>1, DefaultTables DEF RegionNextChannel, DefaultIds, AS923!NextChannel,
     AS923!Plan!NextChannel
<1>2. CASE r = "CN779"
  BY SMT, <1>2, DefaultTables DEF RegionNextChannel, DefaultIds, CN779!NextChannel,
     CN779!Plan!NextChannel
<1>3. CASE r = "EU433"
  BY SMT, <1>3, DefaultTables DEF RegionNextChannel, DefaultIds, EU433!NextChannel,
     EU433!Plan!NextChannel
<1>4. CASE r = "EU868"
  BY SMT, <1>4, DefaultTables DEF RegionNextChannel, DefaultIds, EU868!NextChannel,
     EU868!Plan!NextChannel
<1>5. CASE r = "IN865"
  BY SMT, <1>5, DefaultTables DEF RegionNextChannel, DefaultIds, IN865!NextChannel,
     IN865!Plan!NextChannel
<1>6. CASE r = "KR920"
  BY SMT, <1>6, DefaultTables DEF RegionNextChannel, DefaultIds, KR920!NextChannel,
     KR920!Plan!NextChannel
<1>7. CASE r = "RU864"
  BY SMT, <1>7, DefaultTables DEF RegionNextChannel, DefaultIds, RU864!NextChannel,
     RU864!Plan!NextChannel
<1> QED
  BY <1>1, <1>2, <1>3, <1>4, <1>5, <1>6, <1>7 DEF ListNames

(* A channel that is drawn is in use, has a frequency and takes the data   *)
(* rate.                                                                   *)
LEMMA ListNext ==
    ASSUME NEW r \in ListNames, NEW p, PlanSound(r, p), NEW isJoined, NEW dr,
           NEW c \in RegionNextChannel(r, p, isJoined, dr)
    PROVE  c \in p.mask /\ p.channels[c].frequency # 0 /\ dr \in UplinkDrs(r)
<1>1. /\ c \in p.mask /\ p.channels[c].frequency # 0
      /\ dr \in p.channels[c].minDr..p.channels[c].maxDr
  BY ListNextIs
<1>2. p.channels[c].minDr \in UplinkDrs(r) /\ p.channels[c].maxDr \in UplinkDrs(r)
  <2>1. ChannelSound(r, p.channels[c])
    BY <1>1, Zenon DEF PlanSound
  <2> QED BY <2>1 DEF ChannelSound
<1>3. UplinkDrs(r) = 0..5 \/ UplinkDrs(r) = 0..7
  BY SMT DEF UplinkDrs, ListNames
<1> QED BY <1>1, <1>2, <1>3, SMT

(* A channel of a plan replaced.                                           *)
Replaced(p, id, ch, mask) == [channels |-> [p.channels EXCEPT ![id] = ch], mask |-> mask]

(* Replacing an entry by a sound one leaves the plan sound.                *)
LEMMA ReplacedSound ==
    ASSUME NEW r \in ListNames, NEW p, PlanSound(r, p), NEW id \in Ids(r), NEW ch,
           NEW mask \in SUBSET Ids(r), ChannelSound(r, ch)
    PROVE  LET q == Replaced(p, id, ch, mask)
           IN  /\ PlanSound(r, q) /\ q.mask = mask /\ q.channels[id] = ch
               /\ \A c \in Ids(r) \ {id} : q.channels[c] = p.channels[c]
<1> DEFINE q == Replaced(p, id, ch, mask)
           old == p.channels
           new == [old EXCEPT ![id] = ch]
<1>1. old = [c \in Ids(r) |-> old[c]] /\ \A c \in Ids(r) : ChannelSound(r, old[c])
  BY Zenon DEF PlanSound
<1>2. q = [channels |-> new, mask |-> mask]
  BY DEF Replaced
<1> HIDE DEF old
<1>3. /\ new = [c \in Ids(r) |-> new[c]]
      /\ new[id] = ch
      /\ \A c \in Ids(r) \ {id} : new[c] = old[c]
  BY <1>1, SMT
<1> HIDE DEF new, q
<1>4. q = [channels |-> q.channels, mask |-> q.mask] /\ q.channels = new /\ q.mask = mask
  BY <1>2, SMT
<1>5. ASSUME NEW c \in Ids(r) PROVE ChannelSound(r, new[c])
  BY <1>1, <1>3, <1>5
<1>6. PlanSound(r, q)
  BY <1>3, <1>4, <1>5, Zenon DEF PlanSound
<1> QED BY <1>3, <1>4, <1>6 DEF old, q

(* NewChannelReq removes a channel, adds one or changes nothing.           *)
Removed(p, id) == Replaced(p, id, EmptyChannel, p.mask \ {id})
Added(p, id, new, band) == Replaced(p, id, [new EXCEPT !.band = band], p.mask \cup {id})

(* NewChannelReq of every region, with what it verified of a new channel.  *)
LEMMA ListNewChannelIs ==
    ASSUME NEW r \in ListNames, NEW p, NEW id, NEW new
    PROVE  LET q == RegionNewChannelReq(r, p, id, new).nvm
           IN  \/ q = p
               \/ q = Removed(p, id)
               \/ /\ Legal(r, new.frequency)
                  /\ new.minDr \in UplinkDrs(r) /\ new.maxDr \in UplinkDrs(r)
                  /\ \E band : q = Added(p, id, new, band)
<1>1. CASE r = "AS923"
  <2>1. RegionNewChannelReq(r, p, id, new).nvm = IF new.frequency
        = 0 THEN AS923!Plan!ChannelsRemove(p, id)
          ELSE AS923!Plan!ChannelAdd(p, id, new)
    BY SMT, <1>1 DEF RegionNewChannelReq, AS923!NewChannelReq, AS923!Plan!NewChannelReq
  <2>2. AS923!Plan!ChannelsRemove(p, id) = p \/ AS923!Plan!ChannelsRemove(p, id)
        = Removed(p, id)
    BY SMT DEF AS923!Plan!ChannelsRemove, AS923!Plan!NoChannel, Removed, Replaced, EmptyChannel
  <2>3. \/ AS923!Plan!ChannelAdd(p, id, new) = p
        \/ /\ AS923!Plan!ChannelAddStatus(id, new) = "OK"
           /\ AS923!Plan!ChannelAdd(p, id, new) = Added(p, id, new, AS923!BandOf(new.frequency))
    BY SMT DEF AS923!Plan!ChannelAdd, Added, Replaced
  <2>4. AS923!Plan!ChannelAddStatus(id, new) = "OK" =>
           /\ Legal(r, new.frequency)
           /\ new.minDr \in UplinkDrs(r) /\ new.maxDr \in UplinkDrs(r)
    BY SMT, <1>1 DEF AS923!Plan!ChannelAddStatus, AS923!TxDrs, UplinkDrs, Legal, RegionVerify,
       AS923!Verify
  <2> QED BY <2>1, <2>2, <2>3, <2>4, Zenon
<1>2. CASE r = "CN779"
  <2>1. RegionNewChannelReq(r, p, id, new).nvm = IF new.frequency
        = 0 THEN CN779!Plan!ChannelsRemove(p, id)
          ELSE CN779!Plan!ChannelAdd(p, id, new)
    BY SMT, <1>2 DEF RegionNewChannelReq, CN779!NewChannelReq, CN779!Plan!NewChannelReq
  <2>2. CN779!Plan!ChannelsRemove(p, id) = p \/ CN779!Plan!ChannelsRemove(p, id)
        = Removed(p, id)
    BY SMT DEF CN779!Plan!ChannelsRemove, CN779!Plan!NoChannel, Removed, Replaced, EmptyChannel
  <2>3. \/ CN779!Plan!ChannelAdd(p, id, new) = p
        \/ /\ CN779!Plan!ChannelAddStatus(id, new) = "OK"
           /\ CN779!Plan!ChannelAdd(p, id, new) = Added(p, id, new, CN779!BandOf(new.frequency))
    BY SMT DEF CN779!Plan!ChannelAdd, Added, Replaced
  <2>4. CN779!Plan!ChannelAddStatus(id, new) = "OK" =>
           /\ Legal(r, new.frequency)
           /\ new.minDr \in UplinkDrs(r) /\ new.maxDr \in UplinkDrs(r)
    BY SMT, <1>2 DEF CN779!Plan!ChannelAddStatus, CN779!TxDrs, UplinkDrs, Legal, RegionVerify,
       CN779!Verify
  <2> QED BY <2>1, <2>2, <2>3, <2>4, Zenon
<1>3. CASE r = "EU433"
  <2>1. RegionNewChannelReq(r, p, id, new).nvm = IF new.frequency
        = 0 THEN EU433!Plan!ChannelsRemove(p, id)
          ELSE EU433!Plan!ChannelAdd(p, id, new)
    BY SMT, <1>3 DEF RegionNewChannelReq, EU433!NewChannelReq, EU433!Plan!NewChannelReq
  <2>2. EU433!Plan!ChannelsRemove(p, id) = p \/ EU433!Plan!ChannelsRemove(p, id)
        = Removed(p, id)
    BY SMT DEF EU433!Plan!ChannelsRemove, EU433!Plan!NoChannel, Removed, Replaced, EmptyChannel
  <2>3. \/ EU433!Plan!ChannelAdd(p, id, new) = p
        \/ /\ EU433!Plan!ChannelAddStatus(id, new) = "OK"
           /\ EU433!Plan!ChannelAdd(p, id, new) = Added(p, id, new, EU433!BandOf(new.frequency))
    BY SMT DEF EU433!Plan!ChannelAdd, Added, Replaced
  <2>4. EU433!Plan!ChannelAddStatus(id, new) = "OK" =>
           /\ Legal(r, new.frequency)
           /\ new.minDr \in UplinkDrs(r) /\ new.maxDr \in UplinkDrs(r)
    BY SMT, <1>3 DEF EU433!Plan!ChannelAddStatus, EU433!TxDrs, UplinkDrs, Legal, RegionVerify,
       EU433!Verify
  <2> QED BY <2>1, <2>2, <2>3, <2>4, Zenon
<1>4. CASE r = "EU868"
  <2>1. RegionNewChannelReq(r, p, id, new).nvm = IF new.frequency
        = 0 THEN EU868!Plan!ChannelsRemove(p, id)
          ELSE EU868!Plan!ChannelAdd(p, id, new)
    BY SMT, <1>4 DEF RegionNewChannelReq, EU868!NewChannelReq, EU868!Plan!NewChannelReq
  <2>2. EU868!Plan!ChannelsRemove(p, id) = p \/ EU868!Plan!ChannelsRemove(p, id)
        = Removed(p, id)
    BY SMT DEF EU868!Plan!ChannelsRemove, EU868!Plan!NoChannel, Removed, Replaced, EmptyChannel
  <2>3. \/ EU868!Plan!ChannelAdd(p, id, new) = p
        \/ /\ EU868!Plan!ChannelAddStatus(id, new) = "OK"
           /\ EU868!Plan!ChannelAdd(p, id, new) = Added(p, id, new, EU868!BandOf(new.frequency))
    BY SMT DEF EU868!Plan!ChannelAdd, Added, Replaced
  <2>4. EU868!Plan!ChannelAddStatus(id, new) = "OK" =>
           /\ Legal(r, new.frequency)
           /\ new.minDr \in UplinkDrs(r) /\ new.maxDr \in UplinkDrs(r)
    BY SMT, <1>4 DEF EU868!Plan!ChannelAddStatus, EU868!TxDrs, UplinkDrs, Legal, RegionVerify,
       EU868!Verify
  <2> QED BY <2>1, <2>2, <2>3, <2>4, Zenon
<1>5. CASE r = "IN865"
  <2>1. RegionNewChannelReq(r, p, id, new).nvm = IF new.frequency
        = 0 THEN IN865!Plan!ChannelsRemove(p, id)
          ELSE IN865!Plan!ChannelAdd(p, id, new)
    BY SMT, <1>5 DEF RegionNewChannelReq, IN865!NewChannelReq, IN865!Plan!NewChannelReq
  <2>2. IN865!Plan!ChannelsRemove(p, id) = p \/ IN865!Plan!ChannelsRemove(p, id)
        = Removed(p, id)
    BY SMT DEF IN865!Plan!ChannelsRemove, IN865!Plan!NoChannel, Removed, Replaced, EmptyChannel
  <2>3. \/ IN865!Plan!ChannelAdd(p, id, new) = p
        \/ /\ IN865!Plan!ChannelAddStatus(id, new) = "OK"
           /\ IN865!Plan!ChannelAdd(p, id, new) = Added(p, id, new, IN865!BandOf(new.frequency))
    BY SMT DEF IN865!Plan!ChannelAdd, Added, Replaced
  <2>4. IN865!Plan!ChannelAddStatus(id, new) = "OK" =>
           /\ Legal(r, new.frequency)
           /\ new.minDr \in UplinkDrs(r) /\ new.maxDr \in UplinkDrs(r)
    BY SMT, <1>5 DEF IN865!Plan!ChannelAddStatus, IN865!TxDrs, UplinkDrs, Legal, RegionVerify,
       IN865!Verify
  <2> QED BY <2>1, <2>2, <2>3, <2>4, Zenon
<1>6. CASE r = "KR920"
  <2>1. RegionNewChannelReq(r, p, id, new).nvm = IF new.frequency
        = 0 THEN KR920!Plan!ChannelsRemove(p, id)
          ELSE KR920!Plan!ChannelAdd(p, id, new)
    BY SMT, <1>6 DEF RegionNewChannelReq, KR920!NewChannelReq, KR920!Plan!NewChannelReq
  <2>2. KR920!Plan!ChannelsRemove(p, id) = p \/ KR920!Plan!ChannelsRemove(p, id)
        = Removed(p, id)
    BY SMT DEF KR920!Plan!ChannelsRemove, KR920!Plan!NoChannel, Removed, Replaced, EmptyChannel
  <2>3. \/ KR920!Plan!ChannelAdd(p, id, new) = p
        \/ /\ KR920!Plan!ChannelAddStatus(id, new) = "OK"
           /\ KR920!Plan!ChannelAdd(p, id, new) = Added(p, id, new, KR920!BandOf(new.frequency))
    BY SMT DEF KR920!Plan!ChannelAdd, Added, Replaced
  <2>4. KR920!Plan!ChannelAddStatus(id, new) = "OK" =>
           /\ Legal(r, new.frequency)
           /\ new.minDr \in UplinkDrs(r) /\ new.maxDr \in UplinkDrs(r)
    BY SMT, <1>6 DEF KR920!Plan!ChannelAddStatus, KR920!TxDrs, UplinkDrs, Legal, RegionVerify,
       KR920!Verify
  <2> QED BY <2>1, <2>2, <2>3, <2>4, Zenon
<1>7. CASE r = "RU864"
  <2>1. RegionNewChannelReq(r, p, id, new).nvm = IF new.frequency
        = 0 THEN RU864!Plan!ChannelsRemove(p, id)
          ELSE RU864!Plan!ChannelAdd(p, id, new)
    BY SMT, <1>7 DEF RegionNewChannelReq, RU864!NewChannelReq, RU864!Plan!NewChannelReq
  <2>2. RU864!Plan!ChannelsRemove(p, id) = p \/ RU864!Plan!ChannelsRemove(p, id)
        = Removed(p, id)
    BY SMT DEF RU864!Plan!ChannelsRemove, RU864!Plan!NoChannel, Removed, Replaced, EmptyChannel
  <2>3. \/ RU864!Plan!ChannelAdd(p, id, new) = p
        \/ /\ RU864!Plan!ChannelAddStatus(id, new) = "OK"
           /\ RU864!Plan!ChannelAdd(p, id, new) = Added(p, id, new, RU864!BandOf(new.frequency))
    BY SMT DEF RU864!Plan!ChannelAdd, Added, Replaced
  <2>4. RU864!Plan!ChannelAddStatus(id, new) = "OK" =>
           /\ Legal(r, new.frequency)
           /\ new.minDr \in UplinkDrs(r) /\ new.maxDr \in UplinkDrs(r)
    BY SMT, <1>7 DEF RU864!Plan!ChannelAddStatus, RU864!TxDrs, UplinkDrs, Legal, RegionVerify,
       RU864!Verify
  <2> QED BY <2>1, <2>2, <2>3, <2>4, Zenon
<1> QED
  BY <1>1, <1>2, <1>3, <1>4, <1>5, <1>6, <1>7 DEF ListNames

(* A channel the network defines, as its command brings it.                *)
NewOne(new) ==
    new = [frequency |-> new.frequency, rx1Frequency |-> 0, minDr |-> new.minDr,
           maxDr |-> new.maxDr, band |-> new.band]

(* Whatever NewChannelReq does leaves the plan sound, and where window 1   *)
(* of the other channels is.                                               *)
LEMMA ListNewChannel ==
    ASSUME NEW r \in ListNames, NEW p, PlanSound(r, p), NEW id \in Ids(r), NEW new, NewOne(new)
    PROVE  LET q == RegionNewChannelReq(r, p, id, new).nvm
           IN  /\ PlanSound(r, q)
               /\ \A c \in Ids(r) \ {id} : /\ c \in q.mask <=> c \in p.mask
                                           /\ q.channels[c] = p.channels[c]
               /\ q = p \/ q.channels[id].rx1Frequency = 0
<1> DEFINE q == RegionNewChannelReq(r, p, id, new).nvm
<1>0. p.mask \subseteq Ids(r)
  BY DEF PlanSound
<1>1. CASE q = p
  BY <1>1
<1>2. CASE q = Removed(p, id)
  <2> HIDE DEF q
  <2> DEFINE mask == p.mask \ {id}
  <2>1. mask \in SUBSET Ids(r)
    BY <1>0
  <2>a. q = Replaced(p, id, EmptyChannel, mask)
    BY <1>2 DEF Removed
  <2> HIDE DEF mask
  <2>2. EmptyChannel.rx1Frequency = 0
    BY SMT DEF EmptyChannel
  <2>3. /\ PlanSound(r, q) /\ q.mask = mask /\ q.channels[id] = EmptyChannel
        /\ \A c \in Ids(r) \ {id} : q.channels[c] = p.channels[c]
    BY <2>a, <2>1, EmptySound, ReplacedSound
  <2> QED BY <2>2, <2>3 DEF q, mask
<1>3. \/ q = p
      \/ q = Removed(p, id)
      \/ /\ Legal(r, new.frequency)
         /\ new.minDr \in UplinkDrs(r) /\ new.maxDr \in UplinkDrs(r)
         /\ \E band : q = Added(p, id, new, band)
  BY ListNewChannelIs, Zenon
<1> HIDE DEF q
<1>4. CASE /\ Legal(r, new.frequency)
           /\ new.minDr \in UplinkDrs(r) /\ new.maxDr \in UplinkDrs(r)
           /\ \E band : q = Added(p, id, new, band)
  <2>1. PICK band : q = Added(p, id, new, band)
    BY <1>4
  <2> DEFINE ch == [new EXCEPT !.band = band]
  <2>4. /\ ch = [frequency |-> ch.frequency, rx1Frequency |-> ch.rx1Frequency,
                 minDr |-> ch.minDr, maxDr |-> ch.maxDr, band |-> ch.band]
        /\ ch.frequency = new.frequency /\ ch.rx1Frequency = 0
        /\ ch.minDr = new.minDr /\ ch.maxDr = new.maxDr
    BY SMT DEF NewOne
  <2> DEFINE mask == p.mask \cup {id}
  <2>2. q = Replaced(p, id, ch, mask)
    BY <2>1 DEF Added
  <2> HIDE DEF ch
  <2>3. ChannelSound(r, ch)
    BY <1>4, <2>4, Zenon DEF ChannelSound
  <2>6. mask \in SUBSET Ids(r)
    BY <1>0
  <2> HIDE DEF mask
  <2>5. /\ PlanSound(r, q) /\ q.mask = mask /\ q.channels[id] = ch
        /\ \A c \in Ids(r) \ {id} : q.channels[c] = p.channels[c]
    BY <2>2, <2>3, <2>6, ReplacedSound
  <2> QED BY <2>4, <2>5 DEF mask, q
<1> QED BY <1>1, <1>2, <1>3, <1>4 DEF q

(* DlChannelReq moves window 1 of a channel there is.                      *)
LEMMA ListDlChannelIs ==
    ASSUME NEW r \in ListNames, NEW p, NEW id, NEW f
    PROVE  RegionDlChannelReq(r, p, id, f) =
              IF Legal(r, f) /\ p.channels[id].frequency # 0
              THEN [answer |-> "accepted", nvm |-> [p EXCEPT !.channels[id].rx1Frequency = f]]
              ELSE [answer |-> "refused", nvm |-> p]
<1>1. CASE r = "AS923"
  BY SMT, <1>1 DEF RegionDlChannelReq, RegionVerify, Legal, AS923!DlChannelReq,
     AS923!Plan!DlChannelReq, AS923!Verify
<1>2. CASE r = "CN779"
  BY SMT, <1>2 DEF RegionDlChannelReq, RegionVerify, Legal, CN779!DlChannelReq,
     CN779!Plan!DlChannelReq, CN779!Verify
<1>3. CASE r = "EU433"
  BY SMT, <1>3 DEF RegionDlChannelReq, RegionVerify, Legal, EU433!DlChannelReq,
     EU433!Plan!DlChannelReq, EU433!Verify
<1>4. CASE r = "EU868"
  BY SMT, <1>4 DEF RegionDlChannelReq, RegionVerify, Legal, EU868!DlChannelReq,
     EU868!Plan!DlChannelReq, EU868!Verify
<1>5. CASE r = "IN865"
  BY SMT, <1>5 DEF RegionDlChannelReq, RegionVerify, Legal, IN865!DlChannelReq,
     IN865!Plan!DlChannelReq, IN865!Verify
<1>6. CASE r = "KR920"
  BY SMT, <1>6 DEF RegionDlChannelReq, RegionVerify, Legal, KR920!DlChannelReq,
     KR920!Plan!DlChannelReq, KR920!Verify
<1>7. CASE r = "RU864"
  BY SMT, <1>7 DEF RegionDlChannelReq, RegionVerify, Legal, RU864!DlChannelReq,
     RU864!Plan!DlChannelReq, RU864!Verify
<1> QED
  BY <1>1, <1>2, <1>3, <1>4, <1>5, <1>6, <1>7 DEF ListNames

(* So does DlChannelReq, which moves the window of its own channel only.   *)
LEMMA ListDlChannel ==
    ASSUME NEW r \in ListNames, NEW p, PlanSound(r, p), NEW id \in Ids(r), NEW f
    PROVE  LET result == RegionDlChannelReq(r, p, id, f)
               q == result.nvm
           IN  \/ result.answer = "refused" /\ q = p
               \/ /\ result.answer = "accepted"
                  /\ PlanSound(r, q) /\ q.mask = p.mask
                  /\ \A c \in Ids(r) \ {id} : q.channels[c] = p.channels[c]
                  /\ q.channels[id].rx1Frequency = f /\ f # 0
                  /\ q.channels[id].frequency = p.channels[id].frequency
<1> DEFINE result == RegionDlChannelReq(r, p, id, f)
           q == result.nvm
<1>1. CASE Legal(r, f) /\ p.channels[id].frequency # 0
  <2>1. result = [answer |-> "accepted", nvm |-> [p EXCEPT !.channels[id].rx1Frequency = f]]
    BY <1>1, ListDlChannelIs, SMT
  <2> HIDE DEF result
  <2>2. result.answer = "accepted" /\ q = [p EXCEPT !.channels[id].rx1Frequency = f]
    BY <2>1, SMT
  <2> HIDE DEF q
  <2> DEFINE channels == p.channels
             old == channels[id]
             ch == [old EXCEPT !.rx1Frequency = f]
  <2>3. /\ p = [channels |-> channels, mask |-> p.mask]
        /\ channels = [c \in Ids(r) |-> channels[c]]
        /\ ChannelSound(r, old) /\ p.mask \in SUBSET Ids(r)
    BY SMT DEF PlanSound
  <2>4. q = [channels |-> [channels EXCEPT ![id] = [channels[id] EXCEPT !.rx1Frequency = f]],
             mask |-> p.mask]
    <3> HIDE DEF channels, old
    <3> QED BY <2>2, <2>3, SMT
  <2>5. /\ ch = [frequency |-> ch.frequency, rx1Frequency |-> ch.rx1Frequency,
                 minDr |-> ch.minDr, maxDr |-> ch.maxDr, band |-> ch.band]
        /\ ch.frequency = old.frequency /\ ch.rx1Frequency = f
        /\ ch.minDr = old.minDr /\ ch.maxDr = old.maxDr
    <3> HIDE DEF channels, old
    <3> QED BY <2>3, SMT DEF ChannelSound
  <2> DEFINE mask == p.mask
  <2>6. q = Replaced(p, id, ch, mask) /\ mask \in SUBSET Ids(r)
    BY <2>3, <2>4 DEF Replaced
  <2> HIDE DEF ch, old, channels
  <2>7. ChannelSound(r, ch)
    BY <1>1, <2>3, <2>5, Zenon DEF ChannelSound
  <2> HIDE DEF mask
  <2>8. /\ PlanSound(r, q) /\ q.mask = mask /\ q.channels[id] = ch
        /\ \A c \in Ids(r) \ {id} : q.channels[c] = p.channels[c]
    BY <2>6, <2>7, ReplacedSound
  <2>9. f # 0
    BY <1>1, ZeroIllegal
  <2> QED BY <2>2, <2>5, <2>8, <2>9 DEF q, result, old, channels, mask
<1>2. CASE ~(Legal(r, f) /\ p.channels[id].frequency # 0)
  <2>1. result = [answer |-> "refused", nvm |-> p]
    BY <1>2, ListDlChannelIs, SMT
  <2> HIDE DEF result
  <2>2. result.answer = "refused" /\ q = p
    BY <2>1, SMT
  <2> QED BY <2>2 DEF result
<1> QED BY <1>1, <1>2

(* A CFList of type 0 replaces channels by legal ones that nothing moved,  *)
(* and removes others.                                                     *)
Relisted(p, new, added, removed) ==
    [channels |-> [c \in DOMAIN p.channels |->
                      CASE c \in added -> new[c]
                        [] c \in removed -> EmptyChannel
                        [] OTHER -> p.channels[c]],
     mask |-> (p.mask \cup added) \ removed]

(* Replacing the entries that a CFList replaces leaves the plan sound.     *)
LEMMA RelistedSound ==
    ASSUME NEW r \in ListNames, NEW p, PlanSound(r, p), NEW new, NEW added \in SUBSET Ids(r),
           NEW removed, added \cap removed = {},
           \A c \in added : ChannelSound(r, new[c]) /\ new[c].rx1Frequency = 0
    PROVE  LET q == Relisted(p, new, added, removed)
           IN  PlanSound(r, q) /\ (Unmoved(r, p) => Unmoved(r, q))
<1> DEFINE q == Relisted(p, new, added, removed)
           old == p.channels
           channels == [c \in Ids(r) |-> CASE c \in added -> new[c]
                                           [] c \in removed -> EmptyChannel
                                           [] OTHER -> old[c]]
           mask == (p.mask \cup added) \ removed
<1>1. /\ old = [c \in Ids(r) |-> old[c]]
      /\ \A c \in Ids(r) : ChannelSound(r, old[c])
      /\ p.mask \subseteq Ids(r)
  BY Zenon DEF PlanSound
<1> HIDE DEF old
<1>2. /\ DOMAIN old = Ids(r)
      /\ \A c \in added : channels[c] = new[c]
      /\ \A c \in removed \cap Ids(r) : channels[c] = EmptyChannel
      /\ \A c \in Ids(r) \ (added \cup removed) : channels[c] = old[c]
      /\ channels = [c \in Ids(r) |-> channels[c]]
  BY <1>1, SMT
<1>3. q = [channels |-> channels, mask |-> mask]
  BY <1>2, SMT DEF Relisted, old
<1> HIDE DEF channels, q
<1>4. q = [channels |-> q.channels, mask |-> q.mask] /\ q.channels = channels /\ q.mask = mask
  <2> HIDE DEF mask
  <2> QED BY <1>3, SMT
<1>5. ASSUME NEW c \in Ids(r) PROVE ChannelSound(r, channels[c])
  BY <1>1, <1>2, <1>5, EmptySound
<1>6. mask \subseteq Ids(r)
  BY <1>1
<1>7. PlanSound(r, q)
  <2> HIDE DEF mask
  <2> QED BY <1>2, <1>4, <1>5, <1>6, Zenon DEF PlanSound
<1>8. ASSUME Unmoved(r, p), NEW c \in mask PROVE channels[c].rx1Frequency = 0
  <2>1. CASE c \in added
    BY <1>2, <2>1
  <2>2. CASE c \in p.mask \ (added \cup removed)
    <3>1. old[c].rx1Frequency = 0 /\ c \in Ids(r)
      BY <1>1, <1>8, <2>2, Zenon DEF Unmoved, old
    <3> QED BY <1>2, <2>2, <3>1
  <2> QED BY <2>1, <2>2
<1>9. Unmoved(r, p) => Unmoved(r, q)
  <2> HIDE DEF mask
  <2> QED BY <1>4, <1>8, Zenon DEF Unmoved
<1> QED BY <1>7, <1>9 DEF q

(* A channel of a CFList.                                                  *)
Listed(ch) ==
    ch = [frequency |-> ch.frequency, rx1Frequency |-> 0, minDr |-> 0, maxDr |-> 5, band |-> 0]

(* A channel that has its fields and no other.                             *)
Whole(ch) ==
    ch = [frequency |-> ch.frequency, rx1Frequency |-> ch.rx1Frequency,
          minDr |-> ch.minDr, maxDr |-> ch.maxDr, band |-> ch.band]

(* Changing one field of a channel keeps it whole, and the other fields.   *)
LEMMA EmptyWhole == Whole(EmptyChannel)
BY SMT DEF Whole, EmptyChannel

LEMMA WithFrequencyWhole ==
    ASSUME NEW ch, Whole(ch), NEW f
    PROVE  LET new == [ch EXCEPT !.frequency = f]
           IN  /\ Whole(new) /\ new.frequency = f /\ new.rx1Frequency = ch.rx1Frequency
               /\ new.minDr = ch.minDr /\ new.maxDr = ch.maxDr /\ new.band = ch.band
BY SMT DEF Whole

LEMMA WithMaxDrWhole ==
    ASSUME NEW ch, Whole(ch), NEW dr
    PROVE  LET new == [ch EXCEPT !.maxDr = dr]
           IN  /\ Whole(new) /\ new.frequency = ch.frequency
               /\ new.rx1Frequency = ch.rx1Frequency
               /\ new.minDr = ch.minDr /\ new.maxDr = dr /\ new.band = ch.band
BY SMT DEF Whole

(* What AdoptCFList writes over an empty channel is a listed one.          *)
LEMMA ListedIs ==
    ASSUME NEW ch, ch = EmptyChannel, NEW f
    PROVE  Listed([ch EXCEPT !.frequency = f, !.maxDr = 5])
<1> DEFINE one == [ch EXCEPT !.frequency = f]
           new == [ch EXCEPT !.frequency = f, !.maxDr = 5]
<1>1. ch.rx1Frequency = 0 /\ ch.minDr = 0 /\ ch.band = 0
  BY SMT DEF EmptyChannel
<1>2. /\ Whole(one) /\ one.frequency = f /\ one.rx1Frequency = ch.rx1Frequency
      /\ one.minDr = ch.minDr /\ one.band = ch.band
  BY EmptyWhole, WithFrequencyWhole
<1>3. new = [one EXCEPT !.maxDr = 5]
  BY Zenon
<1> HIDE DEF one
<1>4. /\ Whole(new) /\ new.frequency = f /\ new.rx1Frequency = ch.rx1Frequency
      /\ new.minDr = ch.minDr /\ new.maxDr = 5 /\ new.band = ch.band
  <2> HIDE DEF new
  <2> QED BY <1>2, <1>3, WithMaxDrWhole
<1> HIDE DEF new
<1> QED BY <1>1, <1>4, Zenon DEF Listed, Whole, new

(* A listed channel in its band is a sound entry.                          *)
LEMMA ListedSound ==
    ASSUME NEW r \in ListNames, NEW ch, Listed(ch), Legal(r, ch.frequency), NEW new,
           \E band : new = [ch EXCEPT !.band = band]
    PROVE  ChannelSound(r, new) /\ new.rx1Frequency = 0
<1>1. PICK band : new = [ch EXCEPT !.band = band]
  OBVIOUS
<1>2. DefaultChannel(new) /\ new.frequency = ch.frequency
  BY <1>1, SMT DEF Listed, DefaultChannel
<1> QED BY <1>2, DefaultSound

(* ApplyCFListOfType0 of every region leaves the plan sound and unmoved.   *)
LEMMA ListCFList ==
    ASSUME NEW r \in ListNames, NEW p, PlanSound(r, p), NEW cfList
    PROVE  LET q == RegionApplyCFList(r, p, cfList)
           IN  PlanSound(r, q) /\ (Unmoved(r, p) => Unmoved(r, q))
<1>0. DOMAIN p.channels = Ids(r)
  BY SMT DEF PlanSound
<1>1. CASE r = "AS923"
  <2> DEFINE listed == AS923!Plan!Listed(cfList)
             named == {id \in DOMAIN listed \cap DOMAIN p.channels : listed[id].frequency # 0}
             added == {id \in named : AS923!Plan!ChannelAddStatus(id, listed[id]) = "OK"}
             removed == DOMAIN p.channels \ (AS923!Plan!DefaultIds \cup named)
             new == [id \in added |->
                        [listed[id] EXCEPT !.band = AS923!BandOf(listed[id].frequency)]]
  <2>1. ASSUME NEW id \in DOMAIN listed PROVE Listed(listed[id])
    <3>1. PICK f : listed[id] = [AS923!Plan!NoChannel EXCEPT !.frequency = f, !.maxDr = 5]
      BY <2>1, Zenon DEF AS923!Plan!Listed
    <3> HIDE DEF listed
    <3>2. AS923!Plan!NoChannel = EmptyChannel
      BY DEF AS923!Plan!NoChannel, EmptyChannel
    <3> DEFINE base == AS923!Plan!NoChannel
               entry == [base EXCEPT !.frequency = f, !.maxDr = 5]
    <3>3. Listed(entry)
      <4> HIDE DEF base
      <4> QED BY <3>2, ListedIs DEF base
    <3> HIDE DEF entry
    <3> QED BY <3>1, <3>3, Zenon DEF entry
  <2>2. ASSUME NEW id \in added PROVE Legal(r, listed[id].frequency)
    BY SMT, <1>1 DEF AS923!Plan!ChannelAddStatus, Legal, RegionVerify, AS923!Verify
  <2>3. cfList.type = 0 => RegionApplyCFList(r, p, cfList) = Relisted(p, new, added, removed)
    <3>1. RegionApplyCFList(r, p, cfList) = AS923!Plan!ApplyCFList(p, cfList)
      BY SMT, <1>1 DEF RegionApplyCFList, AS923!ApplyCFList
    <3> DEFINE all == DOMAIN p.channels
               inCode == [id \in all |->
                             CASE id \in added -> [listed[id] EXCEPT
                                                     !.band = AS923!BandOf(listed[id].frequency)]
                               [] id \in removed -> AS923!Plan!NoChannel
                               [] OTHER -> p.channels[id]]
               here == [id \in all |-> CASE id \in added -> new[id]
                                         [] id \in removed -> EmptyChannel
                                         [] OTHER -> p.channels[id]]
    <3>2. cfList.type = 0 =>
             AS923!Plan!ApplyCFList(p, cfList) =
                [channels |-> inCode, mask |-> (p.mask \cup added) \ removed]
      BY SMT DEF AS923!Plan!ApplyCFList
    <3>3. ASSUME NEW id \in all PROVE inCode[id] = here[id]
      <4>1. AS923!Plan!NoChannel = EmptyChannel
        BY DEF AS923!Plan!NoChannel, EmptyChannel
      <4>2. CASE id \in added
        <5>0. id \notin removed
          <6> HIDE DEF listed
          <6> QED BY <4>2
        <5>1. new[id] = [listed[id] EXCEPT !.band = AS923!BandOf(listed[id].frequency)]
          BY <4>2, Zenon
        <5>2. inCode[id] = [listed[id] EXCEPT !.band = AS923!BandOf(listed[id].frequency)]
          <6> HIDE DEF listed, named, added, removed, new, all
          <6> QED BY SMT, <4>2, <5>0
        <5>3. here[id] = new[id]
          <6> HIDE DEF listed, named, added, removed, new, all
          <6> QED BY SMT, <4>2, <5>0
        <5> QED BY <5>1, <5>2, <5>3, Zenon
      <4>3. CASE id \notin added
        <5> HIDE DEF listed, named, added, removed, new, all
        <5> QED BY SMT, <4>1, <4>3
      <4> QED BY <4>2, <4>3
    <3>4. Relisted(p, new, added, removed) =
             [channels |-> here, mask |-> (p.mask \cup added) \ removed]
      BY DEF Relisted
    <3>5. inCode = [id \in all |-> inCode[id]] /\ here = [id \in all |-> here[id]]
      <4> HIDE DEF listed, named, added, removed, new, all
      <4> QED BY SMT
    <3> HIDE DEF inCode, here, added, removed, new, all
    <3>6. inCode = here
      BY SMT, <3>3, <3>5
    <3> QED BY <3>1, <3>2, <3>4, <3>6, Zenon
  <2>4. cfList.type # 0 => RegionApplyCFList(r, p, cfList) = p
    BY SMT, <1>1 DEF RegionApplyCFList, AS923!ApplyCFList, AS923!Plan!ApplyCFList
  <2>5. ASSUME NEW c \in added PROVE ChannelSound(r, new[c]) /\ new[c].rx1Frequency = 0
    <3> DEFINE ch == listed[c]
    <3>1. Listed(ch) /\ Legal(r, ch.frequency)
      BY <2>1, <2>2, <2>5
    <3>2. \E band : new[c] = [ch EXCEPT !.band = band]
      BY <2>5
    <3> HIDE DEF ch, added, new
    <3> QED BY <3>1, <3>2, ListedSound
  <2>6. added \in SUBSET Ids(r) /\ added \cap removed = {}
    <3> HIDE DEF listed
    <3> QED BY <1>0
  <2> HIDE DEF added, removed, new
  <2> QED BY <2>3, <2>4, <2>5, <2>6, RelistedSound
<1>2. CASE r = "CN779"
  <2> DEFINE listed == CN779!Plan!Listed(cfList)
             named == {id \in DOMAIN listed \cap DOMAIN p.channels : listed[id].frequency # 0}
             added == {id \in named : CN779!Plan!ChannelAddStatus(id, listed[id]) = "OK"}
             removed == DOMAIN p.channels \ (CN779!Plan!DefaultIds \cup named)
             new == [id \in added |->
                        [listed[id] EXCEPT !.band = CN779!BandOf(listed[id].frequency)]]
  <2>1. ASSUME NEW id \in DOMAIN listed PROVE Listed(listed[id])
    <3>1. PICK f : listed[id] = [CN779!Plan!NoChannel EXCEPT !.frequency = f, !.maxDr = 5]
      BY <2>1, Zenon DEF CN779!Plan!Listed
    <3> HIDE DEF listed
    <3>2. CN779!Plan!NoChannel = EmptyChannel
      BY DEF CN779!Plan!NoChannel, EmptyChannel
    <3> DEFINE base == CN779!Plan!NoChannel
               entry == [base EXCEPT !.frequency = f, !.maxDr = 5]
    <3>3. Listed(entry)
      <4> HIDE DEF base
      <4> QED BY <3>2, ListedIs DEF base
    <3> HIDE DEF entry
    <3> QED BY <3>1, <3>3, Zenon DEF entry
  <2>2. ASSUME NEW id \in added PROVE Legal(r, listed[id].frequency)
    BY SMT, <1>2 DEF CN779!Plan!ChannelAddStatus, Legal, RegionVerify, CN779!Verify
  <2>3. cfList.type = 0 => RegionApplyCFList(r, p, cfList) = Relisted(p, new, added, removed)
    <3>1. RegionApplyCFList(r, p, cfList) = CN779!Plan!ApplyCFList(p, cfList)
      BY SMT, <1>2 DEF RegionApplyCFList, CN779!ApplyCFList
    <3> DEFINE all == DOMAIN p.channels
               inCode == [id \in all |->
                             CASE id \in added -> [listed[id] EXCEPT
                                                     !.band = CN779!BandOf(listed[id].frequency)]
                               [] id \in removed -> CN779!Plan!NoChannel
                               [] OTHER -> p.channels[id]]
               here == [id \in all |-> CASE id \in added -> new[id]
                                         [] id \in removed -> EmptyChannel
                                         [] OTHER -> p.channels[id]]
    <3>2. cfList.type = 0 =>
             CN779!Plan!ApplyCFList(p, cfList) =
                [channels |-> inCode, mask |-> (p.mask \cup added) \ removed]
      BY SMT DEF CN779!Plan!ApplyCFList
    <3>3. ASSUME NEW id \in all PROVE inCode[id] = here[id]
      <4>1. CN779!Plan!NoChannel = EmptyChannel
        BY DEF CN779!Plan!NoChannel, EmptyChannel
      <4>2. CASE id \in added
        <5>0. id \notin removed
          <6> HIDE DEF listed
          <6> QED BY <4>2
        <5>1. new[id] = [listed[id] EXCEPT !.band = CN779!BandOf(listed[id].frequency)]
          BY <4>2, Zenon
        <5>2. inCode[id] = [listed[id] EXCEPT !.band = CN779!BandOf(listed[id].frequency)]
          <6> HIDE DEF listed, named, added, removed, new, all
          <6> QED BY SMT, <4>2, <5>0
        <5>3. here[id] = new[id]
          <6> HIDE DEF listed, named, added, removed, new, all
          <6> QED BY SMT, <4>2, <5>0
        <5> QED BY <5>1, <5>2, <5>3, Zenon
      <4>3. CASE id \notin added
        <5> HIDE DEF listed, named, added, removed, new, all
        <5> QED BY SMT, <4>1, <4>3
      <4> QED BY <4>2, <4>3
    <3>4. Relisted(p, new, added, removed) =
             [channels |-> here, mask |-> (p.mask \cup added) \ removed]
      BY DEF Relisted
    <3>5. inCode = [id \in all |-> inCode[id]] /\ here = [id \in all |-> here[id]]
      <4> HIDE DEF listed, named, added, removed, new, all
      <4> QED BY SMT
    <3> HIDE DEF inCode, here, added, removed, new, all
    <3>6. inCode = here
      BY SMT, <3>3, <3>5
    <3> QED BY <3>1, <3>2, <3>4, <3>6, Zenon
  <2>4. cfList.type # 0 => RegionApplyCFList(r, p, cfList) = p
    BY SMT, <1>2 DEF RegionApplyCFList, CN779!ApplyCFList, CN779!Plan!ApplyCFList
  <2>5. ASSUME NEW c \in added PROVE ChannelSound(r, new[c]) /\ new[c].rx1Frequency = 0
    <3> DEFINE ch == listed[c]
    <3>1. Listed(ch) /\ Legal(r, ch.frequency)
      BY <2>1, <2>2, <2>5
    <3>2. \E band : new[c] = [ch EXCEPT !.band = band]
      BY <2>5
    <3> HIDE DEF ch, added, new
    <3> QED BY <3>1, <3>2, ListedSound
  <2>6. added \in SUBSET Ids(r) /\ added \cap removed = {}
    <3> HIDE DEF listed
    <3> QED BY <1>0
  <2> HIDE DEF added, removed, new
  <2> QED BY <2>3, <2>4, <2>5, <2>6, RelistedSound
<1>3. CASE r = "EU433"
  <2> DEFINE listed == EU433!Plan!Listed(cfList)
             named == {id \in DOMAIN listed \cap DOMAIN p.channels : listed[id].frequency # 0}
             added == {id \in named : EU433!Plan!ChannelAddStatus(id, listed[id]) = "OK"}
             removed == DOMAIN p.channels \ (EU433!Plan!DefaultIds \cup named)
             new == [id \in added |->
                        [listed[id] EXCEPT !.band = EU433!BandOf(listed[id].frequency)]]
  <2>1. ASSUME NEW id \in DOMAIN listed PROVE Listed(listed[id])
    <3>1. PICK f : listed[id] = [EU433!Plan!NoChannel EXCEPT !.frequency = f, !.maxDr = 5]
      BY <2>1, Zenon DEF EU433!Plan!Listed
    <3> HIDE DEF listed
    <3>2. EU433!Plan!NoChannel = EmptyChannel
      BY DEF EU433!Plan!NoChannel, EmptyChannel
    <3> DEFINE base == EU433!Plan!NoChannel
               entry == [base EXCEPT !.frequency = f, !.maxDr = 5]
    <3>3. Listed(entry)
      <4> HIDE DEF base
      <4> QED BY <3>2, ListedIs DEF base
    <3> HIDE DEF entry
    <3> QED BY <3>1, <3>3, Zenon DEF entry
  <2>2. ASSUME NEW id \in added PROVE Legal(r, listed[id].frequency)
    BY SMT, <1>3 DEF EU433!Plan!ChannelAddStatus, Legal, RegionVerify, EU433!Verify
  <2>3. cfList.type = 0 => RegionApplyCFList(r, p, cfList) = Relisted(p, new, added, removed)
    <3>1. RegionApplyCFList(r, p, cfList) = EU433!Plan!ApplyCFList(p, cfList)
      BY SMT, <1>3 DEF RegionApplyCFList, EU433!ApplyCFList
    <3> DEFINE all == DOMAIN p.channels
               inCode == [id \in all |->
                             CASE id \in added -> [listed[id] EXCEPT
                                                     !.band = EU433!BandOf(listed[id].frequency)]
                               [] id \in removed -> EU433!Plan!NoChannel
                               [] OTHER -> p.channels[id]]
               here == [id \in all |-> CASE id \in added -> new[id]
                                         [] id \in removed -> EmptyChannel
                                         [] OTHER -> p.channels[id]]
    <3>2. cfList.type = 0 =>
             EU433!Plan!ApplyCFList(p, cfList) =
                [channels |-> inCode, mask |-> (p.mask \cup added) \ removed]
      BY SMT DEF EU433!Plan!ApplyCFList
    <3>3. ASSUME NEW id \in all PROVE inCode[id] = here[id]
      <4>1. EU433!Plan!NoChannel = EmptyChannel
        BY DEF EU433!Plan!NoChannel, EmptyChannel
      <4>2. CASE id \in added
        <5>0. id \notin removed
          <6> HIDE DEF listed
          <6> QED BY <4>2
        <5>1. new[id] = [listed[id] EXCEPT !.band = EU433!BandOf(listed[id].frequency)]
          BY <4>2, Zenon
        <5>2. inCode[id] = [listed[id] EXCEPT !.band = EU433!BandOf(listed[id].frequency)]
          <6> HIDE DEF listed, named, added, removed, new, all
          <6> QED BY SMT, <4>2, <5>0
        <5>3. here[id] = new[id]
          <6> HIDE DEF listed, named, added, removed, new, all
          <6> QED BY SMT, <4>2, <5>0
        <5> QED BY <5>1, <5>2, <5>3, Zenon
      <4>3. CASE id \notin added
        <5> HIDE DEF listed, named, added, removed, new, all
        <5> QED BY SMT, <4>1, <4>3
      <4> QED BY <4>2, <4>3
    <3>4. Relisted(p, new, added, removed) =
             [channels |-> here, mask |-> (p.mask \cup added) \ removed]
      BY DEF Relisted
    <3>5. inCode = [id \in all |-> inCode[id]] /\ here = [id \in all |-> here[id]]
      <4> HIDE DEF listed, named, added, removed, new, all
      <4> QED BY SMT
    <3> HIDE DEF inCode, here, added, removed, new, all
    <3>6. inCode = here
      BY SMT, <3>3, <3>5
    <3> QED BY <3>1, <3>2, <3>4, <3>6, Zenon
  <2>4. cfList.type # 0 => RegionApplyCFList(r, p, cfList) = p
    BY SMT, <1>3 DEF RegionApplyCFList, EU433!ApplyCFList, EU433!Plan!ApplyCFList
  <2>5. ASSUME NEW c \in added PROVE ChannelSound(r, new[c]) /\ new[c].rx1Frequency = 0
    <3> DEFINE ch == listed[c]
    <3>1. Listed(ch) /\ Legal(r, ch.frequency)
      BY <2>1, <2>2, <2>5
    <3>2. \E band : new[c] = [ch EXCEPT !.band = band]
      BY <2>5
    <3> HIDE DEF ch, added, new
    <3> QED BY <3>1, <3>2, ListedSound
  <2>6. added \in SUBSET Ids(r) /\ added \cap removed = {}
    <3> HIDE DEF listed
    <3> QED BY <1>0
  <2> HIDE DEF added, removed, new
  <2> QED BY <2>3, <2>4, <2>5, <2>6, RelistedSound
<1>4. CASE r = "EU868"
  <2> DEFINE listed == EU868!Plan!Listed(cfList)
             named == {id \in DOMAIN listed \cap DOMAIN p.channels : listed[id].frequency # 0}
             added == {id \in named : EU868!Plan!ChannelAddStatus(id, listed[id]) = "OK"}
             removed == DOMAIN p.channels \ (EU868!Plan!DefaultIds \cup named)
             new == [id \in added |->
                        [listed[id] EXCEPT !.band = EU868!BandOf(listed[id].frequency)]]
  <2>1. ASSUME NEW id \in DOMAIN listed PROVE Listed(listed[id])
    <3>1. PICK f : listed[id] = [EU868!Plan!NoChannel EXCEPT !.frequency = f, !.maxDr = 5]
      BY <2>1, Zenon DEF EU868!Plan!Listed
    <3> HIDE DEF listed
    <3>2. EU868!Plan!NoChannel = EmptyChannel
      BY DEF EU868!Plan!NoChannel, EmptyChannel
    <3> DEFINE base == EU868!Plan!NoChannel
               entry == [base EXCEPT !.frequency = f, !.maxDr = 5]
    <3>3. Listed(entry)
      <4> HIDE DEF base
      <4> QED BY <3>2, ListedIs DEF base
    <3> HIDE DEF entry
    <3> QED BY <3>1, <3>3, Zenon DEF entry
  <2>2. ASSUME NEW id \in added PROVE Legal(r, listed[id].frequency)
    BY SMT, <1>4 DEF EU868!Plan!ChannelAddStatus, Legal, RegionVerify, EU868!Verify
  <2>3. cfList.type = 0 => RegionApplyCFList(r, p, cfList) = Relisted(p, new, added, removed)
    <3>1. RegionApplyCFList(r, p, cfList) = EU868!Plan!ApplyCFList(p, cfList)
      BY SMT, <1>4 DEF RegionApplyCFList, EU868!ApplyCFList
    <3> DEFINE all == DOMAIN p.channels
               inCode == [id \in all |->
                             CASE id \in added -> [listed[id] EXCEPT
                                                     !.band = EU868!BandOf(listed[id].frequency)]
                               [] id \in removed -> EU868!Plan!NoChannel
                               [] OTHER -> p.channels[id]]
               here == [id \in all |-> CASE id \in added -> new[id]
                                         [] id \in removed -> EmptyChannel
                                         [] OTHER -> p.channels[id]]
    <3>2. cfList.type = 0 =>
             EU868!Plan!ApplyCFList(p, cfList) =
                [channels |-> inCode, mask |-> (p.mask \cup added) \ removed]
      BY SMT DEF EU868!Plan!ApplyCFList
    <3>3. ASSUME NEW id \in all PROVE inCode[id] = here[id]
      <4>1. EU868!Plan!NoChannel = EmptyChannel
        BY DEF EU868!Plan!NoChannel, EmptyChannel
      <4>2. CASE id \in added
        <5>0. id \notin removed
          <6> HIDE DEF listed
          <6> QED BY <4>2
        <5>1. new[id] = [listed[id] EXCEPT !.band = EU868!BandOf(listed[id].frequency)]
          BY <4>2, Zenon
        <5>2. inCode[id] = [listed[id] EXCEPT !.band = EU868!BandOf(listed[id].frequency)]
          <6> HIDE DEF listed, named, added, removed, new, all
          <6> QED BY SMT, <4>2, <5>0
        <5>3. here[id] = new[id]
          <6> HIDE DEF listed, named, added, removed, new, all
          <6> QED BY SMT, <4>2, <5>0
        <5> QED BY <5>1, <5>2, <5>3, Zenon
      <4>3. CASE id \notin added
        <5> HIDE DEF listed, named, added, removed, new, all
        <5> QED BY SMT, <4>1, <4>3
      <4> QED BY <4>2, <4>3
    <3>4. Relisted(p, new, added, removed) =
             [channels |-> here, mask |-> (p.mask \cup added) \ removed]
      BY DEF Relisted
    <3>5. inCode = [id \in all |-> inCode[id]] /\ here = [id \in all |-> here[id]]
      <4> HIDE DEF listed, named, added, removed, new, all
      <4> QED BY SMT
    <3> HIDE DEF inCode, here, added, removed, new, all
    <3>6. inCode = here
      BY SMT, <3>3, <3>5
    <3> QED BY <3>1, <3>2, <3>4, <3>6, Zenon
  <2>4. cfList.type # 0 => RegionApplyCFList(r, p, cfList) = p
    BY SMT, <1>4 DEF RegionApplyCFList, EU868!ApplyCFList, EU868!Plan!ApplyCFList
  <2>5. ASSUME NEW c \in added PROVE ChannelSound(r, new[c]) /\ new[c].rx1Frequency = 0
    <3> DEFINE ch == listed[c]
    <3>1. Listed(ch) /\ Legal(r, ch.frequency)
      BY <2>1, <2>2, <2>5
    <3>2. \E band : new[c] = [ch EXCEPT !.band = band]
      BY <2>5
    <3> HIDE DEF ch, added, new
    <3> QED BY <3>1, <3>2, ListedSound
  <2>6. added \in SUBSET Ids(r) /\ added \cap removed = {}
    <3> HIDE DEF listed
    <3> QED BY <1>0
  <2> HIDE DEF added, removed, new
  <2> QED BY <2>3, <2>4, <2>5, <2>6, RelistedSound
<1>5. CASE r = "IN865"
  <2> DEFINE listed == IN865!Plan!Listed(cfList)
             named == {id \in DOMAIN listed \cap DOMAIN p.channels : listed[id].frequency # 0}
             added == {id \in named : IN865!Plan!ChannelAddStatus(id, listed[id]) = "OK"}
             removed == DOMAIN p.channels \ (IN865!Plan!DefaultIds \cup named)
             new == [id \in added |->
                        [listed[id] EXCEPT !.band = IN865!BandOf(listed[id].frequency)]]
  <2>1. ASSUME NEW id \in DOMAIN listed PROVE Listed(listed[id])
    <3>1. PICK f : listed[id] = [IN865!Plan!NoChannel EXCEPT !.frequency = f, !.maxDr = 5]
      BY <2>1, Zenon DEF IN865!Plan!Listed
    <3> HIDE DEF listed
    <3>2. IN865!Plan!NoChannel = EmptyChannel
      BY DEF IN865!Plan!NoChannel, EmptyChannel
    <3> DEFINE base == IN865!Plan!NoChannel
               entry == [base EXCEPT !.frequency = f, !.maxDr = 5]
    <3>3. Listed(entry)
      <4> HIDE DEF base
      <4> QED BY <3>2, ListedIs DEF base
    <3> HIDE DEF entry
    <3> QED BY <3>1, <3>3, Zenon DEF entry
  <2>2. ASSUME NEW id \in added PROVE Legal(r, listed[id].frequency)
    BY SMT, <1>5 DEF IN865!Plan!ChannelAddStatus, Legal, RegionVerify, IN865!Verify
  <2>3. cfList.type = 0 => RegionApplyCFList(r, p, cfList) = Relisted(p, new, added, removed)
    <3>1. RegionApplyCFList(r, p, cfList) = IN865!Plan!ApplyCFList(p, cfList)
      BY SMT, <1>5 DEF RegionApplyCFList, IN865!ApplyCFList
    <3> DEFINE all == DOMAIN p.channels
               inCode == [id \in all |->
                             CASE id \in added -> [listed[id] EXCEPT
                                                     !.band = IN865!BandOf(listed[id].frequency)]
                               [] id \in removed -> IN865!Plan!NoChannel
                               [] OTHER -> p.channels[id]]
               here == [id \in all |-> CASE id \in added -> new[id]
                                         [] id \in removed -> EmptyChannel
                                         [] OTHER -> p.channels[id]]
    <3>2. cfList.type = 0 =>
             IN865!Plan!ApplyCFList(p, cfList) =
                [channels |-> inCode, mask |-> (p.mask \cup added) \ removed]
      BY SMT DEF IN865!Plan!ApplyCFList
    <3>3. ASSUME NEW id \in all PROVE inCode[id] = here[id]
      <4>1. IN865!Plan!NoChannel = EmptyChannel
        BY DEF IN865!Plan!NoChannel, EmptyChannel
      <4>2. CASE id \in added
        <5>0. id \notin removed
          <6> HIDE DEF listed
          <6> QED BY <4>2
        <5>1. new[id] = [listed[id] EXCEPT !.band = IN865!BandOf(listed[id].frequency)]
          BY <4>2, Zenon
        <5>2. inCode[id] = [listed[id] EXCEPT !.band = IN865!BandOf(listed[id].frequency)]
          <6> HIDE DEF listed, named, added, removed, new, all
          <6> QED BY SMT, <4>2, <5>0
        <5>3. here[id] = new[id]
          <6> HIDE DEF listed, named, added, removed, new, all
          <6> QED BY SMT, <4>2, <5>0
        <5> QED BY <5>1, <5>2, <5>3, Zenon
      <4>3. CASE id \notin added
        <5> HIDE DEF listed, named, added, removed, new, all
        <5> QED BY SMT, <4>1, <4>3
      <4> QED BY <4>2, <4>3
    <3>4. Relisted(p, new, added, removed) =
             [channels |-> here, mask |-> (p.mask \cup added) \ removed]
      BY DEF Relisted
    <3>5. inCode = [id \in all |-> inCode[id]] /\ here = [id \in all |-> here[id]]
      <4> HIDE DEF listed, named, added, removed, new, all
      <4> QED BY SMT
    <3> HIDE DEF inCode, here, added, removed, new, all
    <3>6. inCode = here
      BY SMT, <3>3, <3>5
    <3> QED BY <3>1, <3>2, <3>4, <3>6, Zenon
  <2>4. cfList.type # 0 => RegionApplyCFList(r, p, cfList) = p
    BY SMT, <1>5 DEF RegionApplyCFList, IN865!ApplyCFList, IN865!Plan!ApplyCFList
  <2>5. ASSUME NEW c \in added PROVE ChannelSound(r, new[c]) /\ new[c].rx1Frequency = 0
    <3> DEFINE ch == listed[c]
    <3>1. Listed(ch) /\ Legal(r, ch.frequency)
      BY <2>1, <2>2, <2>5
    <3>2. \E band : new[c] = [ch EXCEPT !.band = band]
      BY <2>5
    <3> HIDE DEF ch, added, new
    <3> QED BY <3>1, <3>2, ListedSound
  <2>6. added \in SUBSET Ids(r) /\ added \cap removed = {}
    <3> HIDE DEF listed
    <3> QED BY <1>0
  <2> HIDE DEF added, removed, new
  <2> QED BY <2>3, <2>4, <2>5, <2>6, RelistedSound
<1>6. CASE r = "KR920"
  <2> DEFINE listed == KR920!Plan!Listed(cfList)
             named == {id \in DOMAIN listed \cap DOMAIN p.channels : listed[id].frequency # 0}
             added == {id \in named : KR920!Plan!ChannelAddStatus(id, listed[id]) = "OK"}
             removed == DOMAIN p.channels \ (KR920!Plan!DefaultIds \cup named)
             new == [id \in added |->
                        [listed[id] EXCEPT !.band = KR920!BandOf(listed[id].frequency)]]
  <2>1. ASSUME NEW id \in DOMAIN listed PROVE Listed(listed[id])
    <3>1. PICK f : listed[id] = [KR920!Plan!NoChannel EXCEPT !.frequency = f, !.maxDr = 5]
      BY <2>1, Zenon DEF KR920!Plan!Listed
    <3> HIDE DEF listed
    <3>2. KR920!Plan!NoChannel = EmptyChannel
      BY DEF KR920!Plan!NoChannel, EmptyChannel
    <3> DEFINE base == KR920!Plan!NoChannel
               entry == [base EXCEPT !.frequency = f, !.maxDr = 5]
    <3>3. Listed(entry)
      <4> HIDE DEF base
      <4> QED BY <3>2, ListedIs DEF base
    <3> HIDE DEF entry
    <3> QED BY <3>1, <3>3, Zenon DEF entry
  <2>2. ASSUME NEW id \in added PROVE Legal(r, listed[id].frequency)
    BY SMT, <1>6 DEF KR920!Plan!ChannelAddStatus, Legal, RegionVerify, KR920!Verify
  <2>3. cfList.type = 0 => RegionApplyCFList(r, p, cfList) = Relisted(p, new, added, removed)
    <3>1. RegionApplyCFList(r, p, cfList) = KR920!Plan!ApplyCFList(p, cfList)
      BY SMT, <1>6 DEF RegionApplyCFList, KR920!ApplyCFList
    <3> DEFINE all == DOMAIN p.channels
               inCode == [id \in all |->
                             CASE id \in added -> [listed[id] EXCEPT
                                                     !.band = KR920!BandOf(listed[id].frequency)]
                               [] id \in removed -> KR920!Plan!NoChannel
                               [] OTHER -> p.channels[id]]
               here == [id \in all |-> CASE id \in added -> new[id]
                                         [] id \in removed -> EmptyChannel
                                         [] OTHER -> p.channels[id]]
    <3>2. cfList.type = 0 =>
             KR920!Plan!ApplyCFList(p, cfList) =
                [channels |-> inCode, mask |-> (p.mask \cup added) \ removed]
      BY SMT DEF KR920!Plan!ApplyCFList
    <3>3. ASSUME NEW id \in all PROVE inCode[id] = here[id]
      <4>1. KR920!Plan!NoChannel = EmptyChannel
        BY DEF KR920!Plan!NoChannel, EmptyChannel
      <4>2. CASE id \in added
        <5>0. id \notin removed
          <6> HIDE DEF listed
          <6> QED BY <4>2
        <5>1. new[id] = [listed[id] EXCEPT !.band = KR920!BandOf(listed[id].frequency)]
          BY <4>2, Zenon
        <5>2. inCode[id] = [listed[id] EXCEPT !.band = KR920!BandOf(listed[id].frequency)]
          <6> HIDE DEF listed, named, added, removed, new, all
          <6> QED BY SMT, <4>2, <5>0
        <5>3. here[id] = new[id]
          <6> HIDE DEF listed, named, added, removed, new, all
          <6> QED BY SMT, <4>2, <5>0
        <5> QED BY <5>1, <5>2, <5>3, Zenon
      <4>3. CASE id \notin added
        <5> HIDE DEF listed, named, added, removed, new, all
        <5> QED BY SMT, <4>1, <4>3
      <4> QED BY <4>2, <4>3
    <3>4. Relisted(p, new, added, removed) =
             [channels |-> here, mask |-> (p.mask \cup added) \ removed]
      BY DEF Relisted
    <3>5. inCode = [id \in all |-> inCode[id]] /\ here = [id \in all |-> here[id]]
      <4> HIDE DEF listed, named, added, removed, new, all
      <4> QED BY SMT
    <3> HIDE DEF inCode, here, added, removed, new, all
    <3>6. inCode = here
      BY SMT, <3>3, <3>5
    <3> QED BY <3>1, <3>2, <3>4, <3>6, Zenon
  <2>4. cfList.type # 0 => RegionApplyCFList(r, p, cfList) = p
    BY SMT, <1>6 DEF RegionApplyCFList, KR920!ApplyCFList, KR920!Plan!ApplyCFList
  <2>5. ASSUME NEW c \in added PROVE ChannelSound(r, new[c]) /\ new[c].rx1Frequency = 0
    <3> DEFINE ch == listed[c]
    <3>1. Listed(ch) /\ Legal(r, ch.frequency)
      BY <2>1, <2>2, <2>5
    <3>2. \E band : new[c] = [ch EXCEPT !.band = band]
      BY <2>5
    <3> HIDE DEF ch, added, new
    <3> QED BY <3>1, <3>2, ListedSound
  <2>6. added \in SUBSET Ids(r) /\ added \cap removed = {}
    <3> HIDE DEF listed
    <3> QED BY <1>0
  <2> HIDE DEF added, removed, new
  <2> QED BY <2>3, <2>4, <2>5, <2>6, RelistedSound
<1>7. CASE r = "RU864"
  <2> DEFINE listed == RU864!Plan!Listed(cfList)
             named == {id \in DOMAIN listed \cap DOMAIN p.channels : listed[id].frequency # 0}
             added == {id \in named : RU864!Plan!ChannelAddStatus(id, listed[id]) = "OK"}
             removed == DOMAIN p.channels \ (RU864!Plan!DefaultIds \cup named)
             new == [id \in added |->
                        [listed[id] EXCEPT !.band = RU864!BandOf(listed[id].frequency)]]
  <2>1. ASSUME NEW id \in DOMAIN listed PROVE Listed(listed[id])
    <3>1. PICK f : listed[id] = [RU864!Plan!NoChannel EXCEPT !.frequency = f, !.maxDr = 5]
      BY <2>1, Zenon DEF RU864!Plan!Listed
    <3> HIDE DEF listed
    <3>2. RU864!Plan!NoChannel = EmptyChannel
      BY DEF RU864!Plan!NoChannel, EmptyChannel
    <3> DEFINE base == RU864!Plan!NoChannel
               entry == [base EXCEPT !.frequency = f, !.maxDr = 5]
    <3>3. Listed(entry)
      <4> HIDE DEF base
      <4> QED BY <3>2, ListedIs DEF base
    <3> HIDE DEF entry
    <3> QED BY <3>1, <3>3, Zenon DEF entry
  <2>2. ASSUME NEW id \in added PROVE Legal(r, listed[id].frequency)
    BY SMT, <1>7 DEF RU864!Plan!ChannelAddStatus, Legal, RegionVerify, RU864!Verify
  <2>3. cfList.type = 0 => RegionApplyCFList(r, p, cfList) = Relisted(p, new, added, removed)
    <3>1. RegionApplyCFList(r, p, cfList) = RU864!Plan!ApplyCFList(p, cfList)
      BY SMT, <1>7 DEF RegionApplyCFList, RU864!ApplyCFList
    <3> DEFINE all == DOMAIN p.channels
               inCode == [id \in all |->
                             CASE id \in added -> [listed[id] EXCEPT
                                                     !.band = RU864!BandOf(listed[id].frequency)]
                               [] id \in removed -> RU864!Plan!NoChannel
                               [] OTHER -> p.channels[id]]
               here == [id \in all |-> CASE id \in added -> new[id]
                                         [] id \in removed -> EmptyChannel
                                         [] OTHER -> p.channels[id]]
    <3>2. cfList.type = 0 =>
             RU864!Plan!ApplyCFList(p, cfList) =
                [channels |-> inCode, mask |-> (p.mask \cup added) \ removed]
      BY SMT DEF RU864!Plan!ApplyCFList
    <3>3. ASSUME NEW id \in all PROVE inCode[id] = here[id]
      <4>1. RU864!Plan!NoChannel = EmptyChannel
        BY DEF RU864!Plan!NoChannel, EmptyChannel
      <4>2. CASE id \in added
        <5>0. id \notin removed
          <6> HIDE DEF listed
          <6> QED BY <4>2
        <5>1. new[id] = [listed[id] EXCEPT !.band = RU864!BandOf(listed[id].frequency)]
          BY <4>2, Zenon
        <5>2. inCode[id] = [listed[id] EXCEPT !.band = RU864!BandOf(listed[id].frequency)]
          <6> HIDE DEF listed, named, added, removed, new, all
          <6> QED BY SMT, <4>2, <5>0
        <5>3. here[id] = new[id]
          <6> HIDE DEF listed, named, added, removed, new, all
          <6> QED BY SMT, <4>2, <5>0
        <5> QED BY <5>1, <5>2, <5>3, Zenon
      <4>3. CASE id \notin added
        <5> HIDE DEF listed, named, added, removed, new, all
        <5> QED BY SMT, <4>1, <4>3
      <4> QED BY <4>2, <4>3
    <3>4. Relisted(p, new, added, removed) =
             [channels |-> here, mask |-> (p.mask \cup added) \ removed]
      BY DEF Relisted
    <3>5. inCode = [id \in all |-> inCode[id]] /\ here = [id \in all |-> here[id]]
      <4> HIDE DEF listed, named, added, removed, new, all
      <4> QED BY SMT
    <3> HIDE DEF inCode, here, added, removed, new, all
    <3>6. inCode = here
      BY SMT, <3>3, <3>5
    <3> QED BY <3>1, <3>2, <3>4, <3>6, Zenon
  <2>4. cfList.type # 0 => RegionApplyCFList(r, p, cfList) = p
    BY SMT, <1>7 DEF RegionApplyCFList, RU864!ApplyCFList, RU864!Plan!ApplyCFList
  <2>5. ASSUME NEW c \in added PROVE ChannelSound(r, new[c]) /\ new[c].rx1Frequency = 0
    <3> DEFINE ch == listed[c]
    <3>1. Listed(ch) /\ Legal(r, ch.frequency)
      BY <2>1, <2>2, <2>5
    <3>2. \E band : new[c] = [ch EXCEPT !.band = band]
      BY <2>5
    <3> HIDE DEF ch, added, new
    <3> QED BY <3>1, <3>2, ListedSound
  <2>6. added \in SUBSET Ids(r) /\ added \cap removed = {}
    <3> HIDE DEF listed
    <3> QED BY <1>0
  <2> HIDE DEF added, removed, new
  <2> QED BY <2>3, <2>4, <2>5, <2>6, RelistedSound
<1> QED
  BY <1>1, <1>2, <1>3, <1>4, <1>5, <1>6, <1>7 DEF ListNames

-----------------------------------------------------------------------------
(* Regions with a fixed band.                                              *)
LEMMA FixedIds ==
    AU915!ChannelIds = 0..71 /\ CN470!ChannelIds = 0..95 /\ US915!ChannelIds = 0..71
BY SMT DEF AU915!ChannelIds, CN470!ChannelIds, US915!ChannelIds

(* Their plan is the mask alone, whatever CFList arrives.                  *)
LEMMA FixedPlan ==
    ASSUME NEW r \in Names \ ListNames, NEW p, NEW x
    PROVE  /\ RegionBlank(r) = [mask |-> {}]
           /\ RegionInitDefaults(r, x, p) = [p EXCEPT !.mask = Ids(r)]
           /\ RegionApplyCFList(r, p, x) = IF x.type # 1 THEN p
                                           ELSE [p EXCEPT !.mask = x.mask \cap Ids(r)]
<1>1. CASE r = "AU915"
  BY SMT, <1>1, FixedIds DEF RegionBlank, RegionInitDefaults, RegionApplyCFList, Ids,
     AU915!Plan!Blank, AU915!InitDefaults, AU915!Plan!InitDefaults, AU915!ApplyCFList,
     AU915!Plan!ApplyCFList
<1>2. CASE r = "CN470"
  BY SMT, <1>2, FixedIds DEF RegionBlank, RegionInitDefaults, RegionApplyCFList, Ids,
     CN470!Plan!Blank, CN470!InitDefaults, CN470!Plan!InitDefaults, CN470!ApplyCFList,
     CN470!Plan!ApplyCFList
<1>3. CASE r = "US915"
  BY SMT, <1>3, FixedIds DEF RegionBlank, RegionInitDefaults, RegionApplyCFList, Ids,
     US915!Plan!Blank, US915!InitDefaults, US915!Plan!InitDefaults, US915!ApplyCFList,
     US915!Plan!ApplyCFList
<1> QED BY <1>1, <1>2, <1>3 DEF Names, ListNames

(* They neither define channels nor move windows.                          *)
LEMMA FixedRefuses ==
    ASSUME NEW r \in Names \ ListNames, NEW p, NEW id, NEW x
    PROVE  /\ RegionNewChannelReq(r, p, id, x) = [answer |-> "none", nvm |-> p]
           /\ RegionDlChannelReq(r, p, id, x) = [answer |-> "none", nvm |-> p]
<1>1. CASE r = "AU915"
  BY SMT, <1>1 DEF RegionNewChannelReq, RegionDlChannelReq, AU915!NewChannelReq,
     AU915!Plan!NewChannelReq, AU915!DlChannelReq, AU915!Plan!DlChannelReq
<1>2. CASE r = "CN470"
  BY SMT, <1>2 DEF RegionNewChannelReq, RegionDlChannelReq, CN470!NewChannelReq,
     CN470!Plan!NewChannelReq, CN470!DlChannelReq, CN470!Plan!DlChannelReq
<1>3. CASE r = "US915"
  BY SMT, <1>3 DEF RegionNewChannelReq, RegionDlChannelReq, US915!NewChannelReq,
     US915!Plan!NewChannelReq, US915!DlChannelReq, US915!Plan!DlChannelReq
<1> QED BY <1>1, <1>2, <1>3 DEF Names, ListNames

(* A 500 kHz channel is used at the one data rate that has this bandwidth. *)
WideDr(r) == IF r = "US915" THEN 4 ELSE 6
Matching(r, c, dr) == r \in {"AU915", "US915"} => (c >= 64 <=> dr = WideDr(r))

(* A channel that is drawn is in the mask, and takes the data rate.        *)
LEMMA FixedNext ==
    ASSUME NEW r \in Names \ ListNames, NEW p, p.mask \subseteq Ids(r), NEW isJoined, NEW dr,
           NEW c \in RegionNextChannel(r, p, isJoined, dr)
    PROVE  c \in p.mask /\ dr \in UplinkDrs(r) /\ Matching(r, c, dr)
<1>1. CASE r = "AU915"
  <2>1. c \in p.mask /\ dr \in AU915!ChannelDrs(c)
    BY SMT, <1>1 DEF RegionNextChannel, AU915!NextChannel, AU915!Plan!NextChannel
  <2>2. c \in Ids(r) /\ Ids(r) = 0..71
    BY SMT, <1>1, <2>1 DEF Ids
  <2> QED
    BY SMT, <1>1, <2>1, <2>2 DEF AU915!ChannelDrs, UplinkDrs, Matching, WideDr
<1>2. CASE r = "CN470"
  <2>1. c \in p.mask /\ dr \in CN470!ChannelDrs(c)
    BY SMT, <1>2 DEF RegionNextChannel, CN470!NextChannel, CN470!Plan!NextChannel
  <2>2. c \in Ids(r) /\ Ids(r) = 0..95
    BY SMT, <1>2, <2>1 DEF Ids
  <2> QED
    BY SMT, <1>2, <2>1, <2>2 DEF CN470!ChannelDrs, UplinkDrs, Matching, WideDr
<1>3. CASE r = "US915"
  <2>1. c \in p.mask /\ dr \in US915!ChannelDrs(c)
    BY SMT, <1>3 DEF RegionNextChannel, US915!NextChannel, US915!Plan!NextChannel
  <2>2. c \in Ids(r) /\ Ids(r) = 0..71
    BY SMT, <1>3, <2>1 DEF Ids
  <2> QED
    BY SMT, <1>3, <2>1, <2>2 DEF US915!ChannelDrs, UplinkDrs, Matching, WideDr
<1> QED BY <1>1, <1>2, <1>3 DEF Names, ListNames

-----------------------------------------------------------------------------
(* What the region allows.                                                 *)
LEMMA RxParamSetupTakes ==
    ASSUME NEW r \in Names, NEW f, NEW dr, NEW offset
    PROVE  LET answer == RegionRxParamSetupReq(r, f, dr, offset)
           IN  \/ answer = "refused"
               \/ /\ answer = "accepted"
                  /\ Legal(r, f) /\ dr \in RxDrs(r) /\ offset \in Offsets(r)
<1>1. CASE r = "AS923"
  BY SMT, <1>1 DEF RegionRxParamSetupReq, Legal, RegionVerify, RxDrs, Offsets,
     AS923!RxParamSetupReq, AS923!Plan!RxParamSetupReq, AS923!Verify, AS923!RxDrs,
     AS923!MaxRx1DrOffset
<1>2. CASE r = "AU915"
  <2>1. AU915!FirstRx1Channel = 923300000 /\ AU915!LastRx1Channel = 927500000
    BY SMT DEF AU915!FirstRx1Channel, AU915!LastRx1Channel
  <2>2. ASSUME AU915!Plan!VerifyRxFreq(f) PROVE Legal(r, f)
    <3>1. f \in Int /\ AU915!FirstRx1Channel <= f /\ f <= AU915!LastRx1Channel
      <4>1. AU915!FirstRx1Channel \in Int /\ AU915!LastRx1Channel \in Int
        BY <2>1
      <4> QED BY <2>2, <4>1, SMT DEF AU915!Plan!VerifyRxFreq
    <3>2. AU915!InRange(f, 915200000, 927800000)
      BY <2>1, <3>1, SMT DEF AU915!InRange
    <3>3. AU915!VerifyRfFreq(f)
      BY <2>2, <3>2 DEF AU915!VerifyRfFreq
    <3> QED BY SMT, <1>2, <3>3 DEF Legal, RegionVerify, AU915!Verify
  <2>3. \/ RegionRxParamSetupReq(r, f, dr, offset) = "refused"
        \/ /\ RegionRxParamSetupReq(r, f, dr, offset) = "accepted"
           /\ AU915!Plan!VerifyRxFreq(f) /\ dr \in RxDrs(r) /\ offset \in Offsets(r)
    BY SMT, <1>2 DEF RegionRxParamSetupReq, RxDrs, Offsets, AU915!RxParamSetupReq,
       AU915!Plan!RxParamSetupReq, AU915!RxDrs, AU915!MaxRx1DrOffset
  <2> QED BY <2>2, <2>3
<1>3. CASE r = "CN470"
  <2>1. CN470!FirstRx1Channel = 500300000 /\ CN470!LastRx1Channel = 509700000
    BY SMT DEF CN470!FirstRx1Channel, CN470!LastRx1Channel
  <2>2. ASSUME CN470!Plan!VerifyRxFreq(f) PROVE Legal(r, f)
    <3>1. f \in Int /\ CN470!FirstRx1Channel <= f /\ f <= CN470!LastRx1Channel
      <4>1. CN470!FirstRx1Channel \in Int /\ CN470!LastRx1Channel \in Int
        BY <2>1
      <4> QED BY <2>2, <4>1, SMT DEF CN470!Plan!VerifyRxFreq
    <3>2. CN470!InRange(f, 470300000, 509700000)
      BY <2>1, <3>1, SMT DEF CN470!InRange
    <3>3. CN470!VerifyRfFreq(f)
      BY <2>2, <3>2 DEF CN470!VerifyRfFreq
    <3> QED BY SMT, <1>3, <3>3 DEF Legal, RegionVerify, CN470!Verify
  <2>3. \/ RegionRxParamSetupReq(r, f, dr, offset) = "refused"
        \/ /\ RegionRxParamSetupReq(r, f, dr, offset) = "accepted"
           /\ CN470!Plan!VerifyRxFreq(f) /\ dr \in RxDrs(r) /\ offset \in Offsets(r)
    BY SMT, <1>3 DEF RegionRxParamSetupReq, RxDrs, Offsets, CN470!RxParamSetupReq,
       CN470!Plan!RxParamSetupReq, CN470!RxDrs, CN470!MaxRx1DrOffset
  <2> QED BY <2>2, <2>3
<1>4. CASE r = "CN779"
  BY SMT, <1>4 DEF RegionRxParamSetupReq, Legal, RegionVerify, RxDrs, Offsets,
     CN779!RxParamSetupReq, CN779!Plan!RxParamSetupReq, CN779!Verify, CN779!RxDrs,
     CN779!MaxRx1DrOffset
<1>5. CASE r = "EU433"
  BY SMT, <1>5 DEF RegionRxParamSetupReq, Legal, RegionVerify, RxDrs, Offsets,
     EU433!RxParamSetupReq, EU433!Plan!RxParamSetupReq, EU433!Verify, EU433!RxDrs,
     EU433!MaxRx1DrOffset
<1>6. CASE r = "EU868"
  BY SMT, <1>6 DEF RegionRxParamSetupReq, Legal, RegionVerify, RxDrs, Offsets,
     EU868!RxParamSetupReq, EU868!Plan!RxParamSetupReq, EU868!Verify, EU868!RxDrs,
     EU868!MaxRx1DrOffset
<1>7. CASE r = "IN865"
  BY SMT, <1>7 DEF RegionRxParamSetupReq, Legal, RegionVerify, RxDrs, Offsets,
     IN865!RxParamSetupReq, IN865!Plan!RxParamSetupReq, IN865!Verify, IN865!RxDrs,
     IN865!MaxRx1DrOffset
<1>8. CASE r = "KR920"
  BY SMT, <1>8 DEF RegionRxParamSetupReq, Legal, RegionVerify, RxDrs, Offsets,
     KR920!RxParamSetupReq, KR920!Plan!RxParamSetupReq, KR920!Verify, KR920!RxDrs,
     KR920!MaxRx1DrOffset
<1>9. CASE r = "RU864"
  BY SMT, <1>9 DEF RegionRxParamSetupReq, Legal, RegionVerify, RxDrs, Offsets,
     RU864!RxParamSetupReq, RU864!Plan!RxParamSetupReq, RU864!Verify, RU864!RxDrs,
     RU864!MaxRx1DrOffset
<1>10. CASE r = "US915"
  <2>1. US915!FirstRx1Channel = 923300000 /\ US915!LastRx1Channel = 927500000
    BY SMT DEF US915!FirstRx1Channel, US915!LastRx1Channel
  <2>2. ASSUME US915!Plan!VerifyRxFreq(f) PROVE Legal(r, f)
    <3>1. f \in Int /\ US915!FirstRx1Channel <= f /\ f <= US915!LastRx1Channel
      <4>1. US915!FirstRx1Channel \in Int /\ US915!LastRx1Channel \in Int
        BY <2>1
      <4> QED BY <2>2, <4>1, SMT DEF US915!Plan!VerifyRxFreq
    <3>2. US915!InRange(f, 902300000, 927500000)
      BY <2>1, <3>1, SMT DEF US915!InRange
    <3>3. US915!VerifyRfFreq(f)
      BY <2>2, <3>2 DEF US915!VerifyRfFreq
    <3> QED BY SMT, <1>10, <3>3 DEF Legal, RegionVerify, US915!Verify
  <2>3. \/ RegionRxParamSetupReq(r, f, dr, offset) = "refused"
        \/ /\ RegionRxParamSetupReq(r, f, dr, offset) = "accepted"
           /\ US915!Plan!VerifyRxFreq(f) /\ dr \in RxDrs(r) /\ offset \in Offsets(r)
    BY SMT, <1>10 DEF RegionRxParamSetupReq, RxDrs, Offsets, US915!RxParamSetupReq,
       US915!Plan!RxParamSetupReq, US915!RxDrs, US915!MaxRx1DrOffset
  <2> QED BY <2>2, <2>3
<1> QED
  BY <1>1, <1>2, <1>3, <1>4, <1>5, <1>6, <1>7, <1>8, <1>9, <1>10 DEF Names

(* What every region starts with is what it allows.                        *)
LEMMA DefaultsAllowed ==
    ASSUME NEW r \in Names
    PROVE  LET phy == RegionPhyDefaults(r)
           IN  /\ Legal(r, phy.rx2Frequency) /\ phy.rx2Datarate \in RxDrs(r)
               /\ phy.rx1DrOffset = 0 /\ 0 \in Offsets(r)
               /\ phy.uplinkDwellTime \in {0, 1} /\ phy.downlinkDwellTime = 0
<1>1. CASE r = "AS923"
  <2>1. RegionPhyDefaults(r) = AS923!PhyDefaults
        /\ (Legal(r, 923200000) <=> AS923!VerifyRfFreq(923200000))
    BY SMT, <1>1 DEF RegionPhyDefaults, Legal, RegionVerify, AS923!Verify
  <2>2. /\ AS923!PhyDefaults.rx2Frequency = 923200000
        /\ AS923!PhyDefaults.rx2Datarate \in RxDrs(r)
        /\ AS923!PhyDefaults.rx1DrOffset = 0 /\ 0 \in Offsets(r)
        /\ AS923!PhyDefaults.uplinkDwellTime \in {0, 1}
        /\ AS923!PhyDefaults.downlinkDwellTime = 0
    BY SMT, <1>1 DEF AS923!PhyDefaults, RxDrs, Offsets
  <2>3. AS923!VerifyRfFreq(923200000)
    BY SMT DEF AS923!VerifyRfFreq, AS923!InRange
  <2> QED BY <2>1, <2>2, <2>3, SMT
<1>2. CASE r = "AU915"
  <2>1. RegionPhyDefaults(r) = AU915!PhyDefaults
        /\ (Legal(r, 923300000) <=> AU915!VerifyRfFreq(923300000))
    BY SMT, <1>2 DEF RegionPhyDefaults, Legal, RegionVerify, AU915!Verify
  <2>2. /\ AU915!PhyDefaults.rx2Frequency = 923300000
        /\ AU915!PhyDefaults.rx2Datarate \in RxDrs(r)
        /\ AU915!PhyDefaults.rx1DrOffset = 0 /\ 0 \in Offsets(r)
        /\ AU915!PhyDefaults.uplinkDwellTime \in {0, 1}
        /\ AU915!PhyDefaults.downlinkDwellTime = 0
    BY SMT, <1>2 DEF AU915!PhyDefaults, RxDrs, Offsets
  <2>3. AU915!VerifyRfFreq(923300000)
    <3>1. /\ AU915!FirstRx1Channel = 923300000 /\ AU915!LastRx1Channel = 927500000
          /\ AU915!StepwidthRx1Channel = 600000
      BY SMT DEF AU915!FirstRx1Channel, AU915!LastRx1Channel, AU915!StepwidthRx1Channel
    <3>2. 923300000 \in AU915!FirstRx1Channel..AU915!LastRx1Channel
      <4>1. AU915!FirstRx1Channel \in Int /\ AU915!LastRx1Channel \in Int
        BY <3>1
      <4>2. 923300000 >= AU915!FirstRx1Channel /\ 923300000 <= AU915!LastRx1Channel
        BY <3>1
      <4> QED BY <4>1, <4>2, SMT
    <3>3. (923300000 - AU915!FirstRx1Channel) % AU915!StepwidthRx1Channel = 0
      BY <3>1, SMT
    <3>4. AU915!InRange(923300000, 915200000, 927800000)
      BY SMT DEF AU915!InRange
    <3> QED BY <3>2, <3>3, <3>4, SMT DEF AU915!VerifyRfFreq, AU915!Plan!VerifyRxFreq
  <2> QED BY <2>1, <2>2, <2>3, SMT
<1>3. CASE r = "CN470"
  <2>1. RegionPhyDefaults(r) = CN470!PhyDefaults
        /\ (Legal(r, 505300000) <=> CN470!VerifyRfFreq(505300000))
    BY SMT, <1>3 DEF RegionPhyDefaults, Legal, RegionVerify, CN470!Verify
  <2>2. /\ CN470!PhyDefaults.rx2Frequency = 505300000
        /\ CN470!PhyDefaults.rx2Datarate \in RxDrs(r)
        /\ CN470!PhyDefaults.rx1DrOffset = 0 /\ 0 \in Offsets(r)
        /\ CN470!PhyDefaults.uplinkDwellTime \in {0, 1}
        /\ CN470!PhyDefaults.downlinkDwellTime = 0
    BY SMT, <1>3 DEF CN470!PhyDefaults, RxDrs, Offsets
  <2>3. CN470!VerifyRfFreq(505300000)
    <3>1. /\ CN470!FirstRx1Channel = 500300000 /\ CN470!LastRx1Channel = 509700000
          /\ CN470!StepwidthRx1Channel = 200000
      BY SMT DEF CN470!FirstRx1Channel, CN470!LastRx1Channel, CN470!StepwidthRx1Channel
    <3>2. 505300000 \in CN470!FirstRx1Channel..CN470!LastRx1Channel
      <4>1. CN470!FirstRx1Channel \in Int /\ CN470!LastRx1Channel \in Int
        BY <3>1
      <4>2. 505300000 >= CN470!FirstRx1Channel /\ 505300000 <= CN470!LastRx1Channel
        BY <3>1
      <4> QED BY <4>1, <4>2, SMT
    <3>3. (505300000 - CN470!FirstRx1Channel) % CN470!StepwidthRx1Channel = 0
      BY <3>1, SMT
    <3>4. CN470!InRange(505300000, 470300000, 509700000)
      BY SMT DEF CN470!InRange
    <3> QED BY <3>2, <3>3, <3>4, SMT DEF CN470!VerifyRfFreq, CN470!Plan!VerifyRxFreq
  <2> QED BY <2>1, <2>2, <2>3, SMT
<1>4. CASE r = "CN779"
  <2>1. RegionPhyDefaults(r) = CN779!PhyDefaults
        /\ (Legal(r, 786000000) <=> CN779!VerifyRfFreq(786000000))
    BY SMT, <1>4 DEF RegionPhyDefaults, Legal, RegionVerify, CN779!Verify
  <2>2. /\ CN779!PhyDefaults.rx2Frequency = 786000000
        /\ CN779!PhyDefaults.rx2Datarate \in RxDrs(r)
        /\ CN779!PhyDefaults.rx1DrOffset = 0 /\ 0 \in Offsets(r)
        /\ CN779!PhyDefaults.uplinkDwellTime \in {0, 1}
        /\ CN779!PhyDefaults.downlinkDwellTime = 0
    BY SMT, <1>4 DEF CN779!PhyDefaults, RxDrs, Offsets
  <2>3. CN779!VerifyRfFreq(786000000)
    BY SMT DEF CN779!VerifyRfFreq, CN779!InRange
  <2> QED BY <2>1, <2>2, <2>3, SMT
<1>5. CASE r = "EU433"
  <2>1. RegionPhyDefaults(r) = EU433!PhyDefaults
        /\ (Legal(r, 434665000) <=> EU433!VerifyRfFreq(434665000))
    BY SMT, <1>5 DEF RegionPhyDefaults, Legal, RegionVerify, EU433!Verify
  <2>2. /\ EU433!PhyDefaults.rx2Frequency = 434665000
        /\ EU433!PhyDefaults.rx2Datarate \in RxDrs(r)
        /\ EU433!PhyDefaults.rx1DrOffset = 0 /\ 0 \in Offsets(r)
        /\ EU433!PhyDefaults.uplinkDwellTime \in {0, 1}
        /\ EU433!PhyDefaults.downlinkDwellTime = 0
    BY SMT, <1>5 DEF EU433!PhyDefaults, RxDrs, Offsets
  <2>3. EU433!VerifyRfFreq(434665000)
    BY SMT DEF EU433!VerifyRfFreq, EU433!InRange
  <2> QED BY <2>1, <2>2, <2>3, SMT
<1>6. CASE r = "EU868"
  <2>1. RegionPhyDefaults(r) = EU868!PhyDefaults
        /\ (Legal(r, 869525000) <=> EU868!VerifyRfFreq(869525000))
    BY SMT, <1>6 DEF RegionPhyDefaults, Legal, RegionVerify, EU868!Verify
  <2>2. /\ EU868!PhyDefaults.rx2Frequency = 869525000
        /\ EU868!PhyDefaults.rx2Datarate \in RxDrs(r)
        /\ EU868!PhyDefaults.rx1DrOffset = 0 /\ 0 \in Offsets(r)
        /\ EU868!PhyDefaults.uplinkDwellTime \in {0, 1}
        /\ EU868!PhyDefaults.downlinkDwellTime = 0
    BY SMT, <1>6 DEF EU868!PhyDefaults, RxDrs, Offsets
  <2>3. EU868!VerifyRfFreq(869525000)
    BY SMT DEF EU868!VerifyRfFreq, EU868!InRange, EU868!BandOf
  <2> QED BY <2>1, <2>2, <2>3, SMT
<1>7. CASE r = "IN865"
  <2>1. RegionPhyDefaults(r) = IN865!PhyDefaults
        /\ (Legal(r, 866550000) <=> IN865!VerifyRfFreq(866550000))
    BY SMT, <1>7 DEF RegionPhyDefaults, Legal, RegionVerify, IN865!Verify
  <2>2. /\ IN865!PhyDefaults.rx2Frequency = 866550000
        /\ IN865!PhyDefaults.rx2Datarate \in RxDrs(r)
        /\ IN865!PhyDefaults.rx1DrOffset = 0 /\ 0 \in Offsets(r)
        /\ IN865!PhyDefaults.uplinkDwellTime \in {0, 1}
        /\ IN865!PhyDefaults.downlinkDwellTime = 0
    BY SMT, <1>7 DEF IN865!PhyDefaults, RxDrs, Offsets
  <2>3. IN865!VerifyRfFreq(866550000)
    BY SMT DEF IN865!VerifyRfFreq, IN865!InRange
  <2> QED BY <2>1, <2>2, <2>3, SMT
<1>8. CASE r = "KR920"
  <2>1. RegionPhyDefaults(r) = KR920!PhyDefaults
        /\ (Legal(r, 921900000) <=> KR920!VerifyRfFreq(921900000))
    BY SMT, <1>8 DEF RegionPhyDefaults, Legal, RegionVerify, KR920!Verify
  <2>2. /\ KR920!PhyDefaults.rx2Frequency = 921900000
        /\ KR920!PhyDefaults.rx2Datarate \in RxDrs(r)
        /\ KR920!PhyDefaults.rx1DrOffset = 0 /\ 0 \in Offsets(r)
        /\ KR920!PhyDefaults.uplinkDwellTime \in {0, 1}
        /\ KR920!PhyDefaults.downlinkDwellTime = 0
    BY SMT, <1>8 DEF KR920!PhyDefaults, RxDrs, Offsets
  <2>3. KR920!VerifyRfFreq(921900000)
    BY SMT DEF KR920!VerifyRfFreq, KR920!InRange
  <2> QED BY <2>1, <2>2, <2>3, SMT
<1>9. CASE r = "RU864"
  <2>1. RegionPhyDefaults(r) = RU864!PhyDefaults
        /\ (Legal(r, 869100000) <=> RU864!VerifyRfFreq(869100000))
    BY SMT, <1>9 DEF RegionPhyDefaults, Legal, RegionVerify, RU864!Verify
  <2>2. /\ RU864!PhyDefaults.rx2Frequency = 869100000
        /\ RU864!PhyDefaults.rx2Datarate \in RxDrs(r)
        /\ RU864!PhyDefaults.rx1DrOffset = 0 /\ 0 \in Offsets(r)
        /\ RU864!PhyDefaults.uplinkDwellTime \in {0, 1}
        /\ RU864!PhyDefaults.downlinkDwellTime = 0
    BY SMT, <1>9 DEF RU864!PhyDefaults, RxDrs, Offsets
  <2>3. RU864!VerifyRfFreq(869100000)
    BY SMT DEF RU864!VerifyRfFreq, RU864!InRange, RU864!BandOf
  <2> QED BY <2>1, <2>2, <2>3, SMT
<1>10. CASE r = "US915"
  <2>1. RegionPhyDefaults(r) = US915!PhyDefaults
        /\ (Legal(r, 923300000) <=> US915!VerifyRfFreq(923300000))
    BY SMT, <1>10 DEF RegionPhyDefaults, Legal, RegionVerify, US915!Verify
  <2>2. /\ US915!PhyDefaults.rx2Frequency = 923300000
        /\ US915!PhyDefaults.rx2Datarate \in RxDrs(r)
        /\ US915!PhyDefaults.rx1DrOffset = 0 /\ 0 \in Offsets(r)
        /\ US915!PhyDefaults.uplinkDwellTime \in {0, 1}
        /\ US915!PhyDefaults.downlinkDwellTime = 0
    BY SMT, <1>10 DEF US915!PhyDefaults, RxDrs, Offsets
  <2>3. US915!VerifyRfFreq(923300000)
    <3>1. /\ US915!FirstRx1Channel = 923300000 /\ US915!LastRx1Channel = 927500000
          /\ US915!StepwidthRx1Channel = 600000
      BY SMT DEF US915!FirstRx1Channel, US915!LastRx1Channel, US915!StepwidthRx1Channel
    <3>2. 923300000 \in US915!FirstRx1Channel..US915!LastRx1Channel
      <4>1. US915!FirstRx1Channel \in Int /\ US915!LastRx1Channel \in Int
        BY <3>1
      <4>2. 923300000 >= US915!FirstRx1Channel /\ 923300000 <= US915!LastRx1Channel
        BY <3>1
      <4> QED BY <4>1, <4>2, SMT
    <3>3. (923300000 - US915!FirstRx1Channel) % US915!StepwidthRx1Channel = 0
      BY <3>1, SMT
    <3>4. US915!InRange(923300000, 902300000, 927500000)
      BY SMT DEF US915!InRange
    <3> QED BY <3>2, <3>3, <3>4, SMT DEF US915!VerifyRfFreq, US915!Plan!VerifyRxFreq
  <2> QED BY <2>1, <2>2, <2>3, SMT
<1> QED
  BY <1>1, <1>2, <1>3, <1>4, <1>5, <1>6, <1>7, <1>8, <1>9, <1>10 DEF Names

(* Window 1 is at a data rate the region has, not below the least one of   *)
(* the dwell time.                                                         *)
LEMMA DrOffsetAllowed ==
    ASSUME NEW r \in Names, NEW dwell \in {0, 1}, NEW dr \in UplinkDrs(r),
           NEW offset \in Offsets(r)
    PROVE  LET rx1 == RegionApplyDrOffset(r, dwell, dr, offset)
           IN  /\ rx1 \in RxDrs(r)
               /\ \A d, up : rx1 >= RegionGetPhyParam(r, d, up, dwell).minRxDr
<1>1. CASE r = "AS923"
  <2>1. dr \in 0..7 /\ offset \in 0..7 /\ RxDrs(r) = 0..7
    BY SMT, <1>1 DEF UplinkDrs, Offsets, RxDrs
  <2>2. RegionApplyDrOffset(r, dwell, dr, offset) = AS923!ApplyDrOffset(dwell, dr, offset)
    BY SMT, <1>1 DEF RegionApplyDrOffset
  <2>3. \A d, up : RegionGetPhyParam(r, d, up, dwell).minRxDr = IF dwell = 0 THEN 0 ELSE 2
    BY SMT, <1>1 DEF RegionGetPhyParam, AS923!GetPhyParam
  <2>4. AS923!EffectiveRx1DrOffset[offset] \in -2..5
    BY <2>1, SMT DEF AS923!EffectiveRx1DrOffset, AS923!Table
  <2> QED BY <2>1, <2>2, <2>3, <2>4, SMT DEF AS923!ApplyDrOffset, AS923!Most, AS923!Least
<1>2. CASE r = "AU915"
  <2>1. dr \in 0..6 /\ offset \in 0..5 /\ RxDrs(r) = 8..13
    BY SMT, <1>2 DEF UplinkDrs, Offsets, RxDrs
  <2>2. RegionApplyDrOffset(r, dwell, dr, offset) = AU915!ApplyDrOffset(dwell, dr, offset)
    BY SMT, <1>2 DEF RegionApplyDrOffset
  <2>3. \A d, up : RegionGetPhyParam(r, d, up, dwell).minRxDr = IF dwell = 0 THEN 8 ELSE 2
    BY SMT, <1>2 DEF RegionGetPhyParam, AU915!GetPhyParam
  <2>4. ASSUME dr = 0 PROVE AU915!DatarateOffsets[dr][offset] \in 8..13
    <3>1. AU915!DatarateOffsets[0] = AU915!Table(<<8, 8, 8, 8, 8, 8>>)
      BY SMT DEF AU915!DatarateOffsets, AU915!Table
    <3> QED BY <2>1, <2>4, <3>1, SMT DEF AU915!Table
  <2>5. ASSUME dr = 1 PROVE AU915!DatarateOffsets[dr][offset] \in 8..13
    <3>1. AU915!DatarateOffsets[1] = AU915!Table(<<9, 8, 8, 8, 8, 8>>)
      BY SMT DEF AU915!DatarateOffsets, AU915!Table
    <3> QED BY <2>1, <2>5, <3>1, SMT DEF AU915!Table
  <2>6. ASSUME dr = 2 PROVE AU915!DatarateOffsets[dr][offset] \in 8..13
    <3>1. AU915!DatarateOffsets[2] = AU915!Table(<<10, 9, 8, 8, 8, 8>>)
      BY SMT DEF AU915!DatarateOffsets, AU915!Table
    <3> QED BY <2>1, <2>6, <3>1, SMT DEF AU915!Table
  <2>7. ASSUME dr = 3 PROVE AU915!DatarateOffsets[dr][offset] \in 8..13
    <3>1. AU915!DatarateOffsets[3] = AU915!Table(<<11, 10, 9, 8, 8, 8>>)
      BY SMT DEF AU915!DatarateOffsets, AU915!Table
    <3> QED BY <2>1, <2>7, <3>1, SMT DEF AU915!Table
  <2>8. ASSUME dr = 4 PROVE AU915!DatarateOffsets[dr][offset] \in 8..13
    <3>1. AU915!DatarateOffsets[4] = AU915!Table(<<12, 11, 10, 9, 8, 8>>)
      BY SMT DEF AU915!DatarateOffsets, AU915!Table
    <3> QED BY <2>1, <2>8, <3>1, SMT DEF AU915!Table
  <2>9. ASSUME dr = 5 PROVE AU915!DatarateOffsets[dr][offset] \in 8..13
    <3>1. AU915!DatarateOffsets[5] = AU915!Table(<<13, 12, 11, 10, 9, 8>>)
      BY SMT DEF AU915!DatarateOffsets, AU915!Table
    <3> QED BY <2>1, <2>9, <3>1, SMT DEF AU915!Table
  <2>10. ASSUME dr = 6 PROVE AU915!DatarateOffsets[dr][offset] \in 8..13
    <3>1. AU915!DatarateOffsets[6] = AU915!Table(<<13, 13, 12, 11, 10, 9>>)
      BY SMT DEF AU915!DatarateOffsets, AU915!Table
    <3> QED BY <2>1, <2>10, <3>1, SMT DEF AU915!Table
  <2>11. AU915!DatarateOffsets[dr][offset] \in 8..13
    BY <2>4, <2>5, <2>6, <2>7, <2>8, <2>9, <2>10, <2>1, SMT
  <2> QED BY <2>1, <2>2, <2>3, <2>11, SMT DEF AU915!ApplyDrOffset, AU915!Most
<1>3. CASE r = "CN470"
  <2>1. dr \in 0..5 /\ offset \in 0..5 /\ RxDrs(r) = 0..5
    BY SMT, <1>3 DEF UplinkDrs, Offsets, RxDrs
  <2>2. RegionApplyDrOffset(r, dwell, dr, offset) = CN470!ApplyDrOffset(dwell, dr, offset)
    BY SMT, <1>3 DEF RegionApplyDrOffset
  <2>3. \A d, up : RegionGetPhyParam(r, d, up, dwell).minRxDr = 0
    BY SMT, <1>3 DEF RegionGetPhyParam, CN470!GetPhyParam
  <2> QED BY <2>1, <2>2, <2>3, SMT DEF CN470!ApplyDrOffset, CN470!Most
<1>4. CASE r = "CN779"
  <2>1. dr \in 0..7 /\ offset \in 0..5 /\ RxDrs(r) = 0..7
    BY SMT, <1>4 DEF UplinkDrs, Offsets, RxDrs
  <2>2. RegionApplyDrOffset(r, dwell, dr, offset) = CN779!ApplyDrOffset(dwell, dr, offset)
    BY SMT, <1>4 DEF RegionApplyDrOffset
  <2>3. \A d, up : RegionGetPhyParam(r, d, up, dwell).minRxDr = 0
    BY SMT, <1>4 DEF RegionGetPhyParam, CN779!GetPhyParam
  <2> QED BY <2>1, <2>2, <2>3, SMT DEF CN779!ApplyDrOffset, CN779!Most
<1>5. CASE r = "EU433"
  <2>1. dr \in 0..7 /\ offset \in 0..5 /\ RxDrs(r) = 0..7
    BY SMT, <1>5 DEF UplinkDrs, Offsets, RxDrs
  <2>2. RegionApplyDrOffset(r, dwell, dr, offset) = EU433!ApplyDrOffset(dwell, dr, offset)
    BY SMT, <1>5 DEF RegionApplyDrOffset
  <2>3. \A d, up : RegionGetPhyParam(r, d, up, dwell).minRxDr = 0
    BY SMT, <1>5 DEF RegionGetPhyParam, EU433!GetPhyParam
  <2> QED BY <2>1, <2>2, <2>3, SMT DEF EU433!ApplyDrOffset, EU433!Most
<1>6. CASE r = "EU868"
  <2>1. dr \in 0..7 /\ offset \in 0..5 /\ RxDrs(r) = 0..7
    BY SMT, <1>6 DEF UplinkDrs, Offsets, RxDrs
  <2>2. RegionApplyDrOffset(r, dwell, dr, offset) = EU868!ApplyDrOffset(dwell, dr, offset)
    BY SMT, <1>6 DEF RegionApplyDrOffset
  <2>3. \A d, up : RegionGetPhyParam(r, d, up, dwell).minRxDr = 0
    BY SMT, <1>6 DEF RegionGetPhyParam, EU868!GetPhyParam
  <2> QED BY <2>1, <2>2, <2>3, SMT DEF EU868!ApplyDrOffset, EU868!Most
<1>7. CASE r = "IN865"
  <2>1. dr \in 0..7 /\ offset \in 0..7 /\ RxDrs(r) = (0..7) \ {6}
    BY SMT, <1>7 DEF UplinkDrs, Offsets, RxDrs
  <2>2. RegionApplyDrOffset(r, dwell, dr, offset) = IN865!ApplyDrOffset(dwell, dr, offset)
    BY SMT, <1>7 DEF RegionApplyDrOffset
  <2>3. \A d, up : RegionGetPhyParam(r, d, up, dwell).minRxDr = 0
    BY SMT, <1>7 DEF RegionGetPhyParam, IN865!GetPhyParam
  <2>4. IN865!EffectiveRx1DrOffset[offset] \in -2..5
    BY <2>1, SMT DEF IN865!EffectiveRx1DrOffset, IN865!Table
  <2> QED BY <2>1, <2>2, <2>3, <2>4, SMT DEF IN865!ApplyDrOffset, IN865!Most, IN865!Least
<1>8. CASE r = "KR920"
  <2>1. dr \in 0..5 /\ offset \in 0..5 /\ RxDrs(r) = 0..5
    BY SMT, <1>8 DEF UplinkDrs, Offsets, RxDrs
  <2>2. RegionApplyDrOffset(r, dwell, dr, offset) = KR920!ApplyDrOffset(dwell, dr, offset)
    BY SMT, <1>8 DEF RegionApplyDrOffset
  <2>3. \A d, up : RegionGetPhyParam(r, d, up, dwell).minRxDr = 0
    BY SMT, <1>8 DEF RegionGetPhyParam, KR920!GetPhyParam
  <2> QED BY <2>1, <2>2, <2>3, SMT DEF KR920!ApplyDrOffset, KR920!Most
<1>9. CASE r = "RU864"
  <2>1. dr \in 0..7 /\ offset \in 0..5 /\ RxDrs(r) = 0..7
    BY SMT, <1>9 DEF UplinkDrs, Offsets, RxDrs
  <2>2. RegionApplyDrOffset(r, dwell, dr, offset) = RU864!ApplyDrOffset(dwell, dr, offset)
    BY SMT, <1>9 DEF RegionApplyDrOffset
  <2>3. \A d, up : RegionGetPhyParam(r, d, up, dwell).minRxDr = 0
    BY SMT, <1>9 DEF RegionGetPhyParam, RU864!GetPhyParam
  <2> QED BY <2>1, <2>2, <2>3, SMT DEF RU864!ApplyDrOffset, RU864!Most
<1>10. CASE r = "US915"
  <2>1. dr \in 0..4 /\ offset \in 0..3 /\ RxDrs(r) = 8..13
    BY SMT, <1>10 DEF UplinkDrs, Offsets, RxDrs
  <2>2. RegionApplyDrOffset(r, dwell, dr, offset) = US915!ApplyDrOffset(dwell, dr, offset)
    BY SMT, <1>10 DEF RegionApplyDrOffset
  <2>3. \A d, up : RegionGetPhyParam(r, d, up, dwell).minRxDr = 8
    BY SMT, <1>10 DEF RegionGetPhyParam, US915!GetPhyParam
  <2>4. ASSUME dr = 0 PROVE US915!DatarateOffsets[dr][offset] \in 8..13
    <3>1. US915!DatarateOffsets[0] = US915!Table(<<10, 9, 8, 8>>)
      BY SMT DEF US915!DatarateOffsets, US915!Table
    <3> QED BY <2>1, <2>4, <3>1, SMT DEF US915!Table
  <2>5. ASSUME dr = 1 PROVE US915!DatarateOffsets[dr][offset] \in 8..13
    <3>1. US915!DatarateOffsets[1] = US915!Table(<<11, 10, 9, 8>>)
      BY SMT DEF US915!DatarateOffsets, US915!Table
    <3> QED BY <2>1, <2>5, <3>1, SMT DEF US915!Table
  <2>6. ASSUME dr = 2 PROVE US915!DatarateOffsets[dr][offset] \in 8..13
    <3>1. US915!DatarateOffsets[2] = US915!Table(<<12, 11, 10, 9>>)
      BY SMT DEF US915!DatarateOffsets, US915!Table
    <3> QED BY <2>1, <2>6, <3>1, SMT DEF US915!Table
  <2>7. ASSUME dr = 3 PROVE US915!DatarateOffsets[dr][offset] \in 8..13
    <3>1. US915!DatarateOffsets[3] = US915!Table(<<13, 12, 11, 10>>)
      BY SMT DEF US915!DatarateOffsets, US915!Table
    <3> QED BY <2>1, <2>7, <3>1, SMT DEF US915!Table
  <2>8. ASSUME dr = 4 PROVE US915!DatarateOffsets[dr][offset] \in 8..13
    <3>1. US915!DatarateOffsets[4] = US915!Table(<<13, 13, 12, 11>>)
      BY SMT DEF US915!DatarateOffsets, US915!Table
    <3> QED BY <2>1, <2>8, <3>1, SMT DEF US915!Table
  <2>9. US915!DatarateOffsets[dr][offset] \in 8..13
    BY <2>4, <2>5, <2>6, <2>7, <2>8, <2>1, SMT
  <2> QED BY <2>1, <2>2, <2>3, <2>9, SMT DEF US915!ApplyDrOffset, US915!Most
<1> QED
  BY <1>1, <1>2, <1>3, <1>4, <1>5, <1>6, <1>7, <1>8, <1>9, <1>10 DEF Names

-----------------------------------------------------------------------------
(* Where the channels of a region are.                                     *)
UplinkFrequency(r, p, c) ==
    CASE r = "AU915" -> AU915!ChannelFrequency(c)
      [] r = "CN470" -> CN470!ChannelFrequency(c)
      [] r = "US915" -> US915!ChannelFrequency(c)
      [] OTHER -> p.channels[c].frequency
Window1Frequency(r, p, c) ==
    CASE r = "AU915" -> 923300000 + (c % 8) * 600000
      [] r = "CN470" -> 500300000 + (c % 48) * 200000
      [] r = "US915" -> 923300000 + (c % 8) * 600000
      [] OTHER -> IF p.channels[c].rx1Frequency # 0 THEN p.channels[c].rx1Frequency
                  ELSE p.channels[c].frequency

(* The frequency written into a configuration is the one it has.           *)
LEMMA WithFrequencyIs ==
    ASSUME NEW config, NEW frequency, NEW max
    PROVE  WithMaxPayload(WithFrequency(config, frequency), max).frequency = frequency
<1> DEFINE one == WithFrequency(config, frequency)
<1>1. "frequency" \in DOMAIN one /\ one["frequency"] = frequency
  BY SMT DEF WithFrequency
<1> HIDE DEF one
<1>2. WithMaxPayload(one, max)["frequency"] = one["frequency"]
  BY <1>1, SMT DEF WithMaxPayload
<1> QED BY <1>1, <1>2 DEF one

(* What a configuration of the radio says of the frequency and the length.  *)
LEMMA WithMaxPayloadIs ==
    ASSUME NEW config, NEW frequency, NEW max
    PROVE  WithMaxPayload(WithFrequency(config, frequency), max).maxPayload = max % 256
BY SMT DEF WithMaxPayload

(* TxConfig tunes to the channel of the frame, in every region.            *)
LEMMA TxConfigIs ==
    ASSUME NEW r \in Names, NEW p, NEW tx
    PROVE  \E config :
              RegionTxConfig(r, p, tx) =
                 [radio |-> WithMaxPayload(
                               WithFrequency(config, UplinkFrequency(r, p, tx.channel)),
                               tx.pktLen),
                  timeOnAir |-> RegionGetTimeOnAir(r, tx.datarate, tx.pktLen)]
<1>1. CASE r = "AS923"
  <2>1. PICK config :
           AS923!TxConfig(p, tx) =
              [radio |-> AS923!Phy!WithMaxPayload(
                            AS923!Phy!WithFrequency(config, AS923!Plan!Frequency(p, tx.channel)),
                            tx.pktLen),
               timeOnAir |-> AS923!Phy!GetTimeOnAir(tx.datarate, tx.pktLen)]
    BY Zenon DEF AS923!TxConfig, AS923!Phy!TxConfig
  <2>2. RegionTxConfig(r, p, tx) = AS923!TxConfig(p, tx)
    BY SMT, <1>1 DEF RegionTxConfig
  <2>3. \A f : AS923!Phy!WithFrequency(config, f) = WithFrequency(config, f)
    BY Zenon DEF AS923!Phy!WithFrequency, WithFrequency
  <2>4. \A one, max : AS923!Phy!WithMaxPayload(one, max) = WithMaxPayload(one, max)
    BY Zenon DEF AS923!Phy!WithMaxPayload, WithMaxPayload
  <2>5. UplinkFrequency(r, p, tx.channel) = AS923!Plan!Frequency(p, tx.channel)
    BY SMT, <1>1 DEF UplinkFrequency, AS923!Plan!Frequency
  <2>6. RegionGetTimeOnAir(r, tx.datarate, tx.pktLen) =
           AS923!Phy!GetTimeOnAir(tx.datarate, tx.pktLen)
    BY SMT, <1>1 DEF RegionGetTimeOnAir, AS923!GetTimeOnAir
  <2> QED BY <2>1, <2>2, <2>3, <2>4, <2>5, <2>6, Zenon
<1>2. CASE r = "AU915"
  <2>1. PICK config :
           AU915!TxConfig(p, tx) =
              [radio |-> AU915!Phy!WithMaxPayload(
                            AU915!Phy!WithFrequency(config, AU915!Plan!Frequency(p, tx.channel)),
                            tx.pktLen),
               timeOnAir |-> AU915!Phy!GetTimeOnAir(tx.datarate, tx.pktLen)]
    BY Zenon DEF AU915!TxConfig, AU915!Phy!TxConfig
  <2>2. RegionTxConfig(r, p, tx) = AU915!TxConfig(p, tx)
    BY SMT, <1>2 DEF RegionTxConfig
  <2>3. \A f : AU915!Phy!WithFrequency(config, f) = WithFrequency(config, f)
    BY Zenon DEF AU915!Phy!WithFrequency, WithFrequency
  <2>4. \A one, max : AU915!Phy!WithMaxPayload(one, max) = WithMaxPayload(one, max)
    BY Zenon DEF AU915!Phy!WithMaxPayload, WithMaxPayload
  <2>5. UplinkFrequency(r, p, tx.channel) = AU915!Plan!Frequency(p, tx.channel)
    BY SMT, <1>2 DEF UplinkFrequency, AU915!Plan!Frequency
  <2>6. RegionGetTimeOnAir(r, tx.datarate, tx.pktLen) =
           AU915!Phy!GetTimeOnAir(tx.datarate, tx.pktLen)
    BY SMT, <1>2 DEF RegionGetTimeOnAir, AU915!GetTimeOnAir
  <2> QED BY <2>1, <2>2, <2>3, <2>4, <2>5, <2>6, Zenon
<1>3. CASE r = "CN470"
  <2>1. PICK config :
           CN470!TxConfig(p, tx) =
              [radio |-> CN470!Phy!WithMaxPayload(
                            CN470!Phy!WithFrequency(config, CN470!Plan!Frequency(p, tx.channel)),
                            tx.pktLen),
               timeOnAir |-> CN470!Phy!GetTimeOnAir(tx.datarate, tx.pktLen)]
    BY Zenon DEF CN470!TxConfig, CN470!Phy!TxConfig
  <2>2. RegionTxConfig(r, p, tx) = CN470!TxConfig(p, tx)
    BY SMT, <1>3 DEF RegionTxConfig
  <2>3. \A f : CN470!Phy!WithFrequency(config, f) = WithFrequency(config, f)
    BY Zenon DEF CN470!Phy!WithFrequency, WithFrequency
  <2>4. \A one, max : CN470!Phy!WithMaxPayload(one, max) = WithMaxPayload(one, max)
    BY Zenon DEF CN470!Phy!WithMaxPayload, WithMaxPayload
  <2>5. UplinkFrequency(r, p, tx.channel) = CN470!Plan!Frequency(p, tx.channel)
    BY SMT, <1>3 DEF UplinkFrequency, CN470!Plan!Frequency
  <2>6. RegionGetTimeOnAir(r, tx.datarate, tx.pktLen) =
           CN470!Phy!GetTimeOnAir(tx.datarate, tx.pktLen)
    BY SMT, <1>3 DEF RegionGetTimeOnAir, CN470!GetTimeOnAir
  <2> QED BY <2>1, <2>2, <2>3, <2>4, <2>5, <2>6, Zenon
<1>4. CASE r = "CN779"
  <2>1. PICK config :
           CN779!TxConfig(p, tx) =
              [radio |-> CN779!Phy!WithMaxPayload(
                            CN779!Phy!WithFrequency(config, CN779!Plan!Frequency(p, tx.channel)),
                            tx.pktLen),
               timeOnAir |-> CN779!Phy!GetTimeOnAir(tx.datarate, tx.pktLen)]
    BY Zenon DEF CN779!TxConfig, CN779!Phy!TxConfig
  <2>2. RegionTxConfig(r, p, tx) = CN779!TxConfig(p, tx)
    BY SMT, <1>4 DEF RegionTxConfig
  <2>3. \A f : CN779!Phy!WithFrequency(config, f) = WithFrequency(config, f)
    BY Zenon DEF CN779!Phy!WithFrequency, WithFrequency
  <2>4. \A one, max : CN779!Phy!WithMaxPayload(one, max) = WithMaxPayload(one, max)
    BY Zenon DEF CN779!Phy!WithMaxPayload, WithMaxPayload
  <2>5. UplinkFrequency(r, p, tx.channel) = CN779!Plan!Frequency(p, tx.channel)
    BY SMT, <1>4 DEF UplinkFrequency, CN779!Plan!Frequency
  <2>6. RegionGetTimeOnAir(r, tx.datarate, tx.pktLen) =
           CN779!Phy!GetTimeOnAir(tx.datarate, tx.pktLen)
    BY SMT, <1>4 DEF RegionGetTimeOnAir, CN779!GetTimeOnAir
  <2> QED BY <2>1, <2>2, <2>3, <2>4, <2>5, <2>6, Zenon
<1>5. CASE r = "EU433"
  <2>1. PICK config :
           EU433!TxConfig(p, tx) =
              [radio |-> EU433!Phy!WithMaxPayload(
                            EU433!Phy!WithFrequency(config, EU433!Plan!Frequency(p, tx.channel)),
                            tx.pktLen),
               timeOnAir |-> EU433!Phy!GetTimeOnAir(tx.datarate, tx.pktLen)]
    BY Zenon DEF EU433!TxConfig, EU433!Phy!TxConfig
  <2>2. RegionTxConfig(r, p, tx) = EU433!TxConfig(p, tx)
    BY SMT, <1>5 DEF RegionTxConfig
  <2>3. \A f : EU433!Phy!WithFrequency(config, f) = WithFrequency(config, f)
    BY Zenon DEF EU433!Phy!WithFrequency, WithFrequency
  <2>4. \A one, max : EU433!Phy!WithMaxPayload(one, max) = WithMaxPayload(one, max)
    BY Zenon DEF EU433!Phy!WithMaxPayload, WithMaxPayload
  <2>5. UplinkFrequency(r, p, tx.channel) = EU433!Plan!Frequency(p, tx.channel)
    BY SMT, <1>5 DEF UplinkFrequency, EU433!Plan!Frequency
  <2>6. RegionGetTimeOnAir(r, tx.datarate, tx.pktLen) =
           EU433!Phy!GetTimeOnAir(tx.datarate, tx.pktLen)
    BY SMT, <1>5 DEF RegionGetTimeOnAir, EU433!GetTimeOnAir
  <2> QED BY <2>1, <2>2, <2>3, <2>4, <2>5, <2>6, Zenon
<1>6. CASE r = "EU868"
  <2>1. PICK config :
           EU868!TxConfig(p, tx) =
              [radio |-> EU868!Phy!WithMaxPayload(
                            EU868!Phy!WithFrequency(config, EU868!Plan!Frequency(p, tx.channel)),
                            tx.pktLen),
               timeOnAir |-> EU868!Phy!GetTimeOnAir(tx.datarate, tx.pktLen)]
    BY Zenon DEF EU868!TxConfig, EU868!Phy!TxConfig
  <2>2. RegionTxConfig(r, p, tx) = EU868!TxConfig(p, tx)
    BY SMT, <1>6 DEF RegionTxConfig
  <2>3. \A f : EU868!Phy!WithFrequency(config, f) = WithFrequency(config, f)
    BY Zenon DEF EU868!Phy!WithFrequency, WithFrequency
  <2>4. \A one, max : EU868!Phy!WithMaxPayload(one, max) = WithMaxPayload(one, max)
    BY Zenon DEF EU868!Phy!WithMaxPayload, WithMaxPayload
  <2>5. UplinkFrequency(r, p, tx.channel) = EU868!Plan!Frequency(p, tx.channel)
    BY SMT, <1>6 DEF UplinkFrequency, EU868!Plan!Frequency
  <2>6. RegionGetTimeOnAir(r, tx.datarate, tx.pktLen) =
           EU868!Phy!GetTimeOnAir(tx.datarate, tx.pktLen)
    BY SMT, <1>6 DEF RegionGetTimeOnAir, EU868!GetTimeOnAir
  <2> QED BY <2>1, <2>2, <2>3, <2>4, <2>5, <2>6, Zenon
<1>7. CASE r = "IN865"
  <2>1. PICK config :
           IN865!TxConfig(p, tx) =
              [radio |-> IN865!Phy!WithMaxPayload(
                            IN865!Phy!WithFrequency(config, IN865!Plan!Frequency(p, tx.channel)),
                            tx.pktLen),
               timeOnAir |-> IN865!Phy!GetTimeOnAir(tx.datarate, tx.pktLen)]
    BY Zenon DEF IN865!TxConfig, IN865!Phy!TxConfig
  <2>2. RegionTxConfig(r, p, tx) = IN865!TxConfig(p, tx)
    BY SMT, <1>7 DEF RegionTxConfig
  <2>3. \A f : IN865!Phy!WithFrequency(config, f) = WithFrequency(config, f)
    BY Zenon DEF IN865!Phy!WithFrequency, WithFrequency
  <2>4. \A one, max : IN865!Phy!WithMaxPayload(one, max) = WithMaxPayload(one, max)
    BY Zenon DEF IN865!Phy!WithMaxPayload, WithMaxPayload
  <2>5. UplinkFrequency(r, p, tx.channel) = IN865!Plan!Frequency(p, tx.channel)
    BY SMT, <1>7 DEF UplinkFrequency, IN865!Plan!Frequency
  <2>6. RegionGetTimeOnAir(r, tx.datarate, tx.pktLen) =
           IN865!Phy!GetTimeOnAir(tx.datarate, tx.pktLen)
    BY SMT, <1>7 DEF RegionGetTimeOnAir, IN865!GetTimeOnAir
  <2> QED BY <2>1, <2>2, <2>3, <2>4, <2>5, <2>6, Zenon
<1>8. CASE r = "KR920"
  <2>1. PICK config :
           KR920!TxConfig(p, tx) =
              [radio |-> KR920!Phy!WithMaxPayload(
                            KR920!Phy!WithFrequency(config, KR920!Plan!Frequency(p, tx.channel)),
                            tx.pktLen),
               timeOnAir |-> KR920!Phy!GetTimeOnAir(tx.datarate, tx.pktLen)]
    BY Zenon DEF KR920!TxConfig, KR920!Phy!TxConfig
  <2>2. RegionTxConfig(r, p, tx) = KR920!TxConfig(p, tx)
    BY SMT, <1>8 DEF RegionTxConfig
  <2>3. \A f : KR920!Phy!WithFrequency(config, f) = WithFrequency(config, f)
    BY Zenon DEF KR920!Phy!WithFrequency, WithFrequency
  <2>4. \A one, max : KR920!Phy!WithMaxPayload(one, max) = WithMaxPayload(one, max)
    BY Zenon DEF KR920!Phy!WithMaxPayload, WithMaxPayload
  <2>5. UplinkFrequency(r, p, tx.channel) = KR920!Plan!Frequency(p, tx.channel)
    BY SMT, <1>8 DEF UplinkFrequency, KR920!Plan!Frequency
  <2>6. RegionGetTimeOnAir(r, tx.datarate, tx.pktLen) =
           KR920!Phy!GetTimeOnAir(tx.datarate, tx.pktLen)
    BY SMT, <1>8 DEF RegionGetTimeOnAir, KR920!GetTimeOnAir
  <2> QED BY <2>1, <2>2, <2>3, <2>4, <2>5, <2>6, Zenon
<1>9. CASE r = "RU864"
  <2>1. PICK config :
           RU864!TxConfig(p, tx) =
              [radio |-> RU864!Phy!WithMaxPayload(
                            RU864!Phy!WithFrequency(config, RU864!Plan!Frequency(p, tx.channel)),
                            tx.pktLen),
               timeOnAir |-> RU864!Phy!GetTimeOnAir(tx.datarate, tx.pktLen)]
    BY Zenon DEF RU864!TxConfig, RU864!Phy!TxConfig
  <2>2. RegionTxConfig(r, p, tx) = RU864!TxConfig(p, tx)
    BY SMT, <1>9 DEF RegionTxConfig
  <2>3. \A f : RU864!Phy!WithFrequency(config, f) = WithFrequency(config, f)
    BY Zenon DEF RU864!Phy!WithFrequency, WithFrequency
  <2>4. \A one, max : RU864!Phy!WithMaxPayload(one, max) = WithMaxPayload(one, max)
    BY Zenon DEF RU864!Phy!WithMaxPayload, WithMaxPayload
  <2>5. UplinkFrequency(r, p, tx.channel) = RU864!Plan!Frequency(p, tx.channel)
    BY SMT, <1>9 DEF UplinkFrequency, RU864!Plan!Frequency
  <2>6. RegionGetTimeOnAir(r, tx.datarate, tx.pktLen) =
           RU864!Phy!GetTimeOnAir(tx.datarate, tx.pktLen)
    BY SMT, <1>9 DEF RegionGetTimeOnAir, RU864!GetTimeOnAir
  <2> QED BY <2>1, <2>2, <2>3, <2>4, <2>5, <2>6, Zenon
<1>10. CASE r = "US915"
  <2>1. PICK config :
           US915!TxConfig(p, tx) =
              [radio |-> US915!Phy!WithMaxPayload(
                            US915!Phy!WithFrequency(config, US915!Plan!Frequency(p, tx.channel)),
                            tx.pktLen),
               timeOnAir |-> US915!Phy!GetTimeOnAir(tx.datarate, tx.pktLen)]
    BY Zenon DEF US915!TxConfig, US915!Phy!TxConfig
  <2>2. RegionTxConfig(r, p, tx) = US915!TxConfig(p, tx)
    BY SMT, <1>10 DEF RegionTxConfig
  <2>3. \A f : US915!Phy!WithFrequency(config, f) = WithFrequency(config, f)
    BY Zenon DEF US915!Phy!WithFrequency, WithFrequency
  <2>4. \A one, max : US915!Phy!WithMaxPayload(one, max) = WithMaxPayload(one, max)
    BY Zenon DEF US915!Phy!WithMaxPayload, WithMaxPayload
  <2>5. UplinkFrequency(r, p, tx.channel) = US915!Plan!Frequency(p, tx.channel)
    BY SMT, <1>10 DEF UplinkFrequency, US915!Plan!Frequency
  <2>6. RegionGetTimeOnAir(r, tx.datarate, tx.pktLen) =
           US915!Phy!GetTimeOnAir(tx.datarate, tx.pktLen)
    BY SMT, <1>10 DEF RegionGetTimeOnAir, US915!GetTimeOnAir
  <2> QED BY <2>1, <2>2, <2>3, <2>4, <2>5, <2>6, Zenon
<1> QED
  BY <1>1, <1>2, <1>3, <1>4, <1>5, <1>6, <1>7, <1>8, <1>9, <1>10 DEF Names

(* The frequency an uplink goes out on.                                    *)
LEMMA SentAt ==
    ASSUME NEW r \in Names, NEW p, NEW tx
    PROVE  RegionTxConfig(r, p, tx).radio.frequency = UplinkFrequency(r, p, tx.channel)
<1> DEFINE f == UplinkFrequency(r, p, tx.channel)
<1>1. PICK config :
         RegionTxConfig(r, p, tx) =
            [radio |-> WithMaxPayload(WithFrequency(config, f), tx.pktLen),
             timeOnAir |-> RegionGetTimeOnAir(r, tx.datarate, tx.pktLen)]
  BY TxConfigIs
<1>2. RegionTxConfig(r, p, tx).radio = WithMaxPayload(WithFrequency(config, f), tx.pktLen)
  BY <1>1, SMT
<1>3. WithMaxPayload(WithFrequency(config, f), tx.pktLen).frequency = f
  BY WithFrequencyIs
<1> QED BY <1>2, <1>3

(* The frequency of a window: that of the channel, or that of window 2.    *)
LEMMA ReceivesAt ==
    ASSUME NEW r \in Names, NEW p, NEW rx
    PROVE  RegionRxConfig(r, p, rx).frequency =
              IF rx.rxSlot = "WIN_1" THEN Window1Frequency(r, p, rx.channel) ELSE rx.frequency
<1>1. CASE r = "AS923"
  <2> DEFINE f == IF rx.rxSlot = "WIN_1" THEN AS923!Plan!Rx1Frequency(p, rx.channel)
                  ELSE rx.frequency
             max == AS923!MaxPayloadOfDatarate[rx.datarate] + AS923!Phy!PayloadOverhead
             fsk == AS923!Phy!Modem(rx.datarate) = "FSK"
             config == AS923!Phy!SetRxConfig(AS923!Phy!Modem(rx.datarate),
                          IF fsk THEN 50000
                          ELSE rx.bandwidth, AS923!Phy!PhyDatarate(rx.datarate),
                          AS923!Phy!PreambleLen(rx.datarate), rx.timeout, ~fsk, rx.rxContinuous)
  <2>1. AS923!RxConfig(p, rx) =
           AS923!Phy!WithMaxPayload(AS923!Phy!WithFrequency(config, f), max)
    BY SMT DEF AS923!RxConfig, AS923!Phy!RxConfig
  <2> HIDE DEF config, max
  <2>2. RegionRxConfig(r, p, rx) = AS923!RxConfig(p, rx)
    BY SMT, <1>1 DEF RegionRxConfig
  <2>3. AS923!Phy!WithFrequency(config, f) = WithFrequency(config, f)
    BY Zenon DEF AS923!Phy!WithFrequency, WithFrequency
  <2>4. \A one : AS923!Phy!WithMaxPayload(one, max) = WithMaxPayload(one, max)
    BY Zenon DEF AS923!Phy!WithMaxPayload, WithMaxPayload
  <2>5. Window1Frequency(r, p, rx.channel) = AS923!Plan!Rx1Frequency(p, rx.channel)
    BY SMT, <1>1 DEF Window1Frequency, AS923!Plan!Rx1Frequency
  <2>6. WithMaxPayload(WithFrequency(config, f), max).frequency = f
    BY WithFrequencyIs
  <2> QED BY <2>1, <2>2, <2>3, <2>4, <2>5, <2>6, Zenon
<1>2. CASE r = "AU915"
  <2> DEFINE f == IF rx.rxSlot = "WIN_1" THEN AU915!Plan!Rx1Frequency(p, rx.channel)
                  ELSE rx.frequency
             max == AU915!MaxPayloadOfDatarate[rx.datarate] + AU915!Phy!PayloadOverhead
             fsk == AU915!Phy!Modem(rx.datarate) = "FSK"
             config == AU915!Phy!SetRxConfig(AU915!Phy!Modem(rx.datarate),
                          IF fsk THEN 50000
                          ELSE rx.bandwidth, AU915!Phy!PhyDatarate(rx.datarate),
                          AU915!Phy!PreambleLen(rx.datarate), rx.timeout, ~fsk, rx.rxContinuous)
  <2>1. AU915!RxConfig(p, rx) =
           AU915!Phy!WithMaxPayload(AU915!Phy!WithFrequency(config, f), max)
    BY SMT DEF AU915!RxConfig, AU915!Phy!RxConfig
  <2> HIDE DEF config, max
  <2>2. RegionRxConfig(r, p, rx) = AU915!RxConfig(p, rx)
    BY SMT, <1>2 DEF RegionRxConfig
  <2>3. AU915!Phy!WithFrequency(config, f) = WithFrequency(config, f)
    BY Zenon DEF AU915!Phy!WithFrequency, WithFrequency
  <2>4. \A one : AU915!Phy!WithMaxPayload(one, max) = WithMaxPayload(one, max)
    BY Zenon DEF AU915!Phy!WithMaxPayload, WithMaxPayload
  <2>5. Window1Frequency(r, p, rx.channel) = AU915!Plan!Rx1Frequency(p, rx.channel)
    BY SMT, <1>2 DEF Window1Frequency, AU915!Plan!Rx1Frequency, AU915!FirstRx1Channel,
       AU915!NbRx1Channels, AU915!StepwidthRx1Channel
  <2>6. WithMaxPayload(WithFrequency(config, f), max).frequency = f
    BY WithFrequencyIs
  <2> QED BY <2>1, <2>2, <2>3, <2>4, <2>5, <2>6, Zenon
<1>3. CASE r = "CN470"
  <2> DEFINE f == IF rx.rxSlot = "WIN_1" THEN CN470!Plan!Rx1Frequency(p, rx.channel)
                  ELSE rx.frequency
             max == CN470!MaxPayloadOfDatarate[rx.datarate] + CN470!Phy!PayloadOverhead
             fsk == CN470!Phy!Modem(rx.datarate) = "FSK"
             config == CN470!Phy!SetRxConfig(CN470!Phy!Modem(rx.datarate),
                          IF fsk THEN 50000
                          ELSE rx.bandwidth, CN470!Phy!PhyDatarate(rx.datarate),
                          CN470!Phy!PreambleLen(rx.datarate), rx.timeout, ~fsk, rx.rxContinuous)
  <2>1. CN470!RxConfig(p, rx) =
           CN470!Phy!WithMaxPayload(CN470!Phy!WithFrequency(config, f), max)
    BY SMT DEF CN470!RxConfig, CN470!Phy!RxConfig
  <2> HIDE DEF config, max
  <2>2. RegionRxConfig(r, p, rx) = CN470!RxConfig(p, rx)
    BY SMT, <1>3 DEF RegionRxConfig
  <2>3. CN470!Phy!WithFrequency(config, f) = WithFrequency(config, f)
    BY Zenon DEF CN470!Phy!WithFrequency, WithFrequency
  <2>4. \A one : CN470!Phy!WithMaxPayload(one, max) = WithMaxPayload(one, max)
    BY Zenon DEF CN470!Phy!WithMaxPayload, WithMaxPayload
  <2>5. Window1Frequency(r, p, rx.channel) = CN470!Plan!Rx1Frequency(p, rx.channel)
    BY SMT, <1>3 DEF Window1Frequency, CN470!Plan!Rx1Frequency, CN470!FirstRx1Channel,
       CN470!NbRx1Channels, CN470!StepwidthRx1Channel
  <2>6. WithMaxPayload(WithFrequency(config, f), max).frequency = f
    BY WithFrequencyIs
  <2> QED BY <2>1, <2>2, <2>3, <2>4, <2>5, <2>6, Zenon
<1>4. CASE r = "CN779"
  <2> DEFINE f == IF rx.rxSlot = "WIN_1" THEN CN779!Plan!Rx1Frequency(p, rx.channel)
                  ELSE rx.frequency
             max == CN779!MaxPayloadOfDatarate[rx.datarate] + CN779!Phy!PayloadOverhead
             fsk == CN779!Phy!Modem(rx.datarate) = "FSK"
             config == CN779!Phy!SetRxConfig(CN779!Phy!Modem(rx.datarate),
                          IF fsk THEN 50000
                          ELSE rx.bandwidth, CN779!Phy!PhyDatarate(rx.datarate),
                          CN779!Phy!PreambleLen(rx.datarate), rx.timeout, ~fsk, rx.rxContinuous)
  <2>1. CN779!RxConfig(p, rx) =
           CN779!Phy!WithMaxPayload(CN779!Phy!WithFrequency(config, f), max)
    BY SMT DEF CN779!RxConfig, CN779!Phy!RxConfig
  <2> HIDE DEF config, max
  <2>2. RegionRxConfig(r, p, rx) = CN779!RxConfig(p, rx)
    BY SMT, <1>4 DEF RegionRxConfig
  <2>3. CN779!Phy!WithFrequency(config, f) = WithFrequency(config, f)
    BY Zenon DEF CN779!Phy!WithFrequency, WithFrequency
  <2>4. \A one : CN779!Phy!WithMaxPayload(one, max) = WithMaxPayload(one, max)
    BY Zenon DEF CN779!Phy!WithMaxPayload, WithMaxPayload
  <2>5. Window1Frequency(r, p, rx.channel) = CN779!Plan!Rx1Frequency(p, rx.channel)
    BY SMT, <1>4 DEF Window1Frequency, CN779!Plan!Rx1Frequency
  <2>6. WithMaxPayload(WithFrequency(config, f), max).frequency = f
    BY WithFrequencyIs
  <2> QED BY <2>1, <2>2, <2>3, <2>4, <2>5, <2>6, Zenon
<1>5. CASE r = "EU433"
  <2> DEFINE f == IF rx.rxSlot = "WIN_1" THEN EU433!Plan!Rx1Frequency(p, rx.channel)
                  ELSE rx.frequency
             max == EU433!MaxPayloadOfDatarate[rx.datarate] + EU433!Phy!PayloadOverhead
             fsk == EU433!Phy!Modem(rx.datarate) = "FSK"
             config == EU433!Phy!SetRxConfig(EU433!Phy!Modem(rx.datarate),
                          IF fsk THEN 50000
                          ELSE rx.bandwidth, EU433!Phy!PhyDatarate(rx.datarate),
                          EU433!Phy!PreambleLen(rx.datarate), rx.timeout, ~fsk, rx.rxContinuous)
  <2>1. EU433!RxConfig(p, rx) =
           EU433!Phy!WithMaxPayload(EU433!Phy!WithFrequency(config, f), max)
    BY SMT DEF EU433!RxConfig, EU433!Phy!RxConfig
  <2> HIDE DEF config, max
  <2>2. RegionRxConfig(r, p, rx) = EU433!RxConfig(p, rx)
    BY SMT, <1>5 DEF RegionRxConfig
  <2>3. EU433!Phy!WithFrequency(config, f) = WithFrequency(config, f)
    BY Zenon DEF EU433!Phy!WithFrequency, WithFrequency
  <2>4. \A one : EU433!Phy!WithMaxPayload(one, max) = WithMaxPayload(one, max)
    BY Zenon DEF EU433!Phy!WithMaxPayload, WithMaxPayload
  <2>5. Window1Frequency(r, p, rx.channel) = EU433!Plan!Rx1Frequency(p, rx.channel)
    BY SMT, <1>5 DEF Window1Frequency, EU433!Plan!Rx1Frequency
  <2>6. WithMaxPayload(WithFrequency(config, f), max).frequency = f
    BY WithFrequencyIs
  <2> QED BY <2>1, <2>2, <2>3, <2>4, <2>5, <2>6, Zenon
<1>6. CASE r = "EU868"
  <2> DEFINE f == IF rx.rxSlot = "WIN_1" THEN EU868!Plan!Rx1Frequency(p, rx.channel)
                  ELSE rx.frequency
             max == EU868!MaxPayloadOfDatarate[rx.datarate] + EU868!Phy!PayloadOverhead
             fsk == EU868!Phy!Modem(rx.datarate) = "FSK"
             config == EU868!Phy!SetRxConfig(EU868!Phy!Modem(rx.datarate),
                          IF fsk THEN 50000
                          ELSE rx.bandwidth, EU868!Phy!PhyDatarate(rx.datarate),
                          EU868!Phy!PreambleLen(rx.datarate), rx.timeout, ~fsk, rx.rxContinuous)
  <2>1. EU868!RxConfig(p, rx) =
           EU868!Phy!WithMaxPayload(EU868!Phy!WithFrequency(config, f), max)
    BY SMT DEF EU868!RxConfig, EU868!Phy!RxConfig
  <2> HIDE DEF config, max
  <2>2. RegionRxConfig(r, p, rx) = EU868!RxConfig(p, rx)
    BY SMT, <1>6 DEF RegionRxConfig
  <2>3. EU868!Phy!WithFrequency(config, f) = WithFrequency(config, f)
    BY Zenon DEF EU868!Phy!WithFrequency, WithFrequency
  <2>4. \A one : EU868!Phy!WithMaxPayload(one, max) = WithMaxPayload(one, max)
    BY Zenon DEF EU868!Phy!WithMaxPayload, WithMaxPayload
  <2>5. Window1Frequency(r, p, rx.channel) = EU868!Plan!Rx1Frequency(p, rx.channel)
    BY SMT, <1>6 DEF Window1Frequency, EU868!Plan!Rx1Frequency
  <2>6. WithMaxPayload(WithFrequency(config, f), max).frequency = f
    BY WithFrequencyIs
  <2> QED BY <2>1, <2>2, <2>3, <2>4, <2>5, <2>6, Zenon
<1>7. CASE r = "IN865"
  <2> DEFINE f == IF rx.rxSlot = "WIN_1" THEN IN865!Plan!Rx1Frequency(p, rx.channel)
                  ELSE rx.frequency
             max == IN865!MaxPayloadOfDatarate[rx.datarate] + IN865!Phy!PayloadOverhead
             fsk == IN865!Phy!Modem(rx.datarate) = "FSK"
             config == IN865!Phy!SetRxConfig(IN865!Phy!Modem(rx.datarate),
                          IF fsk THEN 50000
                          ELSE rx.bandwidth, IN865!Phy!PhyDatarate(rx.datarate),
                          IN865!Phy!PreambleLen(rx.datarate), rx.timeout, ~fsk, rx.rxContinuous)
  <2>1. IN865!RxConfig(p, rx) =
           IN865!Phy!WithMaxPayload(IN865!Phy!WithFrequency(config, f), max)
    BY SMT DEF IN865!RxConfig, IN865!Phy!RxConfig
  <2> HIDE DEF config, max
  <2>2. RegionRxConfig(r, p, rx) = IN865!RxConfig(p, rx)
    BY SMT, <1>7 DEF RegionRxConfig
  <2>3. IN865!Phy!WithFrequency(config, f) = WithFrequency(config, f)
    BY Zenon DEF IN865!Phy!WithFrequency, WithFrequency
  <2>4. \A one : IN865!Phy!WithMaxPayload(one, max) = WithMaxPayload(one, max)
    BY Zenon DEF IN865!Phy!WithMaxPayload, WithMaxPayload
  <2>5. Window1Frequency(r, p, rx.channel) = IN865!Plan!Rx1Frequency(p, rx.channel)
    BY SMT, <1>7 DEF Window1Frequency, IN865!Plan!Rx1Frequency
  <2>6. WithMaxPayload(WithFrequency(config, f), max).frequency = f
    BY WithFrequencyIs
  <2> QED BY <2>1, <2>2, <2>3, <2>4, <2>5, <2>6, Zenon
<1>8. CASE r = "KR920"
  <2> DEFINE f == IF rx.rxSlot = "WIN_1" THEN KR920!Plan!Rx1Frequency(p, rx.channel)
                  ELSE rx.frequency
             max == KR920!MaxPayloadOfDatarate[rx.datarate] + KR920!Phy!PayloadOverhead
             fsk == KR920!Phy!Modem(rx.datarate) = "FSK"
             config == KR920!Phy!SetRxConfig(KR920!Phy!Modem(rx.datarate),
                          IF fsk THEN 50000
                          ELSE rx.bandwidth, KR920!Phy!PhyDatarate(rx.datarate),
                          KR920!Phy!PreambleLen(rx.datarate), rx.timeout, ~fsk, rx.rxContinuous)
  <2>1. KR920!RxConfig(p, rx) =
           KR920!Phy!WithMaxPayload(KR920!Phy!WithFrequency(config, f), max)
    BY SMT DEF KR920!RxConfig, KR920!Phy!RxConfig
  <2> HIDE DEF config, max
  <2>2. RegionRxConfig(r, p, rx) = KR920!RxConfig(p, rx)
    BY SMT, <1>8 DEF RegionRxConfig
  <2>3. KR920!Phy!WithFrequency(config, f) = WithFrequency(config, f)
    BY Zenon DEF KR920!Phy!WithFrequency, WithFrequency
  <2>4. \A one : KR920!Phy!WithMaxPayload(one, max) = WithMaxPayload(one, max)
    BY Zenon DEF KR920!Phy!WithMaxPayload, WithMaxPayload
  <2>5. Window1Frequency(r, p, rx.channel) = KR920!Plan!Rx1Frequency(p, rx.channel)
    BY SMT, <1>8 DEF Window1Frequency, KR920!Plan!Rx1Frequency
  <2>6. WithMaxPayload(WithFrequency(config, f), max).frequency = f
    BY WithFrequencyIs
  <2> QED BY <2>1, <2>2, <2>3, <2>4, <2>5, <2>6, Zenon
<1>9. CASE r = "RU864"
  <2> DEFINE f == IF rx.rxSlot = "WIN_1" THEN RU864!Plan!Rx1Frequency(p, rx.channel)
                  ELSE rx.frequency
             max == RU864!MaxPayloadOfDatarate[rx.datarate] + RU864!Phy!PayloadOverhead
             fsk == RU864!Phy!Modem(rx.datarate) = "FSK"
             config == RU864!Phy!SetRxConfig(RU864!Phy!Modem(rx.datarate),
                          IF fsk THEN 50000
                          ELSE rx.bandwidth, RU864!Phy!PhyDatarate(rx.datarate),
                          RU864!Phy!PreambleLen(rx.datarate), rx.timeout, ~fsk, rx.rxContinuous)
  <2>1. RU864!RxConfig(p, rx) =
           RU864!Phy!WithMaxPayload(RU864!Phy!WithFrequency(config, f), max)
    BY SMT DEF RU864!RxConfig, RU864!Phy!RxConfig
  <2> HIDE DEF config, max
  <2>2. RegionRxConfig(r, p, rx) = RU864!RxConfig(p, rx)
    BY SMT, <1>9 DEF RegionRxConfig
  <2>3. RU864!Phy!WithFrequency(config, f) = WithFrequency(config, f)
    BY Zenon DEF RU864!Phy!WithFrequency, WithFrequency
  <2>4. \A one : RU864!Phy!WithMaxPayload(one, max) = WithMaxPayload(one, max)
    BY Zenon DEF RU864!Phy!WithMaxPayload, WithMaxPayload
  <2>5. Window1Frequency(r, p, rx.channel) = RU864!Plan!Rx1Frequency(p, rx.channel)
    BY SMT, <1>9 DEF Window1Frequency, RU864!Plan!Rx1Frequency
  <2>6. WithMaxPayload(WithFrequency(config, f), max).frequency = f
    BY WithFrequencyIs
  <2> QED BY <2>1, <2>2, <2>3, <2>4, <2>5, <2>6, Zenon
<1>10. CASE r = "US915"
  <2> DEFINE f == IF rx.rxSlot = "WIN_1" THEN US915!Plan!Rx1Frequency(p, rx.channel)
                  ELSE rx.frequency
             max == US915!MaxPayloadOfDatarate[rx.datarate] + US915!Phy!PayloadOverhead
             fsk == US915!Phy!Modem(rx.datarate) = "FSK"
             config == US915!Phy!SetRxConfig(US915!Phy!Modem(rx.datarate),
                          IF fsk THEN 50000
                          ELSE rx.bandwidth, US915!Phy!PhyDatarate(rx.datarate),
                          US915!Phy!PreambleLen(rx.datarate), rx.timeout, ~fsk, rx.rxContinuous)
  <2>1. US915!RxConfig(p, rx) =
           US915!Phy!WithMaxPayload(US915!Phy!WithFrequency(config, f), max)
    BY SMT DEF US915!RxConfig, US915!Phy!RxConfig
  <2> HIDE DEF config, max
  <2>2. RegionRxConfig(r, p, rx) = US915!RxConfig(p, rx)
    BY SMT, <1>10 DEF RegionRxConfig
  <2>3. US915!Phy!WithFrequency(config, f) = WithFrequency(config, f)
    BY Zenon DEF US915!Phy!WithFrequency, WithFrequency
  <2>4. \A one : US915!Phy!WithMaxPayload(one, max) = WithMaxPayload(one, max)
    BY Zenon DEF US915!Phy!WithMaxPayload, WithMaxPayload
  <2>5. Window1Frequency(r, p, rx.channel) = US915!Plan!Rx1Frequency(p, rx.channel)
    BY SMT, <1>10 DEF Window1Frequency, US915!Plan!Rx1Frequency, US915!FirstRx1Channel,
       US915!NbRx1Channels, US915!StepwidthRx1Channel
  <2>6. WithMaxPayload(WithFrequency(config, f), max).frequency = f
    BY WithFrequencyIs
  <2> QED BY <2>1, <2>2, <2>3, <2>4, <2>5, <2>6, Zenon
<1> QED
  BY <1>1, <1>2, <1>3, <1>4, <1>5, <1>6, <1>7, <1>8, <1>9, <1>10 DEF Names

-----------------------------------------------------------------------------
(* The modulation of the data rates of a region, as its tables give it.     *)
Fsk(r, dr) == dr = 7 /\ r \in ListNames \ {"KR920"}
Spreading(r, dr) ==
    IF r = "US915" /\ dr < 4 THEN 10 - dr
    ELSE IF r \in {"AU915", "US915"} /\ dr >= 8 THEN 20 - dr
    ELSE IF r \in {"AU915", "US915"} /\ dr = WideDr(r) THEN 8
    ELSE IF dr = 6 THEN 7 ELSE 12 - dr
BandwidthOf(r, dr) ==
    IF r \in {"AU915", "US915"} THEN IF dr >= 8 \/ dr = WideDr(r) THEN 2 ELSE 0
    ELSE IF dr = 6 THEN 1 ELSE 0
SymbolTime(r, dr) ==
    IF Fsk(r, dr) THEN 160
    ELSE SymbolTimeLoRaUs(Spreading(r, dr), BandwidthInHz(BandwidthOf(r, dr)))

(* ComputeRxWindowParameters of every region comes down to one formula.    *)
LEMMA WindowIs ==
    ASSUME NEW r \in Names, NEW dr \in RxDrs(r), NEW n, NEW e
    PROVE  LET timeout == WindowTimeout(SymbolTime(r, dr), n, e)
           IN  RegionComputeRxWindowParameters(r, dr, n, e) =
                  [datarate |-> dr, bandwidth |-> BandwidthOf(r, dr), timeout |-> timeout,
                   offset |-> WindowOffsetMs(SymbolTime(r, dr), timeout)]
<1>1. CASE r = "AS923"
  <2>1. dr \in 0..7
    BY SMT, <1>1 DEF RxDrs
  <2>2. /\ Spreading(r, dr) = (IF dr = 6 THEN 7 ELSE 12 - dr)
        /\ BandwidthOf(r, dr) = (IF dr = 6 THEN 1 ELSE 0)
        /\ Fsk(r, dr) <=> dr = 7
    BY <1>1, <2>1, SMT DEF Spreading, BandwidthOf, WideDr, Fsk, ListNames
  <2>3. /\ AS923!Phy!GetBandwidth(dr, AS923!Bandwidths) = BandwidthOf(r, dr)
        /\ ~Fsk(r, dr) => AS923!Bandwidths[dr] = BandwidthInHz(BandwidthOf(r, dr))
    <3>1. AS923!Bandwidths[dr] = (IF dr = 7 THEN 0 ELSE IF dr = 6 THEN 250000 ELSE 125000)
      BY <2>1, SMT DEF AS923!Bandwidths, AS923!Table
    <3> QED BY SMT, <2>1, <2>2, <3>1 DEF AS923!Phy!GetBandwidth, BandwidthInHz
  <2>4. /\ Fsk(r, dr) => AS923!Datarates[dr] = 50
        /\ ~Fsk(r, dr) => AS923!Datarates[dr] = Spreading(r, dr) /\ AS923!Datarates[dr] # 50
    <3>1. AS923!Datarates[dr] = (IF dr = 7 THEN 50 ELSE IF dr = 6 THEN 7 ELSE 12 - dr)
      BY <2>1, SMT DEF AS923!Datarates, AS923!Table
    <3> QED BY <2>1, <2>2, <3>1, SMT
  <2>5. \A a, b : AS923!Phy!SymbolTimeLoRaUs(a, b) = SymbolTimeLoRaUs(a, b)
    BY Zenon DEF AS923!Phy!SymbolTimeLoRaUs, SymbolTimeLoRaUs
  <2>6. SymbolTime(r, dr) = AS923!Phy!SymbolTimeUs(dr)
    <3>1. CASE Fsk(r, dr)
      BY <2>4, <3>1, SMT DEF SymbolTime, AS923!Phy!SymbolTimeUs, AS923!Phy!SymbolTimeFskUs,
         AS923!Phy!Modem
    <3>2. CASE ~Fsk(r, dr)
      BY <2>3, <2>4, <2>5, <3>2, Zenon DEF SymbolTime, AS923!Phy!SymbolTimeUs, AS923!Phy!Modem
    <3> QED BY <3>1, <3>2
  <2>7. AS923!Phy!Least(dr, AS923!MaxRxDr) = dr
    BY <2>1, SMT DEF AS923!Phy!Least, AS923!MaxRxDr
  <2>8. \A T : /\ AS923!Phy!WindowTimeout(T, n, e) = WindowTimeout(T, n, e)
               /\ \A t : AS923!Phy!WindowOffsetMs(T, t) = WindowOffsetMs(T, t)
    <3>1. \A a, b : /\ AS923!Phy!DivCeil(a, b) = DivCeil(a, b)
                    /\ AS923!Phy!Most(a, b) = Most(a, b)
      BY Zenon DEF AS923!Phy!DivCeil, AS923!Phy!Most, DivCeil, Most
    <3>2. AS923!Phy!WakeupTimeMs = WakeupTimeMs
      BY DEF AS923!Phy!WakeupTimeMs, WakeupTimeMs
    <3>3. ASSUME NEW T PROVE AS923!Phy!WindowTimeout(T, n, e) = WindowTimeout(T, n, e)
      BY <3>1, SMT DEF AS923!Phy!WindowTimeout, WindowTimeout
    <3>4. ASSUME NEW T, NEW t PROVE AS923!Phy!WindowOffsetMs(T, t) = WindowOffsetMs(T, t)
      BY <3>1, <3>2, SMT DEF AS923!Phy!WindowOffsetMs, WindowOffsetMs
    <3> QED BY <3>3, <3>4
  <2>9. RegionComputeRxWindowParameters(r, dr, n, e) =
           AS923!Phy!ComputeRxWindowParameters(dr, n, e)
    BY SMT, <1>1 DEF RegionComputeRxWindowParameters, AS923!ComputeRxWindowParameters
  <2> DEFINE T == AS923!Phy!SymbolTimeUs(dr)
             window == AS923!Phy!WindowParameters(T, n, e)
  <2>10. /\ window.timeout = AS923!Phy!WindowTimeout(T, n, e)
         /\ window.offset = AS923!Phy!WindowOffsetMs(T, AS923!Phy!WindowTimeout(T, n, e))
    BY SMT DEF AS923!Phy!WindowParameters
  <2>11. AS923!Phy!ComputeRxWindowParameters(dr, n, e) =
            [datarate |-> dr, bandwidth |-> BandwidthOf(r, dr), timeout |-> window.timeout,
             offset |-> window.offset]
    BY <2>3, <2>7, Zenon DEF AS923!Phy!ComputeRxWindowParameters
  <2> QED BY <2>6, <2>8, <2>9, <2>10, <2>11, Zenon
<1>2. CASE r = "AU915"
  <2>1. dr \in 8..13
    BY SMT, <1>2 DEF RxDrs
  <2>2. /\ Spreading(r, dr) = 20 - dr /\ BandwidthOf(r, dr) = 2
        /\ Fsk(r, dr) <=> FALSE
    BY <1>2, <2>1, SMT DEF Spreading, BandwidthOf, WideDr, Fsk, ListNames
  <2>3. /\ AU915!Phy!GetBandwidth(dr, AU915!Bandwidths) = BandwidthOf(r, dr)
        /\ ~Fsk(r, dr) => AU915!Bandwidths[dr] = BandwidthInHz(BandwidthOf(r, dr))
    <3>1. AU915!Bandwidths[dr] = 500000
      BY <2>1, SMT DEF AU915!Bandwidths, AU915!Table
    <3> QED BY SMT, <2>1, <2>2, <3>1 DEF AU915!Phy!GetBandwidth, BandwidthInHz
  <2>4. /\ Fsk(r, dr) => AU915!Datarates[dr] = 50
        /\ ~Fsk(r, dr) => AU915!Datarates[dr] = Spreading(r, dr) /\ AU915!Datarates[dr] # 50
    <3>1. AU915!Datarates[dr] = 20 - dr
      BY <2>1, SMT DEF AU915!Datarates, AU915!Table
    <3> QED BY <2>1, <2>2, <3>1, SMT
  <2>5. \A a, b : AU915!Phy!SymbolTimeLoRaUs(a, b) = SymbolTimeLoRaUs(a, b)
    BY Zenon DEF AU915!Phy!SymbolTimeLoRaUs, SymbolTimeLoRaUs
  <2>6. SymbolTime(r, dr) = AU915!Phy!SymbolTimeUs(dr)
    <3>1. CASE Fsk(r, dr)
      BY <2>4, <3>1, SMT DEF SymbolTime, AU915!Phy!SymbolTimeUs, AU915!Phy!SymbolTimeFskUs,
         AU915!Phy!Modem
    <3>2. CASE ~Fsk(r, dr)
      BY <2>3, <2>4, <2>5, <3>2, Zenon DEF SymbolTime, AU915!Phy!SymbolTimeUs, AU915!Phy!Modem
    <3> QED BY <3>1, <3>2
  <2>7. AU915!Phy!Least(dr, AU915!MaxRxDr) = dr
    BY <2>1, SMT DEF AU915!Phy!Least, AU915!MaxRxDr
  <2>8. \A T : /\ AU915!Phy!WindowTimeout(T, n, e) = WindowTimeout(T, n, e)
               /\ \A t : AU915!Phy!WindowOffsetMs(T, t) = WindowOffsetMs(T, t)
    <3>1. \A a, b : /\ AU915!Phy!DivCeil(a, b) = DivCeil(a, b)
                    /\ AU915!Phy!Most(a, b) = Most(a, b)
      BY Zenon DEF AU915!Phy!DivCeil, AU915!Phy!Most, DivCeil, Most
    <3>2. AU915!Phy!WakeupTimeMs = WakeupTimeMs
      BY DEF AU915!Phy!WakeupTimeMs, WakeupTimeMs
    <3>3. ASSUME NEW T PROVE AU915!Phy!WindowTimeout(T, n, e) = WindowTimeout(T, n, e)
      BY <3>1, SMT DEF AU915!Phy!WindowTimeout, WindowTimeout
    <3>4. ASSUME NEW T, NEW t PROVE AU915!Phy!WindowOffsetMs(T, t) = WindowOffsetMs(T, t)
      BY <3>1, <3>2, SMT DEF AU915!Phy!WindowOffsetMs, WindowOffsetMs
    <3> QED BY <3>3, <3>4
  <2>9. RegionComputeRxWindowParameters(r, dr, n, e) =
           AU915!Phy!ComputeRxWindowParameters(dr, n, e)
    BY SMT, <1>2 DEF RegionComputeRxWindowParameters, AU915!ComputeRxWindowParameters
  <2> DEFINE T == AU915!Phy!SymbolTimeUs(dr)
             window == AU915!Phy!WindowParameters(T, n, e)
  <2>10. /\ window.timeout = AU915!Phy!WindowTimeout(T, n, e)
         /\ window.offset = AU915!Phy!WindowOffsetMs(T, AU915!Phy!WindowTimeout(T, n, e))
    BY SMT DEF AU915!Phy!WindowParameters
  <2>11. AU915!Phy!ComputeRxWindowParameters(dr, n, e) =
            [datarate |-> dr, bandwidth |-> BandwidthOf(r, dr), timeout |-> window.timeout,
             offset |-> window.offset]
    BY <2>3, <2>7, Zenon DEF AU915!Phy!ComputeRxWindowParameters
  <2> QED BY <2>6, <2>8, <2>9, <2>10, <2>11, Zenon
<1>3. CASE r = "CN470"
  <2>1. dr \in 0..5
    BY SMT, <1>3 DEF RxDrs
  <2>2. /\ Spreading(r, dr) = 12 - dr /\ BandwidthOf(r, dr) = 0
        /\ Fsk(r, dr) <=> FALSE
    BY <1>3, <2>1, SMT DEF Spreading, BandwidthOf, WideDr, Fsk, ListNames
  <2>3. /\ CN470!Phy!GetBandwidth(dr, CN470!Bandwidths) = BandwidthOf(r, dr)
        /\ ~Fsk(r, dr) => CN470!Bandwidths[dr] = BandwidthInHz(BandwidthOf(r, dr))
    <3>1. CN470!Bandwidths[dr] = 125000
      BY <2>1, SMT DEF CN470!Bandwidths, CN470!Table
    <3> QED BY SMT, <2>1, <2>2, <3>1 DEF CN470!Phy!GetBandwidth, BandwidthInHz
  <2>4. /\ Fsk(r, dr) => CN470!Datarates[dr] = 50
        /\ ~Fsk(r, dr) => CN470!Datarates[dr] = Spreading(r, dr) /\ CN470!Datarates[dr] # 50
    <3>1. CN470!Datarates[dr] = 12 - dr
      BY <2>1, SMT DEF CN470!Datarates, CN470!Table
    <3> QED BY <2>1, <2>2, <3>1, SMT
  <2>5. \A a, b : CN470!Phy!SymbolTimeLoRaUs(a, b) = SymbolTimeLoRaUs(a, b)
    BY Zenon DEF CN470!Phy!SymbolTimeLoRaUs, SymbolTimeLoRaUs
  <2>6. SymbolTime(r, dr) = CN470!Phy!SymbolTimeUs(dr)
    <3>1. CASE Fsk(r, dr)
      BY <2>4, <3>1, SMT DEF SymbolTime, CN470!Phy!SymbolTimeUs, CN470!Phy!SymbolTimeFskUs,
         CN470!Phy!Modem
    <3>2. CASE ~Fsk(r, dr)
      BY <2>3, <2>4, <2>5, <3>2, Zenon DEF SymbolTime, CN470!Phy!SymbolTimeUs, CN470!Phy!Modem
    <3> QED BY <3>1, <3>2
  <2>7. CN470!Phy!Least(dr, CN470!MaxRxDr) = dr
    BY <2>1, SMT DEF CN470!Phy!Least, CN470!MaxRxDr
  <2>8. \A T : /\ CN470!Phy!WindowTimeout(T, n, e) = WindowTimeout(T, n, e)
               /\ \A t : CN470!Phy!WindowOffsetMs(T, t) = WindowOffsetMs(T, t)
    <3>1. \A a, b : /\ CN470!Phy!DivCeil(a, b) = DivCeil(a, b)
                    /\ CN470!Phy!Most(a, b) = Most(a, b)
      BY Zenon DEF CN470!Phy!DivCeil, CN470!Phy!Most, DivCeil, Most
    <3>2. CN470!Phy!WakeupTimeMs = WakeupTimeMs
      BY DEF CN470!Phy!WakeupTimeMs, WakeupTimeMs
    <3>3. ASSUME NEW T PROVE CN470!Phy!WindowTimeout(T, n, e) = WindowTimeout(T, n, e)
      BY <3>1, SMT DEF CN470!Phy!WindowTimeout, WindowTimeout
    <3>4. ASSUME NEW T, NEW t PROVE CN470!Phy!WindowOffsetMs(T, t) = WindowOffsetMs(T, t)
      BY <3>1, <3>2, SMT DEF CN470!Phy!WindowOffsetMs, WindowOffsetMs
    <3> QED BY <3>3, <3>4
  <2>9. RegionComputeRxWindowParameters(r, dr, n, e) =
           CN470!Phy!ComputeRxWindowParameters(dr, n, e)
    BY SMT, <1>3 DEF RegionComputeRxWindowParameters, CN470!ComputeRxWindowParameters
  <2> DEFINE T == CN470!Phy!SymbolTimeUs(dr)
             window == CN470!Phy!WindowParameters(T, n, e)
  <2>10. /\ window.timeout = CN470!Phy!WindowTimeout(T, n, e)
         /\ window.offset = CN470!Phy!WindowOffsetMs(T, CN470!Phy!WindowTimeout(T, n, e))
    BY SMT DEF CN470!Phy!WindowParameters
  <2>11. CN470!Phy!ComputeRxWindowParameters(dr, n, e) =
            [datarate |-> dr, bandwidth |-> BandwidthOf(r, dr), timeout |-> window.timeout,
             offset |-> window.offset]
    BY <2>3, <2>7, Zenon DEF CN470!Phy!ComputeRxWindowParameters
  <2> QED BY <2>6, <2>8, <2>9, <2>10, <2>11, Zenon
<1>4. CASE r = "CN779"
  <2>1. dr \in 0..7
    BY SMT, <1>4 DEF RxDrs
  <2>2. /\ Spreading(r, dr) = (IF dr = 6 THEN 7 ELSE 12 - dr)
        /\ BandwidthOf(r, dr) = (IF dr = 6 THEN 1 ELSE 0)
        /\ Fsk(r, dr) <=> dr = 7
    BY <1>4, <2>1, SMT DEF Spreading, BandwidthOf, WideDr, Fsk, ListNames
  <2>3. /\ CN779!Phy!GetBandwidth(dr, CN779!Bandwidths) = BandwidthOf(r, dr)
        /\ ~Fsk(r, dr) => CN779!Bandwidths[dr] = BandwidthInHz(BandwidthOf(r, dr))
    <3>1. CN779!Bandwidths[dr] = (IF dr = 7 THEN 0 ELSE IF dr = 6 THEN 250000 ELSE 125000)
      BY <2>1, SMT DEF CN779!Bandwidths, CN779!Table
    <3> QED BY SMT, <2>1, <2>2, <3>1 DEF CN779!Phy!GetBandwidth, BandwidthInHz
  <2>4. /\ Fsk(r, dr) => CN779!Datarates[dr] = 50
        /\ ~Fsk(r, dr) => CN779!Datarates[dr] = Spreading(r, dr) /\ CN779!Datarates[dr] # 50
    <3>1. CN779!Datarates[dr] = (IF dr = 7 THEN 50 ELSE IF dr = 6 THEN 7 ELSE 12 - dr)
      BY <2>1, SMT DEF CN779!Datarates, CN779!Table
    <3> QED BY <2>1, <2>2, <3>1, SMT
  <2>5. \A a, b : CN779!Phy!SymbolTimeLoRaUs(a, b) = SymbolTimeLoRaUs(a, b)
    BY Zenon DEF CN779!Phy!SymbolTimeLoRaUs, SymbolTimeLoRaUs
  <2>6. SymbolTime(r, dr) = CN779!Phy!SymbolTimeUs(dr)
    <3>1. CASE Fsk(r, dr)
      BY <2>4, <3>1, SMT DEF SymbolTime, CN779!Phy!SymbolTimeUs, CN779!Phy!SymbolTimeFskUs,
         CN779!Phy!Modem
    <3>2. CASE ~Fsk(r, dr)
      BY <2>3, <2>4, <2>5, <3>2, Zenon DEF SymbolTime, CN779!Phy!SymbolTimeUs, CN779!Phy!Modem
    <3> QED BY <3>1, <3>2
  <2>7. CN779!Phy!Least(dr, CN779!MaxRxDr) = dr
    BY <2>1, SMT DEF CN779!Phy!Least, CN779!MaxRxDr
  <2>8. \A T : /\ CN779!Phy!WindowTimeout(T, n, e) = WindowTimeout(T, n, e)
               /\ \A t : CN779!Phy!WindowOffsetMs(T, t) = WindowOffsetMs(T, t)
    <3>1. \A a, b : /\ CN779!Phy!DivCeil(a, b) = DivCeil(a, b)
                    /\ CN779!Phy!Most(a, b) = Most(a, b)
      BY Zenon DEF CN779!Phy!DivCeil, CN779!Phy!Most, DivCeil, Most
    <3>2. CN779!Phy!WakeupTimeMs = WakeupTimeMs
      BY DEF CN779!Phy!WakeupTimeMs, WakeupTimeMs
    <3>3. ASSUME NEW T PROVE CN779!Phy!WindowTimeout(T, n, e) = WindowTimeout(T, n, e)
      BY <3>1, SMT DEF CN779!Phy!WindowTimeout, WindowTimeout
    <3>4. ASSUME NEW T, NEW t PROVE CN779!Phy!WindowOffsetMs(T, t) = WindowOffsetMs(T, t)
      BY <3>1, <3>2, SMT DEF CN779!Phy!WindowOffsetMs, WindowOffsetMs
    <3> QED BY <3>3, <3>4
  <2>9. RegionComputeRxWindowParameters(r, dr, n, e) =
           CN779!Phy!ComputeRxWindowParameters(dr, n, e)
    BY SMT, <1>4 DEF RegionComputeRxWindowParameters, CN779!ComputeRxWindowParameters
  <2> DEFINE T == CN779!Phy!SymbolTimeUs(dr)
             window == CN779!Phy!WindowParameters(T, n, e)
  <2>10. /\ window.timeout = CN779!Phy!WindowTimeout(T, n, e)
         /\ window.offset = CN779!Phy!WindowOffsetMs(T, CN779!Phy!WindowTimeout(T, n, e))
    BY SMT DEF CN779!Phy!WindowParameters
  <2>11. CN779!Phy!ComputeRxWindowParameters(dr, n, e) =
            [datarate |-> dr, bandwidth |-> BandwidthOf(r, dr), timeout |-> window.timeout,
             offset |-> window.offset]
    BY <2>3, <2>7, Zenon DEF CN779!Phy!ComputeRxWindowParameters
  <2> QED BY <2>6, <2>8, <2>9, <2>10, <2>11, Zenon
<1>5. CASE r = "EU433"
  <2>1. dr \in 0..7
    BY SMT, <1>5 DEF RxDrs
  <2>2. /\ Spreading(r, dr) = (IF dr = 6 THEN 7 ELSE 12 - dr)
        /\ BandwidthOf(r, dr) = (IF dr = 6 THEN 1 ELSE 0)
        /\ Fsk(r, dr) <=> dr = 7
    BY <1>5, <2>1, SMT DEF Spreading, BandwidthOf, WideDr, Fsk, ListNames
  <2>3. /\ EU433!Phy!GetBandwidth(dr, EU433!Bandwidths) = BandwidthOf(r, dr)
        /\ ~Fsk(r, dr) => EU433!Bandwidths[dr] = BandwidthInHz(BandwidthOf(r, dr))
    <3>1. EU433!Bandwidths[dr] = (IF dr = 7 THEN 0 ELSE IF dr = 6 THEN 250000 ELSE 125000)
      BY <2>1, SMT DEF EU433!Bandwidths, EU433!Table
    <3> QED BY SMT, <2>1, <2>2, <3>1 DEF EU433!Phy!GetBandwidth, BandwidthInHz
  <2>4. /\ Fsk(r, dr) => EU433!Datarates[dr] = 50
        /\ ~Fsk(r, dr) => EU433!Datarates[dr] = Spreading(r, dr) /\ EU433!Datarates[dr] # 50
    <3>1. EU433!Datarates[dr] = (IF dr = 7 THEN 50 ELSE IF dr = 6 THEN 7 ELSE 12 - dr)
      BY <2>1, SMT DEF EU433!Datarates, EU433!Table
    <3> QED BY <2>1, <2>2, <3>1, SMT
  <2>5. \A a, b : EU433!Phy!SymbolTimeLoRaUs(a, b) = SymbolTimeLoRaUs(a, b)
    BY Zenon DEF EU433!Phy!SymbolTimeLoRaUs, SymbolTimeLoRaUs
  <2>6. SymbolTime(r, dr) = EU433!Phy!SymbolTimeUs(dr)
    <3>1. CASE Fsk(r, dr)
      BY <2>4, <3>1, SMT DEF SymbolTime, EU433!Phy!SymbolTimeUs, EU433!Phy!SymbolTimeFskUs,
         EU433!Phy!Modem
    <3>2. CASE ~Fsk(r, dr)
      BY <2>3, <2>4, <2>5, <3>2, Zenon DEF SymbolTime, EU433!Phy!SymbolTimeUs, EU433!Phy!Modem
    <3> QED BY <3>1, <3>2
  <2>7. EU433!Phy!Least(dr, EU433!MaxRxDr) = dr
    BY <2>1, SMT DEF EU433!Phy!Least, EU433!MaxRxDr
  <2>8. \A T : /\ EU433!Phy!WindowTimeout(T, n, e) = WindowTimeout(T, n, e)
               /\ \A t : EU433!Phy!WindowOffsetMs(T, t) = WindowOffsetMs(T, t)
    <3>1. \A a, b : /\ EU433!Phy!DivCeil(a, b) = DivCeil(a, b)
                    /\ EU433!Phy!Most(a, b) = Most(a, b)
      BY Zenon DEF EU433!Phy!DivCeil, EU433!Phy!Most, DivCeil, Most
    <3>2. EU433!Phy!WakeupTimeMs = WakeupTimeMs
      BY DEF EU433!Phy!WakeupTimeMs, WakeupTimeMs
    <3>3. ASSUME NEW T PROVE EU433!Phy!WindowTimeout(T, n, e) = WindowTimeout(T, n, e)
      BY <3>1, SMT DEF EU433!Phy!WindowTimeout, WindowTimeout
    <3>4. ASSUME NEW T, NEW t PROVE EU433!Phy!WindowOffsetMs(T, t) = WindowOffsetMs(T, t)
      BY <3>1, <3>2, SMT DEF EU433!Phy!WindowOffsetMs, WindowOffsetMs
    <3> QED BY <3>3, <3>4
  <2>9. RegionComputeRxWindowParameters(r, dr, n, e) =
           EU433!Phy!ComputeRxWindowParameters(dr, n, e)
    BY SMT, <1>5 DEF RegionComputeRxWindowParameters, EU433!ComputeRxWindowParameters
  <2> DEFINE T == EU433!Phy!SymbolTimeUs(dr)
             window == EU433!Phy!WindowParameters(T, n, e)
  <2>10. /\ window.timeout = EU433!Phy!WindowTimeout(T, n, e)
         /\ window.offset = EU433!Phy!WindowOffsetMs(T, EU433!Phy!WindowTimeout(T, n, e))
    BY SMT DEF EU433!Phy!WindowParameters
  <2>11. EU433!Phy!ComputeRxWindowParameters(dr, n, e) =
            [datarate |-> dr, bandwidth |-> BandwidthOf(r, dr), timeout |-> window.timeout,
             offset |-> window.offset]
    BY <2>3, <2>7, Zenon DEF EU433!Phy!ComputeRxWindowParameters
  <2> QED BY <2>6, <2>8, <2>9, <2>10, <2>11, Zenon
<1>6. CASE r = "EU868"
  <2>1. dr \in 0..7
    BY SMT, <1>6 DEF RxDrs
  <2>2. /\ Spreading(r, dr) = (IF dr = 6 THEN 7 ELSE 12 - dr)
        /\ BandwidthOf(r, dr) = (IF dr = 6 THEN 1 ELSE 0)
        /\ Fsk(r, dr) <=> dr = 7
    BY <1>6, <2>1, SMT DEF Spreading, BandwidthOf, WideDr, Fsk, ListNames
  <2>3. /\ EU868!Phy!GetBandwidth(dr, EU868!Bandwidths) = BandwidthOf(r, dr)
        /\ ~Fsk(r, dr) => EU868!Bandwidths[dr] = BandwidthInHz(BandwidthOf(r, dr))
    <3>1. EU868!Bandwidths[dr] = (IF dr = 7 THEN 0 ELSE IF dr = 6 THEN 250000 ELSE 125000)
      BY <2>1, SMT DEF EU868!Bandwidths, EU868!Table
    <3> QED BY SMT, <2>1, <2>2, <3>1 DEF EU868!Phy!GetBandwidth, BandwidthInHz
  <2>4. /\ Fsk(r, dr) => EU868!Datarates[dr] = 50
        /\ ~Fsk(r, dr) => EU868!Datarates[dr] = Spreading(r, dr) /\ EU868!Datarates[dr] # 50
    <3>1. EU868!Datarates[dr] = (IF dr = 7 THEN 50 ELSE IF dr = 6 THEN 7 ELSE 12 - dr)
      BY <2>1, SMT DEF EU868!Datarates, EU868!Table
    <3> QED BY <2>1, <2>2, <3>1, SMT
  <2>5. \A a, b : EU868!Phy!SymbolTimeLoRaUs(a, b) = SymbolTimeLoRaUs(a, b)
    BY Zenon DEF EU868!Phy!SymbolTimeLoRaUs, SymbolTimeLoRaUs
  <2>6. SymbolTime(r, dr) = EU868!Phy!SymbolTimeUs(dr)
    <3>1. CASE Fsk(r, dr)
      BY <2>4, <3>1, SMT DEF SymbolTime, EU868!Phy!SymbolTimeUs, EU868!Phy!SymbolTimeFskUs,
         EU868!Phy!Modem
    <3>2. CASE ~Fsk(r, dr)
      BY <2>3, <2>4, <2>5, <3>2, Zenon DEF SymbolTime, EU868!Phy!SymbolTimeUs, EU868!Phy!Modem
    <3> QED BY <3>1, <3>2
  <2>7. EU868!Phy!Least(dr, EU868!MaxRxDr) = dr
    BY <2>1, SMT DEF EU868!Phy!Least, EU868!MaxRxDr
  <2>8. \A T : /\ EU868!Phy!WindowTimeout(T, n, e) = WindowTimeout(T, n, e)
               /\ \A t : EU868!Phy!WindowOffsetMs(T, t) = WindowOffsetMs(T, t)
    <3>1. \A a, b : /\ EU868!Phy!DivCeil(a, b) = DivCeil(a, b)
                    /\ EU868!Phy!Most(a, b) = Most(a, b)
      BY Zenon DEF EU868!Phy!DivCeil, EU868!Phy!Most, DivCeil, Most
    <3>2. EU868!Phy!WakeupTimeMs = WakeupTimeMs
      BY DEF EU868!Phy!WakeupTimeMs, WakeupTimeMs
    <3>3. ASSUME NEW T PROVE EU868!Phy!WindowTimeout(T, n, e) = WindowTimeout(T, n, e)
      BY <3>1, SMT DEF EU868!Phy!WindowTimeout, WindowTimeout
    <3>4. ASSUME NEW T, NEW t PROVE EU868!Phy!WindowOffsetMs(T, t) = WindowOffsetMs(T, t)
      BY <3>1, <3>2, SMT DEF EU868!Phy!WindowOffsetMs, WindowOffsetMs
    <3> QED BY <3>3, <3>4
  <2>9. RegionComputeRxWindowParameters(r, dr, n, e) =
           EU868!Phy!ComputeRxWindowParameters(dr, n, e)
    BY SMT, <1>6 DEF RegionComputeRxWindowParameters, EU868!ComputeRxWindowParameters
  <2> DEFINE T == EU868!Phy!SymbolTimeUs(dr)
             window == EU868!Phy!WindowParameters(T, n, e)
  <2>10. /\ window.timeout = EU868!Phy!WindowTimeout(T, n, e)
         /\ window.offset = EU868!Phy!WindowOffsetMs(T, EU868!Phy!WindowTimeout(T, n, e))
    BY SMT DEF EU868!Phy!WindowParameters
  <2>11. EU868!Phy!ComputeRxWindowParameters(dr, n, e) =
            [datarate |-> dr, bandwidth |-> BandwidthOf(r, dr), timeout |-> window.timeout,
             offset |-> window.offset]
    BY <2>3, <2>7, Zenon DEF EU868!Phy!ComputeRxWindowParameters
  <2> QED BY <2>6, <2>8, <2>9, <2>10, <2>11, Zenon
<1>7. CASE r = "IN865"
  <2>1. dr \in (0..7) \ {6}
    BY SMT, <1>7 DEF RxDrs
  <2>2. /\ Spreading(r, dr) = (IF dr = 6 THEN 7 ELSE 12 - dr)
        /\ BandwidthOf(r, dr) = (IF dr = 6 THEN 1 ELSE 0)
        /\ Fsk(r, dr) <=> dr = 7
    BY <1>7, <2>1, SMT DEF Spreading, BandwidthOf, WideDr, Fsk, ListNames
  <2>3. /\ IN865!Phy!GetBandwidth(dr, IN865!Bandwidths) = BandwidthOf(r, dr)
        /\ ~Fsk(r, dr) => IN865!Bandwidths[dr] = BandwidthInHz(BandwidthOf(r, dr))
    <3>1. IN865!Bandwidths[dr] = (IF dr = 7 THEN 0 ELSE IF dr = 6 THEN 250000 ELSE 125000)
      BY <2>1, SMT DEF IN865!Bandwidths, IN865!Table
    <3> QED BY SMT, <2>1, <2>2, <3>1 DEF IN865!Phy!GetBandwidth, BandwidthInHz
  <2>4. /\ Fsk(r, dr) => IN865!Datarates[dr] = 50
        /\ ~Fsk(r, dr) => IN865!Datarates[dr] = Spreading(r, dr) /\ IN865!Datarates[dr] # 50
    <3>1. IN865!Datarates[dr] = (IF dr = 7 THEN 50 ELSE IF dr = 6 THEN 7 ELSE 12 - dr)
      BY <2>1, SMT DEF IN865!Datarates, IN865!Table
    <3> QED BY <2>1, <2>2, <3>1, SMT
  <2>5. \A a, b : IN865!Phy!SymbolTimeLoRaUs(a, b) = SymbolTimeLoRaUs(a, b)
    BY Zenon DEF IN865!Phy!SymbolTimeLoRaUs, SymbolTimeLoRaUs
  <2>6. SymbolTime(r, dr) = IN865!Phy!SymbolTimeUs(dr)
    <3>1. CASE Fsk(r, dr)
      BY <2>4, <3>1, SMT DEF SymbolTime, IN865!Phy!SymbolTimeUs, IN865!Phy!SymbolTimeFskUs,
         IN865!Phy!Modem
    <3>2. CASE ~Fsk(r, dr)
      BY <2>3, <2>4, <2>5, <3>2, Zenon DEF SymbolTime, IN865!Phy!SymbolTimeUs, IN865!Phy!Modem
    <3> QED BY <3>1, <3>2
  <2>7. IN865!Phy!Least(dr, IN865!MaxRxDr) = dr
    BY <2>1, SMT DEF IN865!Phy!Least, IN865!MaxRxDr
  <2>8. \A T : /\ IN865!Phy!WindowTimeout(T, n, e) = WindowTimeout(T, n, e)
               /\ \A t : IN865!Phy!WindowOffsetMs(T, t) = WindowOffsetMs(T, t)
    <3>1. \A a, b : /\ IN865!Phy!DivCeil(a, b) = DivCeil(a, b)
                    /\ IN865!Phy!Most(a, b) = Most(a, b)
      BY Zenon DEF IN865!Phy!DivCeil, IN865!Phy!Most, DivCeil, Most
    <3>2. IN865!Phy!WakeupTimeMs = WakeupTimeMs
      BY DEF IN865!Phy!WakeupTimeMs, WakeupTimeMs
    <3>3. ASSUME NEW T PROVE IN865!Phy!WindowTimeout(T, n, e) = WindowTimeout(T, n, e)
      BY <3>1, SMT DEF IN865!Phy!WindowTimeout, WindowTimeout
    <3>4. ASSUME NEW T, NEW t PROVE IN865!Phy!WindowOffsetMs(T, t) = WindowOffsetMs(T, t)
      BY <3>1, <3>2, SMT DEF IN865!Phy!WindowOffsetMs, WindowOffsetMs
    <3> QED BY <3>3, <3>4
  <2>9. RegionComputeRxWindowParameters(r, dr, n, e) =
           IN865!Phy!ComputeRxWindowParameters(dr, n, e)
    BY SMT, <1>7 DEF RegionComputeRxWindowParameters, IN865!ComputeRxWindowParameters
  <2> DEFINE T == IN865!Phy!SymbolTimeUs(dr)
             window == IN865!Phy!WindowParameters(T, n, e)
  <2>10. /\ window.timeout = IN865!Phy!WindowTimeout(T, n, e)
         /\ window.offset = IN865!Phy!WindowOffsetMs(T, IN865!Phy!WindowTimeout(T, n, e))
    BY SMT DEF IN865!Phy!WindowParameters
  <2>11. IN865!Phy!ComputeRxWindowParameters(dr, n, e) =
            [datarate |-> dr, bandwidth |-> BandwidthOf(r, dr), timeout |-> window.timeout,
             offset |-> window.offset]
    BY <2>3, <2>7, Zenon DEF IN865!Phy!ComputeRxWindowParameters
  <2> QED BY <2>6, <2>8, <2>9, <2>10, <2>11, Zenon
<1>8. CASE r = "KR920"
  <2>1. dr \in 0..5
    BY SMT, <1>8 DEF RxDrs
  <2>2. /\ Spreading(r, dr) = 12 - dr /\ BandwidthOf(r, dr) = 0
        /\ Fsk(r, dr) <=> FALSE
    BY <1>8, <2>1, SMT DEF Spreading, BandwidthOf, WideDr, Fsk, ListNames
  <2>3. /\ KR920!Phy!GetBandwidth(dr, KR920!Bandwidths) = BandwidthOf(r, dr)
        /\ ~Fsk(r, dr) => KR920!Bandwidths[dr] = BandwidthInHz(BandwidthOf(r, dr))
    <3>1. KR920!Bandwidths[dr] = 125000
      BY <2>1, SMT DEF KR920!Bandwidths, KR920!Table
    <3> QED BY SMT, <2>1, <2>2, <3>1 DEF KR920!Phy!GetBandwidth, BandwidthInHz
  <2>4. /\ Fsk(r, dr) => KR920!Datarates[dr] = 50
        /\ ~Fsk(r, dr) => KR920!Datarates[dr] = Spreading(r, dr) /\ KR920!Datarates[dr] # 50
    <3>1. KR920!Datarates[dr] = 12 - dr
      BY <2>1, SMT DEF KR920!Datarates, KR920!Table
    <3> QED BY <2>1, <2>2, <3>1, SMT
  <2>5. \A a, b : KR920!Phy!SymbolTimeLoRaUs(a, b) = SymbolTimeLoRaUs(a, b)
    BY Zenon DEF KR920!Phy!SymbolTimeLoRaUs, SymbolTimeLoRaUs
  <2>6. SymbolTime(r, dr) = KR920!Phy!SymbolTimeUs(dr)
    <3>1. CASE Fsk(r, dr)
      BY <2>4, <3>1, SMT DEF SymbolTime, KR920!Phy!SymbolTimeUs, KR920!Phy!SymbolTimeFskUs,
         KR920!Phy!Modem
    <3>2. CASE ~Fsk(r, dr)
      BY <2>3, <2>4, <2>5, <3>2, Zenon DEF SymbolTime, KR920!Phy!SymbolTimeUs, KR920!Phy!Modem
    <3> QED BY <3>1, <3>2
  <2>7. KR920!Phy!Least(dr, KR920!MaxRxDr) = dr
    BY <2>1, SMT DEF KR920!Phy!Least, KR920!MaxRxDr
  <2>8. \A T : /\ KR920!Phy!WindowTimeout(T, n, e) = WindowTimeout(T, n, e)
               /\ \A t : KR920!Phy!WindowOffsetMs(T, t) = WindowOffsetMs(T, t)
    <3>1. \A a, b : /\ KR920!Phy!DivCeil(a, b) = DivCeil(a, b)
                    /\ KR920!Phy!Most(a, b) = Most(a, b)
      BY Zenon DEF KR920!Phy!DivCeil, KR920!Phy!Most, DivCeil, Most
    <3>2. KR920!Phy!WakeupTimeMs = WakeupTimeMs
      BY DEF KR920!Phy!WakeupTimeMs, WakeupTimeMs
    <3>3. ASSUME NEW T PROVE KR920!Phy!WindowTimeout(T, n, e) = WindowTimeout(T, n, e)
      BY <3>1, SMT DEF KR920!Phy!WindowTimeout, WindowTimeout
    <3>4. ASSUME NEW T, NEW t PROVE KR920!Phy!WindowOffsetMs(T, t) = WindowOffsetMs(T, t)
      BY <3>1, <3>2, SMT DEF KR920!Phy!WindowOffsetMs, WindowOffsetMs
    <3> QED BY <3>3, <3>4
  <2>9. RegionComputeRxWindowParameters(r, dr, n, e) =
           KR920!Phy!ComputeRxWindowParameters(dr, n, e)
    BY SMT, <1>8 DEF RegionComputeRxWindowParameters, KR920!ComputeRxWindowParameters
  <2> DEFINE T == KR920!Phy!SymbolTimeUs(dr)
             window == KR920!Phy!WindowParameters(T, n, e)
  <2>10. /\ window.timeout = KR920!Phy!WindowTimeout(T, n, e)
         /\ window.offset = KR920!Phy!WindowOffsetMs(T, KR920!Phy!WindowTimeout(T, n, e))
    BY SMT DEF KR920!Phy!WindowParameters
  <2>11. KR920!Phy!ComputeRxWindowParameters(dr, n, e) =
            [datarate |-> dr, bandwidth |-> BandwidthOf(r, dr), timeout |-> window.timeout,
             offset |-> window.offset]
    BY <2>3, <2>7, Zenon DEF KR920!Phy!ComputeRxWindowParameters
  <2> QED BY <2>6, <2>8, <2>9, <2>10, <2>11, Zenon
<1>9. CASE r = "RU864"
  <2>1. dr \in 0..7
    BY SMT, <1>9 DEF RxDrs
  <2>2. /\ Spreading(r, dr) = (IF dr = 6 THEN 7 ELSE 12 - dr)
        /\ BandwidthOf(r, dr) = (IF dr = 6 THEN 1 ELSE 0)
        /\ Fsk(r, dr) <=> dr = 7
    BY <1>9, <2>1, SMT DEF Spreading, BandwidthOf, WideDr, Fsk, ListNames
  <2>3. /\ RU864!Phy!GetBandwidth(dr, RU864!Bandwidths) = BandwidthOf(r, dr)
        /\ ~Fsk(r, dr) => RU864!Bandwidths[dr] = BandwidthInHz(BandwidthOf(r, dr))
    <3>1. RU864!Bandwidths[dr] = (IF dr = 7 THEN 0 ELSE IF dr = 6 THEN 250000 ELSE 125000)
      BY <2>1, SMT DEF RU864!Bandwidths, RU864!Table
    <3> QED BY SMT, <2>1, <2>2, <3>1 DEF RU864!Phy!GetBandwidth, BandwidthInHz
  <2>4. /\ Fsk(r, dr) => RU864!Datarates[dr] = 50
        /\ ~Fsk(r, dr) => RU864!Datarates[dr] = Spreading(r, dr) /\ RU864!Datarates[dr] # 50
    <3>1. RU864!Datarates[dr] = (IF dr = 7 THEN 50 ELSE IF dr = 6 THEN 7 ELSE 12 - dr)
      BY <2>1, SMT DEF RU864!Datarates, RU864!Table
    <3> QED BY <2>1, <2>2, <3>1, SMT
  <2>5. \A a, b : RU864!Phy!SymbolTimeLoRaUs(a, b) = SymbolTimeLoRaUs(a, b)
    BY Zenon DEF RU864!Phy!SymbolTimeLoRaUs, SymbolTimeLoRaUs
  <2>6. SymbolTime(r, dr) = RU864!Phy!SymbolTimeUs(dr)
    <3>1. CASE Fsk(r, dr)
      BY <2>4, <3>1, SMT DEF SymbolTime, RU864!Phy!SymbolTimeUs, RU864!Phy!SymbolTimeFskUs,
         RU864!Phy!Modem
    <3>2. CASE ~Fsk(r, dr)
      BY <2>3, <2>4, <2>5, <3>2, Zenon DEF SymbolTime, RU864!Phy!SymbolTimeUs, RU864!Phy!Modem
    <3> QED BY <3>1, <3>2
  <2>7. RU864!Phy!Least(dr, RU864!MaxRxDr) = dr
    BY <2>1, SMT DEF RU864!Phy!Least, RU864!MaxRxDr
  <2>8. \A T : /\ RU864!Phy!WindowTimeout(T, n, e) = WindowTimeout(T, n, e)
               /\ \A t : RU864!Phy!WindowOffsetMs(T, t) = WindowOffsetMs(T, t)
    <3>1. \A a, b : /\ RU864!Phy!DivCeil(a, b) = DivCeil(a, b)
                    /\ RU864!Phy!Most(a, b) = Most(a, b)
      BY Zenon DEF RU864!Phy!DivCeil, RU864!Phy!Most, DivCeil, Most
    <3>2. RU864!Phy!WakeupTimeMs = WakeupTimeMs
      BY DEF RU864!Phy!WakeupTimeMs, WakeupTimeMs
    <3>3. ASSUME NEW T PROVE RU864!Phy!WindowTimeout(T, n, e) = WindowTimeout(T, n, e)
      BY <3>1, SMT DEF RU864!Phy!WindowTimeout, WindowTimeout
    <3>4. ASSUME NEW T, NEW t PROVE RU864!Phy!WindowOffsetMs(T, t) = WindowOffsetMs(T, t)
      BY <3>1, <3>2, SMT DEF RU864!Phy!WindowOffsetMs, WindowOffsetMs
    <3> QED BY <3>3, <3>4
  <2>9. RegionComputeRxWindowParameters(r, dr, n, e) =
           RU864!Phy!ComputeRxWindowParameters(dr, n, e)
    BY SMT, <1>9 DEF RegionComputeRxWindowParameters, RU864!ComputeRxWindowParameters
  <2> DEFINE T == RU864!Phy!SymbolTimeUs(dr)
             window == RU864!Phy!WindowParameters(T, n, e)
  <2>10. /\ window.timeout = RU864!Phy!WindowTimeout(T, n, e)
         /\ window.offset = RU864!Phy!WindowOffsetMs(T, RU864!Phy!WindowTimeout(T, n, e))
    BY SMT DEF RU864!Phy!WindowParameters
  <2>11. RU864!Phy!ComputeRxWindowParameters(dr, n, e) =
            [datarate |-> dr, bandwidth |-> BandwidthOf(r, dr), timeout |-> window.timeout,
             offset |-> window.offset]
    BY <2>3, <2>7, Zenon DEF RU864!Phy!ComputeRxWindowParameters
  <2> QED BY <2>6, <2>8, <2>9, <2>10, <2>11, Zenon
<1>10. CASE r = "US915"
  <2>1. dr \in 8..13
    BY SMT, <1>10 DEF RxDrs
  <2>2. /\ Spreading(r, dr) = 20 - dr /\ BandwidthOf(r, dr) = 2
        /\ Fsk(r, dr) <=> FALSE
    BY <1>10, <2>1, SMT DEF Spreading, BandwidthOf, WideDr, Fsk, ListNames
  <2>3. /\ US915!Phy!GetBandwidth(dr, US915!Bandwidths) = BandwidthOf(r, dr)
        /\ ~Fsk(r, dr) => US915!Bandwidths[dr] = BandwidthInHz(BandwidthOf(r, dr))
    <3>1. US915!Bandwidths[dr] = 500000
      BY <2>1, SMT DEF US915!Bandwidths, US915!Table
    <3> QED BY SMT, <2>1, <2>2, <3>1 DEF US915!Phy!GetBandwidth, BandwidthInHz
  <2>4. /\ Fsk(r, dr) => US915!Datarates[dr] = 50
        /\ ~Fsk(r, dr) => US915!Datarates[dr] = Spreading(r, dr) /\ US915!Datarates[dr] # 50
    <3>1. US915!Datarates[dr] = 20 - dr
      BY <2>1, SMT DEF US915!Datarates, US915!Table
    <3> QED BY <2>1, <2>2, <3>1, SMT
  <2>5. \A a, b : US915!Phy!SymbolTimeLoRaUs(a, b) = SymbolTimeLoRaUs(a, b)
    BY Zenon DEF US915!Phy!SymbolTimeLoRaUs, SymbolTimeLoRaUs
  <2>6. SymbolTime(r, dr) = US915!Phy!SymbolTimeUs(dr)
    <3>1. CASE Fsk(r, dr)
      BY <2>4, <3>1, SMT DEF SymbolTime, US915!Phy!SymbolTimeUs, US915!Phy!SymbolTimeFskUs,
         US915!Phy!Modem
    <3>2. CASE ~Fsk(r, dr)
      BY <2>3, <2>4, <2>5, <3>2, Zenon DEF SymbolTime, US915!Phy!SymbolTimeUs, US915!Phy!Modem
    <3> QED BY <3>1, <3>2
  <2>7. US915!Phy!Least(dr, US915!MaxRxDr) = dr
    BY <2>1, SMT DEF US915!Phy!Least, US915!MaxRxDr
  <2>8. \A T : /\ US915!Phy!WindowTimeout(T, n, e) = WindowTimeout(T, n, e)
               /\ \A t : US915!Phy!WindowOffsetMs(T, t) = WindowOffsetMs(T, t)
    <3>1. \A a, b : /\ US915!Phy!DivCeil(a, b) = DivCeil(a, b)
                    /\ US915!Phy!Most(a, b) = Most(a, b)
      BY Zenon DEF US915!Phy!DivCeil, US915!Phy!Most, DivCeil, Most
    <3>2. US915!Phy!WakeupTimeMs = WakeupTimeMs
      BY DEF US915!Phy!WakeupTimeMs, WakeupTimeMs
    <3>3. ASSUME NEW T PROVE US915!Phy!WindowTimeout(T, n, e) = WindowTimeout(T, n, e)
      BY <3>1, SMT DEF US915!Phy!WindowTimeout, WindowTimeout
    <3>4. ASSUME NEW T, NEW t PROVE US915!Phy!WindowOffsetMs(T, t) = WindowOffsetMs(T, t)
      BY <3>1, <3>2, SMT DEF US915!Phy!WindowOffsetMs, WindowOffsetMs
    <3> QED BY <3>3, <3>4
  <2>9. RegionComputeRxWindowParameters(r, dr, n, e) =
           US915!Phy!ComputeRxWindowParameters(dr, n, e)
    BY SMT, <1>10 DEF RegionComputeRxWindowParameters, US915!ComputeRxWindowParameters
  <2> DEFINE T == US915!Phy!SymbolTimeUs(dr)
             window == US915!Phy!WindowParameters(T, n, e)
  <2>10. /\ window.timeout = US915!Phy!WindowTimeout(T, n, e)
         /\ window.offset = US915!Phy!WindowOffsetMs(T, US915!Phy!WindowTimeout(T, n, e))
    BY SMT DEF US915!Phy!WindowParameters
  <2>11. US915!Phy!ComputeRxWindowParameters(dr, n, e) =
            [datarate |-> dr, bandwidth |-> BandwidthOf(r, dr), timeout |-> window.timeout,
             offset |-> window.offset]
    BY <2>3, <2>7, Zenon DEF US915!Phy!ComputeRxWindowParameters
  <2> QED BY <2>6, <2>8, <2>9, <2>10, <2>11, Zenon
<1> QED
  BY <1>1, <1>2, <1>3, <1>4, <1>5, <1>6, <1>7, <1>8, <1>9, <1>10 DEF Names

(* The symbols of downlinks last a power of two of microseconds, or        *)
(* 160 us in FSK.                                                          *)
LEMMA SymbolTimes ==
    ASSUME NEW r \in Names, NEW dr \in RxDrs(r)
    PROVE  /\ Fsk(r, dr) => SymbolTime(r, dr) = 160
           /\ ~Fsk(r, dr) => SymbolTime(r, dr) \in {256, 512, 1024, 2048, 4096, 8192, 16384, 32768}
<1>1. CASE Fsk(r, dr)
  BY <1>1 DEF SymbolTime
<1>2. CASE ~Fsk(r, dr) /\ r \in {"AU915", "US915"}
  <2>1. dr \in 8..13
    BY <1>2, SMT DEF RxDrs
  <2>2. SymbolTime(r, dr) = SymbolTimeLoRaUs(20 - dr, BandwidthInHz(2))
    BY <1>2, <2>1, SMT DEF SymbolTime, Spreading, BandwidthOf, WideDr
  <2>3. BandwidthInHz(2) = 500000
    BY SMT DEF BandwidthInHz
  <2>4. /\ SymbolTimeLoRaUs(7, 500000) = 256
        /\ SymbolTimeLoRaUs(8, 500000) = 512
        /\ SymbolTimeLoRaUs(9, 500000) = 1024
        /\ SymbolTimeLoRaUs(10, 500000) = 2048
        /\ SymbolTimeLoRaUs(11, 500000) = 4096
        /\ SymbolTimeLoRaUs(12, 500000) = 8192
    BY SMT DEF SymbolTimeLoRaUs
  <2> QED BY <1>2, <2>1, <2>2, <2>3, <2>4, SMT
<1>3. CASE ~Fsk(r, dr) /\ r \notin {"AU915", "US915"} /\ dr = 6
  <2>1. SymbolTime(r, dr) = SymbolTimeLoRaUs(7, BandwidthInHz(1))
    BY <1>3, SMT DEF SymbolTime, Spreading, BandwidthOf, WideDr
  <2>2. BandwidthInHz(1) = 250000
    BY SMT DEF BandwidthInHz
  <2>3. SymbolTimeLoRaUs(7, 250000) = 512
    BY SMT DEF SymbolTimeLoRaUs
  <2> QED BY <1>3, <2>1, <2>2, <2>3, SMT
<1>4. CASE ~Fsk(r, dr) /\ r \notin {"AU915", "US915"} /\ dr # 6
  <2>1. dr \in 0..5
    BY <1>4, SMT DEF RxDrs, Fsk, ListNames, Names
  <2>2. SymbolTime(r, dr) = SymbolTimeLoRaUs(12 - dr, BandwidthInHz(0))
    BY <1>4, SMT DEF SymbolTime, Spreading, BandwidthOf, WideDr
  <2>3. BandwidthInHz(0) = 125000
    BY SMT DEF BandwidthInHz
  <2>4. /\ SymbolTimeLoRaUs(7, 125000) = 1024
        /\ SymbolTimeLoRaUs(8, 125000) = 2048
        /\ SymbolTimeLoRaUs(9, 125000) = 4096
        /\ SymbolTimeLoRaUs(10, 125000) = 8192
        /\ SymbolTimeLoRaUs(11, 125000) = 16384
        /\ SymbolTimeLoRaUs(12, 125000) = 32768
    BY SMT DEF SymbolTimeLoRaUs
  <2> QED BY <1>4, <2>1, <2>2, <2>3, <2>4, SMT
<1> QED BY <1>1, <1>2, <1>3, <1>4

(* The two directions of a channel agree wherever window 1 was not moved.  *)
LEMMA Mirrors ==
    ASSUME region \in Names, PlanSound(region, nvm), NEW c \in nvm.mask,
           Matching(region, c, frame.datarate),
           region \in ListNames => nvm.channels[c].rx1Frequency = 0
    PROVE  MirrorChannel(UplinkFrequency(region, nvm, c)) = Window1Frequency(region, nvm, c)
<1>1. c \in Ids(region)
  BY DEF PlanSound
<1>2. CASE region \in ListNames
  BY SMT, <1>2 DEF MirrorChannel, UplinkFrequency, Window1Frequency, ListNames
<1>3. CASE region = "CN470"
  <2>1. c \in 0..95
    BY SMT, <1>1, <1>3 DEF Ids
  <2>2. UplinkFrequency(region, nvm, c) = 470300000 + c * 200000
    BY SMT, <1>3 DEF UplinkFrequency, CN470!ChannelFrequency
  <2>3. (470300000 + c * 200000 - 470300000) \div 200000 = c
    BY <2>1, SMT
  <2> QED BY SMT, <1>3, <2>1, <2>2, <2>3 DEF MirrorChannel, Window1Frequency
<1>4. CASE region = "US915"
  <2>1. c \in 0..71 /\ (c >= 64 <=> frame.datarate = 4)
    BY SMT, <1>1, <1>4 DEF Ids, Matching, WideDr
  <2>2. UplinkFrequency(region, nvm, c) =
           IF c < 64 THEN 902300000 + c * 200000 ELSE 903000000 + (c - 64) * 1600000
    BY SMT, <1>4 DEF UplinkFrequency, US915!ChannelFrequency
  <2>3. CASE c < 64
    <3>1. (902300000 + c * 200000 - 902300000) \div 200000 = c
      BY <2>1, SMT
    <3> QED BY SMT, <1>4, <2>1, <2>2, <2>3, <3>1 DEF MirrorChannel, Window1Frequency
  <2>4. CASE c >= 64
    <3>1. (903000000 + (c - 64) * 1600000 - 903000000) \div 1600000 = c - 64
      BY <2>1, SMT
    <3>2. c % 8 = c - 64
      BY <2>1, <2>4, SMT
    <3> QED BY SMT, <1>4, <2>1, <2>2, <2>4, <3>1, <3>2 DEF MirrorChannel, Window1Frequency
  <2> QED BY <2>1, <2>3, <2>4, SMT
<1>5. CASE region = "AU915"
  <2>1. c \in 0..71 /\ (c >= 64 <=> frame.datarate = 6)
    BY SMT, <1>1, <1>5 DEF Ids, Matching, WideDr
  <2>2. UplinkFrequency(region, nvm, c) =
           IF c < 64 THEN 915200000 + c * 200000 ELSE 915900000 + (c - 64) * 1600000
    BY SMT, <1>5 DEF UplinkFrequency, AU915!ChannelFrequency
  <2>3. CASE c < 64
    <3>1. (915200000 + c * 200000 - 915200000) \div 200000 = c
      BY <2>1, SMT
    <3> QED BY SMT, <1>5, <2>1, <2>2, <2>3, <3>1 DEF MirrorChannel, Window1Frequency
  <2>4. CASE c >= 64
    <3>1. (915900000 + (c - 64) * 1600000 - 915900000) \div 1600000 = c - 64
      BY <2>1, SMT
    <3>2. c % 8 = c - 64
      BY <2>1, <2>4, SMT
    <3> QED BY SMT, <1>5, <2>1, <2>2, <2>4, <3>1, <3>2 DEF MirrorChannel, Window1Frequency
  <2> QED BY <2>1, <2>3, <2>4, SMT
<1> QED BY <1>2, <1>3, <1>4, <1>5, Zenon DEF Names, ListNames

(* Window 1 is on a frequency of the region.                               *)
LEMMA Window1Legal ==
    ASSUME NEW r \in Names, NEW p, PlanSound(r, p), NEW c \in p.mask,
           r \in ListNames => p.channels[c].frequency # 0
    PROVE  Legal(r, Window1Frequency(r, p, c))
<1>1. c \in Ids(r)
  BY DEF PlanSound
<1>2. CASE r \in ListNames
  <2>1. ChannelSound(r, p.channels[c])
    BY <1>1, <1>2, Zenon DEF PlanSound
  <2>2. Window1Frequency(r, p, c) = IF p.channels[c].rx1Frequency # 0
                                    THEN p.channels[c].rx1Frequency ELSE p.channels[c].frequency
    BY SMT, <1>2 DEF Window1Frequency, ListNames
  <2> QED BY <1>2, <2>1, <2>2, Zenon DEF ChannelSound
<1>3. CASE r = "AU915"
  <2> DEFINE f == Window1Frequency(r, p, c)
  <2>1. c \in 0..71
    BY SMT, <1>1, <1>3 DEF Ids
  <2>2. f = 923300000 + (c % 8) * 600000 /\ c % 8 \in 0..7
    BY SMT, <1>3, <2>1 DEF Window1Frequency
  <2>3. /\ AU915!FirstRx1Channel = 923300000 /\ AU915!LastRx1Channel = 927500000
        /\ AU915!StepwidthRx1Channel = 600000
    BY SMT DEF AU915!FirstRx1Channel, AU915!LastRx1Channel, AU915!StepwidthRx1Channel
  <2> HIDE DEF f
  <2>4. f \in AU915!FirstRx1Channel..AU915!LastRx1Channel
    <3>1. f \in Int /\ AU915!FirstRx1Channel \in Int /\ AU915!LastRx1Channel \in Int
      BY <2>2, <2>3, SMT
    <3>2. AU915!FirstRx1Channel <= f /\ f <= AU915!LastRx1Channel
      BY <2>2, <2>3, SMT
    <3> QED BY <3>1, <3>2, SMT
  <2>5. (f - AU915!FirstRx1Channel) % AU915!StepwidthRx1Channel = 0
    BY <2>2, <2>3, SMT
  <2>6. AU915!InRange(f, 915200000, 927800000)
    BY <2>2, SMT DEF AU915!InRange
  <2>7. AU915!VerifyRfFreq(f)
    BY <2>4, <2>5, <2>6, SMT DEF AU915!VerifyRfFreq, AU915!Plan!VerifyRxFreq
  <2> QED BY SMT, <1>3, <2>7 DEF Legal, RegionVerify, AU915!Verify, f
<1>4. CASE r = "CN470"
  <2> DEFINE f == Window1Frequency(r, p, c)
  <2>1. c \in 0..95
    BY SMT, <1>1, <1>4 DEF Ids
  <2>2. f = 500300000 + (c % 48) * 200000 /\ c % 48 \in 0..47
    BY SMT, <1>4, <2>1 DEF Window1Frequency
  <2>3. /\ CN470!FirstRx1Channel = 500300000 /\ CN470!LastRx1Channel = 509700000
        /\ CN470!StepwidthRx1Channel = 200000
    BY SMT DEF CN470!FirstRx1Channel, CN470!LastRx1Channel, CN470!StepwidthRx1Channel
  <2> HIDE DEF f
  <2>4. f \in CN470!FirstRx1Channel..CN470!LastRx1Channel
    <3>1. f \in Int /\ CN470!FirstRx1Channel \in Int /\ CN470!LastRx1Channel \in Int
      BY <2>2, <2>3, SMT
    <3>2. CN470!FirstRx1Channel <= f /\ f <= CN470!LastRx1Channel
      BY <2>2, <2>3, SMT
    <3> QED BY <3>1, <3>2, SMT
  <2>5. (f - CN470!FirstRx1Channel) % CN470!StepwidthRx1Channel = 0
    BY <2>2, <2>3, SMT
  <2>6. CN470!InRange(f, 470300000, 509700000)
    BY <2>2, SMT DEF CN470!InRange
  <2>7. CN470!VerifyRfFreq(f)
    BY <2>4, <2>5, <2>6, SMT DEF CN470!VerifyRfFreq, CN470!Plan!VerifyRxFreq
  <2> QED BY SMT, <1>4, <2>7 DEF Legal, RegionVerify, CN470!Verify, f
<1>5. CASE r = "US915"
  <2> DEFINE f == Window1Frequency(r, p, c)
  <2>1. c \in 0..71
    BY SMT, <1>1, <1>5 DEF Ids
  <2>2. f = 923300000 + (c % 8) * 600000 /\ c % 8 \in 0..7
    BY SMT, <1>5, <2>1 DEF Window1Frequency
  <2>3. /\ US915!FirstRx1Channel = 923300000 /\ US915!LastRx1Channel = 927500000
        /\ US915!StepwidthRx1Channel = 600000
    BY SMT DEF US915!FirstRx1Channel, US915!LastRx1Channel, US915!StepwidthRx1Channel
  <2> HIDE DEF f
  <2>4. f \in US915!FirstRx1Channel..US915!LastRx1Channel
    <3>1. f \in Int /\ US915!FirstRx1Channel \in Int /\ US915!LastRx1Channel \in Int
      BY <2>2, <2>3, SMT
    <3>2. US915!FirstRx1Channel <= f /\ f <= US915!LastRx1Channel
      BY <2>2, <2>3, SMT
    <3> QED BY <3>1, <3>2, SMT
  <2>5. (f - US915!FirstRx1Channel) % US915!StepwidthRx1Channel = 0
    BY <2>2, <2>3, SMT
  <2>6. US915!InRange(f, 902300000, 927500000)
    BY <2>2, SMT DEF US915!InRange
  <2>7. US915!VerifyRfFreq(f)
    BY <2>4, <2>5, <2>6, SMT DEF US915!VerifyRfFreq, US915!Plan!VerifyRxFreq
  <2> QED BY SMT, <1>5, <2>7 DEF Legal, RegionVerify, US915!Verify, f
<1> QED BY <1>2, <1>3, <1>4, <1>5, Zenon DEF Names, ListNames

-----------------------------------------------------------------------------
(* What the operations do to the channels, in every region.  Where says    *)
(* what the network has to know of a channel.                              *)
Where(r, p, c) ==
    IF r \in ListNames /\ p.channels[c].rx1Frequency # 0
    THEN {[channel |-> c, frequency |-> p.channels[c].rx1Frequency]} ELSE {}

(* A channel that was not moved needs no entry.                            *)
LEMMA UnmovedWhere ==
    ASSUME NEW r, NEW p, Unmoved(r, p), NEW c \in p.mask
    PROVE  Where(r, p, c) = {}
BY DEF Unmoved, Where

(* A fixed plan stays sound under any mask.                                *)
LEMMA MaskedSound ==
    ASSUME NEW r \in Names \ ListNames, NEW p, p = [mask |-> p.mask], NEW mask,
           mask \subseteq Ids(r)
    PROVE  PlanSound(r, [p EXCEPT !.mask = mask])
<1> DEFINE q == [p EXCEPT !.mask = mask]
<1>1. q = [mask |-> mask]
  BY SMT
<1>2. q.mask = mask
  BY <1>1, SMT
<1> HIDE DEF q
<1>3. q = [mask |-> q.mask] /\ q.mask \subseteq Ids(r)
  BY <1>1, <1>2
<1> QED BY <1>3, Zenon DEF PlanSound, q

(* The plan a region starts with.                                          *)
LEMMA PlanStarts ==
    ASSUME NEW r \in Names
    PROVE  LET p == RegionInitDefaults(r, "DEFAULTS", RegionBlank(r))
           IN  PlanSound(r, p) /\ Unmoved(r, p)
<1>1. CASE r \in ListNames
  BY <1>1, ListInit
<1>2. CASE r \notin ListNames
  <2> DEFINE blank == RegionBlank(r)
  <2>1. blank = [mask |-> {}]
    BY <1>2, FixedPlan
  <2>2. RegionInitDefaults(r, "DEFAULTS", blank) = [blank EXCEPT !.mask = Ids(r)]
    BY <1>2, FixedPlan, Zenon
  <2>3. blank = [mask |-> blank.mask]
    <3> HIDE DEF blank
    <3> QED BY <2>1, SMT
  <2> HIDE DEF blank
  <2>4. PlanSound(r, [blank EXCEPT !.mask = Ids(r)])
    BY <1>2, <2>3, MaskedSound
  <2> QED BY <1>2, <2>2, <2>4, Zenon DEF Unmoved, blank
<1> QED BY <1>1, <1>2

(* A fixed plan is its mask.                                               *)
LEMMA FixedHasMask ==
    ASSUME NEW r \in Names \ ListNames, NEW p, PlanSound(r, p)
    PROVE  p = [mask |-> p.mask] /\ p.mask \subseteq Ids(r)
BY Zenon DEF PlanSound

(* The plan a new session starts with.                                     *)
LEMMA PlanResets ==
    ASSUME NEW r \in Names, NEW p, PlanSound(r, p)
    PROVE  LET q == RegionInitDefaults(r, "RESET_TO_DEFAULT_CHANNELS", p)
           IN  PlanSound(r, q) /\ Unmoved(r, q)
<1>1. CASE r \in ListNames
  BY <1>1, ListReset
<1>2. CASE r \notin ListNames
  <2>1. RegionInitDefaults(r, "RESET_TO_DEFAULT_CHANNELS", p) = [p EXCEPT !.mask = Ids(r)]
    BY <1>2, FixedPlan, Zenon
  <2>2. PlanSound(r, [p EXCEPT !.mask = Ids(r)])
    BY <1>2, FixedHasMask, MaskedSound
  <2> QED BY <1>2, <2>1, <2>2, Zenon DEF Unmoved
<1> QED BY <1>1, <1>2

(* The channels a plan offers for a frame.                                 *)
LEMMA PlanOffers ==
    ASSUME NEW r \in Names, NEW p, PlanSound(r, p), NEW isJoined, NEW dr,
           NEW c \in RegionNextChannel(r, p, isJoined, dr)
    PROVE  /\ c \in p.mask /\ dr \in UplinkDrs(r) /\ Matching(r, c, dr)
           /\ r \in ListNames => p.channels[c].frequency # 0
<1>1. CASE r \in ListNames
  <2>1. Matching(r, c, dr)
    BY <1>1 DEF Matching, ListNames
  <2> QED BY <1>1, <2>1, ListNext
<1>2. CASE r \notin ListNames
  BY <1>2, FixedNext, FixedHasMask
<1> QED BY <1>1, <1>2

(* The plan after the CFList of a join accept.                             *)
LEMMA PlanTakesCFList ==
    ASSUME NEW r \in Names, NEW p, PlanSound(r, p), Unmoved(r, p), NEW cfList
    PROVE  LET q == RegionApplyCFList(r, p, cfList)
           IN  PlanSound(r, q) /\ Unmoved(r, q)
<1>1. CASE r \in ListNames
  BY <1>1, ListCFList
<1>2. CASE r \notin ListNames
  <2>1. RegionApplyCFList(r, p, cfList) = IF cfList.type # 1 THEN p
                                          ELSE [p EXCEPT !.mask = cfList.mask \cap Ids(r)]
    BY <1>2, FixedPlan, Zenon
  <2> DEFINE mask == cfList.mask \cap Ids(r)
  <2>2. mask \subseteq Ids(r)
    OBVIOUS
  <2> HIDE DEF mask
  <2>3. PlanSound(r, [p EXCEPT !.mask = mask])
    BY <1>2, <2>2, FixedHasMask, MaskedSound
  <2> QED BY <1>2, <2>1, <2>3, Zenon DEF Unmoved, mask
<1> QED BY <1>1, <1>2

(* The plan after a NewChannelReq, and what it did to other channels.      *)
LEMMA PlanTakesNewChannel ==
    ASSUME NEW r \in Names, NEW p, PlanSound(r, p), NEW id, NEW new, NewOne(new),
           r \in ListNames => id \in Ids(r)
    PROVE  LET q == RegionNewChannelReq(r, p, id, new).nvm
           IN  /\ PlanSound(r, q)
               /\ \A c \in q.mask : c = id \/ (c \in p.mask /\ Where(r, q, c) = Where(r, p, c))
               /\ q = p \/ Where(r, q, id) = {}
<1> DEFINE q == RegionNewChannelReq(r, p, id, new).nvm
<1>1. CASE r \in ListNames
  <2>1. /\ PlanSound(r, q)
        /\ \A c \in Ids(r) \ {id} : /\ c \in q.mask <=> c \in p.mask
                                    /\ q.channels[c] = p.channels[c]
        /\ q = p \/ q.channels[id].rx1Frequency = 0
    BY <1>1, ListNewChannel
  <2> HIDE DEF q
  <2>2. q.mask \subseteq Ids(r)
    BY <2>1, Zenon DEF PlanSound
  <2>3. \A c \in q.mask : c = id \/ (c \in p.mask /\ Where(r, q, c) = Where(r, p, c))
    BY <2>1, <2>2, Zenon DEF Where
  <2>4. q = p \/ Where(r, q, id) = {}
    BY <2>1, Zenon DEF Where
  <2> QED BY <2>1, <2>3, <2>4 DEF q
<1>2. CASE r \notin ListNames
  <2>1. q = p
    <3>1. RegionNewChannelReq(r, p, id, new) = [answer |-> "none", nvm |-> p]
      BY <1>2, FixedRefuses
    <3> QED BY <3>1, SMT
  <2> HIDE DEF q
  <2> QED BY <2>1 DEF q
<1> QED BY <1>1, <1>2

(* The plan after a DlChannelReq, and what it did to other channels.       *)
LEMMA PlanTakesDlChannel ==
    ASSUME NEW r \in Names, NEW p, PlanSound(r, p), NEW id, NEW f,
           r \in ListNames => id \in Ids(r)
    PROVE  LET result == RegionDlChannelReq(r, p, id, f)
               q == result.nvm
           IN  \/ result.answer \in {"refused", "none"} /\ q = p
               \/ /\ result.answer = "accepted" /\ r \in ListNames
                  /\ PlanSound(r, q) /\ q.mask = p.mask
                  /\ \A c \in q.mask \ {id} : Where(r, q, c) = Where(r, p, c)
                  /\ Where(r, q, id) = {[channel |-> id, frequency |-> f]}
<1> DEFINE result == RegionDlChannelReq(r, p, id, f)
           q == result.nvm
<1>1. CASE r \in ListNames
  <2>1. \/ result.answer = "refused" /\ q = p
        \/ /\ result.answer = "accepted"
           /\ PlanSound(r, q) /\ q.mask = p.mask
           /\ \A c \in Ids(r) \ {id} : q.channels[c] = p.channels[c]
           /\ q.channels[id].rx1Frequency = f /\ f # 0
    BY <1>1, ListDlChannel
  <2> HIDE DEF result
  <2>2. CASE result.answer = "refused" /\ q = p
    BY <2>2 DEF result
  <2>3. CASE /\ result.answer = "accepted"
             /\ PlanSound(r, q) /\ q.mask = p.mask
             /\ \A c \in Ids(r) \ {id} : q.channels[c] = p.channels[c]
             /\ q.channels[id].rx1Frequency = f /\ f # 0
    <3>1. q.mask \subseteq Ids(r)
      BY <2>3, Zenon DEF PlanSound
    <3>2. \A c \in q.mask \ {id} : Where(r, q, c) = Where(r, p, c)
      BY <2>3, <3>1, Zenon DEF Where
    <3>3. Where(r, q, id) = {[channel |-> id, frequency |-> f]}
      BY <1>1, <2>3, Zenon DEF Where
    <3> QED BY <1>1, <2>3, <3>2, <3>3 DEF result
  <2> QED BY <2>1, <2>2, <2>3
<1>2. CASE r \notin ListNames
  <2>1. result = [answer |-> "none", nvm |-> p]
    BY <1>2, FixedRefuses
  <2> HIDE DEF result
  <2>2. result.answer = "none" /\ q = p
    BY <2>1, SMT
  <2> QED BY <2>2 DEF result
<1> QED BY <1>1, <1>2

-----------------------------------------------------------------------------
(* A data rate with downlinks is one the region has for them.              *)
LEMMA RxDrsLegal ==
    ASSUME NEW r \in Names, NEW dr \in RxDrs(r), NEW up
    PROVE  RegionVerify(r, "RX_DR", dr, up, 0)
<1>1. CASE r = "AS923"
  BY SMT, <1>1 DEF RegionVerify, RxDrs, AS923!Verify, AS923!RxDrs
<1>2. CASE r = "AU915"
  BY SMT, <1>2 DEF RegionVerify, RxDrs, AU915!Verify, AU915!RxDrs
<1>3. CASE r = "CN470"
  BY SMT, <1>3 DEF RegionVerify, RxDrs, CN470!Verify, CN470!RxDrs
<1>4. CASE r = "CN779"
  BY SMT, <1>4 DEF RegionVerify, RxDrs, CN779!Verify, CN779!RxDrs
<1>5. CASE r = "EU433"
  BY SMT, <1>5 DEF RegionVerify, RxDrs, EU433!Verify, EU433!RxDrs
<1>6. CASE r = "EU868"
  BY SMT, <1>6 DEF RegionVerify, RxDrs, EU868!Verify, EU868!RxDrs
<1>7. CASE r = "IN865"
  BY SMT, <1>7 DEF RegionVerify, RxDrs, IN865!Verify, IN865!RxDrs
<1>8. CASE r = "KR920"
  BY SMT, <1>8 DEF RegionVerify, RxDrs, KR920!Verify, KR920!RxDrs
<1>9. CASE r = "RU864"
  BY SMT, <1>9 DEF RegionVerify, RxDrs, RU864!Verify, RU864!RxDrs
<1>10. CASE r = "US915"
  BY SMT, <1>10 DEF RegionVerify, RxDrs, US915!Verify, US915!RxDrs
<1> QED
  BY <1>1, <1>2, <1>3, <1>4, <1>5, <1>6, <1>7, <1>8, <1>9, <1>10 DEF Names

-----------------------------------------------------------------------------
(* The inductive invariant.  What is set: the parameters are ones the      *)
(* region allows, and so is the channel plan.                              *)
ParamsSound(r, params) ==
    /\ params = [rx1DrOffset |-> params.rx1DrOffset, rx2Frequency |-> params.rx2Frequency,
                 rx2Datarate |-> params.rx2Datarate,
                 uplinkDwellTime |-> params.uplinkDwellTime,
                 downlinkDwellTime |-> params.downlinkDwellTime, maxEirp |-> params.maxEirp,
                 receiveDelay1 |-> params.receiveDelay1]
    /\ params.rx1DrOffset \in Offsets(r)
    /\ Legal(r, params.rx2Frequency)
    /\ params.rx2Datarate \in RxDrs(r)
    /\ params.uplinkDwellTime \in {0, 1} /\ params.downlinkDwellTime \in {0, 1}
    /\ params.receiveDelay1 \in Int

NodeSound ==
    /\ region \in Regions
    /\ PlanSound(region, nvm)
    /\ ParamsSound(region, macParams)
    /\ joined \in BOOLEAN

(* What the network believes is of the node's state.                       *)
BeliefSound(believed) ==
    believed = [rx1DrOffset |-> believed.rx1DrOffset, rx2Frequency |-> believed.rx2Frequency,
                rx2Datarate |-> believed.rx2Datarate,
                downlinkDwellTime |-> believed.downlinkDwellTime,
                receiveDelay1 |-> believed.receiveDelay1, moved |-> believed.moved]

(* What an accepted command makes of what is believed.                     *)
AdoptedBy(believed, cmd) ==
    CASE cmd.cid = "RX_PARAM_SETUP" ->
            [believed EXCEPT !.rx1DrOffset = cmd.drOffset, !.rx2Frequency = cmd.frequency,
                             !.rx2Datarate = cmd.datarate]
      [] cmd.cid = "RX_TIMING_SETUP" ->
            [believed EXCEPT !.receiveDelay1 = 1000 * Most(cmd.delay, 1)]
      [] cmd.cid = "TX_PARAM_SETUP" ->
            [believed EXCEPT !.downlinkDwellTime = cmd.downlinkDwellTime]
      [] cmd.cid = "DL_CHANNEL" ->
            [believed EXCEPT !.moved = {m \in @ : m.channel # cmd.channel}
                                       \cup {[channel |-> cmd.channel, frequency |-> cmd.frequency]}]
      [] OTHER -> believed

Accepted(cid) == [cid |-> cid, answer |-> "accepted"]

(* What it will believe once it has heard the answers that are queued.     *)
Believed == IF Accepted(asked.cid) \in answers THEN AdoptedBy(net, asked) ELSE net

(* The network's picture of a setup agrees with the setup.                 *)
Agrees(r, params, p, believed) ==
    /\ params.rx1DrOffset = believed.rx1DrOffset
    /\ params.rx2Frequency = believed.rx2Frequency
    /\ params.rx2Datarate = believed.rx2Datarate
    /\ params.downlinkDwellTime = believed.downlinkDwellTime
    /\ params.receiveDelay1 = believed.receiveDelay1
    /\ \A c \in p.mask : {m \in believed.moved : m.channel = c} = Where(r, p, c)

SetupAgreed == joined => Agrees(region, macParams, nvm, Believed)

(* Only commands have answers.                                             *)
AnswersSound == \A a \in answers : a.cid # "none"

(* ComputedWindows of a region.                                            *)
SlotParameters(r, dr) == RegionComputeRxWindowParameters(r, dr, MinRxSymbols, SystemMaxRxError)
Rx1Datarate(r, params, dr) ==
    RegionApplyDrOffset(r, params.downlinkDwellTime, dr, params.rx1DrOffset)
WindowsOf(r, params, isJoined, dr) ==
    LET rx1 == SlotParameters(r, Rx1Datarate(r, params, dr))
        rx2 == SlotParameters(r, params.rx2Datarate)
        delay1 == IF isJoined THEN params.receiveDelay1 ELSE DefaultJoinAcceptDelay1
    IN  [slot \in Slots |->
            IF slot = "WIN_1" THEN [parameters |-> rx1, delay |-> delay1 + rx1.offset]
            ELSE [parameters |-> rx2, delay |-> delay1 + 1000 + rx2.offset]]

(* A frame that runs was drawn from the plan as it is now, and its windows *)
(* were computed from the parameters as they are now; the answers queued   *)
(* are the sticky ones it carries, and if it was heard, none of them is    *)
(* the answer that is awaited.                                             *)
FrameWhole(f) ==
    f = [kind |-> f.kind, channel |-> f.channel, datarate |-> f.datarate, size |-> f.size,
         timeOnAir |-> f.timeOnAir, frequency |-> f.frequency, said |-> f.said,
         trial |-> f.trial, heard |-> f.heard]

FrameDrawn ==
    frame # NoFrame =>
        /\ FrameWhole(frame)
        /\ frame.kind \in {"data", "join"}
        /\ joined <=> frame.kind = "data"
        /\ frame.heard \in BOOLEAN
        /\ frame.channel \in nvm.mask
        /\ frame.datarate \in UplinkDrs(region)
        /\ frame.frequency = UplinkFrequency(region, nvm, frame.channel)
        /\ region \in ListNames => nvm.channels[frame.channel].frequency # 0
        /\ Matching(region, frame.channel, frame.datarate)
        /\ windows = WindowsOf(region, macParams, frame.kind = "data", frame.datarate)

FrameAnswers ==
    frame # NoFrame /\ frame.kind = "data" =>
        /\ answers = {a \in frame.said : Sticky(a.cid)}
        /\ frame.heard => \A a \in answers : a.cid # asked.cid

(* A join request runs with the defaults that StackReset left.             *)
JoinDefaults ==
    frame # NoFrame /\ frame.kind = "join" =>
        /\ Unmoved(region, nvm)
        /\ macParams = MacParamsDefaults(region, macParams.receiveDelay1)

(* The radio is used for the frame that runs, and receives as the windows  *)
(* say.                                                                    *)
ReceptionOf(slot) ==
    [rxSlot |-> slot, channel |-> frame.channel,
     frequency |-> IF slot = "WIN_1" THEN 0 ELSE macParams.rx2Frequency,
     datarate |-> windows[slot].parameters.datarate,
     bandwidth |-> windows[slot].parameters.bandwidth,
     timeout |-> windows[slot].parameters.timeout, rxContinuous |-> FALSE]

RadioSound ==
    /\ frame = NoFrame => radio = Asleep /\ rxTimers = {}
    /\ rxTimers \subseteq Slots
    /\ radio.status = "rx" =>
          rxSlot \in Slots /\ radio.config = RegionRxConfig(region, nvm, ReceptionOf(rxSlot))

(* The whole of it.                                                        *)
IInv ==
    NodeSound /\ BeliefSound(net) /\ SetupAgreed /\ AnswersSound
    /\ FrameDrawn /\ FrameAnswers /\ JoinDefaults /\ RadioSound

-----------------------------------------------------------------------------
(* The steps of the node that start an exchange.                           *)
LEMMA ComputedIs ==
    ASSUME NEW params, NEW isJoined, NEW dr
    PROVE  ComputedWindows(params, isJoined, dr) = WindowsOf(region, params, isJoined, dr)
BY Zenon DEF ComputedWindows, WindowsOf, SlotParameters, Rx1Datarate

(* ScheduleTx: what it makes of the frame.                                 *)
Drawn(channels, params, isJoined, kind, channel, datarate, said) ==
    /\ FrameWhole(frame')
    /\ frame'.kind = kind /\ frame'.channel = channel /\ frame'.datarate = datarate
    /\ frame'.said = said /\ frame'.heard = FALSE
    /\ frame'.frequency = UplinkFrequency(region, channels, channel)
    /\ channel \in channels.mask /\ datarate \in UplinkDrs(region)
    /\ Matching(region, channel, datarate)
    /\ region \in ListNames => channels.channels[channel].frequency # 0
    /\ windows' = WindowsOf(region, params, isJoined, datarate)
    /\ radio'.status = "tx"

(* Scheduling a frame on a sound plan draws it, and computes its windows.  *)
LEMMA Scheduled ==
    ASSUME region \in Names, NEW channels, PlanSound(region, channels), NEW params,
          NEW isJoined,
           NEW kind, NEW channel, NEW datarate, NEW size, NEW said, NEW trial,
           ScheduleTx(channels, params, isJoined, kind, channel, datarate, size, said, trial)
    PROVE  Drawn(channels, params, isJoined, kind, channel, datarate, said)
<1> DEFINE asked1 == [channel |-> channel, datarate |-> datarate, txPower |-> 0,
                      maxEirp |-> params.maxEirp, antennaGain |-> Phy.antennaGain,
                      pktLen |-> size]
           tx == RegionTxConfig(region, channels, asked1)
           on == tx.radio.frequency
           time == tx.timeOnAir
           config == tx.radio
<1>1. /\ channel \in RegionNextChannel(region, channels, isJoined, datarate)
      /\ windows' = ComputedWindows(params, isJoined, datarate)
      /\ radio' = [status |-> "tx", config |-> config]
      /\ frame' = [kind |-> kind, channel |-> channel, datarate |-> datarate, size |-> size,
                   timeOnAir |-> time, frequency |-> on, said |-> said, trial |-> trial,
                   heard |-> FALSE]
  BY Zenon DEF ScheduleTx
<1>2. on = UplinkFrequency(region, channels, channel)
  <2>1. on = UplinkFrequency(region, channels, asked1.channel)
    <3> HIDE DEF asked1
    <3> QED BY SentAt
  <2>2. asked1.channel = channel
    BY SMT
  <2> QED BY <2>1, <2>2, Zenon
<1>3. /\ channel \in channels.mask /\ datarate \in UplinkDrs(region)
      /\ Matching(region, channel, datarate)
      /\ region \in ListNames => channels.channels[channel].frequency # 0
  BY <1>1, PlanOffers
<1>4. windows' = WindowsOf(region, params, isJoined, datarate)
  BY <1>1, ComputedIs
<1> HIDE DEF on, time, config
<1>5. /\ frame'.kind = kind /\ frame'.channel = channel /\ frame'.datarate = datarate
      /\ frame'.said = said /\ frame'.heard = FALSE /\ frame'.frequency = on
      /\ radio'.status = "tx" /\ FrameWhole(frame')
  BY <1>1, SMT DEF FrameWhole
<1> QED BY <1>2, <1>3, <1>4, <1>5, Zenon DEF Drawn

(* A data frame.                                                           *)
LEMMA SendStep ==
    ASSUME IInv, NEW c, NEW dr, Send(c, dr)
    PROVE  IInv'
<1>0. region \in Names /\ PlanSound(region, nvm)
  BY RegionsAssumption DEF IInv, NodeSound
<1> DEFINE kept == {a \in answers : Sticky(a.cid)}
<1>1. /\ frame = NoFrame /\ joined
      /\ answers' = kept
      /\ UNCHANGED <<region, nvm, macParams, joined, rxTimers, rxSlot, net, asked>>
  BY Zenon DEF Send, netVars
<1>2. Drawn(nvm, macParams, TRUE, "data", c, dr, answers)
  <2>1. PICK size : ScheduleTx(nvm, macParams, TRUE, "data", c, dr, size, answers, 1)
    BY Zenon DEF Send
  <2> QED BY <1>0, <2>1, Scheduled
<1>3. frame' # NoFrame
  BY <1>2, SMT DEF Drawn, NoFrame
<1>4. NodeSound' /\ BeliefSound(net)'
  BY <1>1 DEF IInv, NodeSound, BeliefSound
<1>5. SetupAgreed'
  <2>1. Believed' = Believed
    <3>1. CASE Sticky(asked.cid)
      <4>1. Accepted(asked.cid) \in kept <=> Accepted(asked.cid) \in answers
        <5>1. Accepted(asked.cid).cid = asked.cid
          BY DEF Accepted
        <5> QED BY <5>1, <3>1
      <4> QED BY <1>1, <4>1, Zenon DEF Believed
    <3>2. CASE ~Sticky(asked.cid)
      <4>1. AdoptedBy(net, asked) = net
        BY <3>2, SMT DEF AdoptedBy, Sticky
      <4> QED BY <1>1, <4>1, Zenon DEF Believed
    <3> QED BY <3>1, <3>2
  <2> QED BY <1>1, <2>1, Zenon DEF IInv, SetupAgreed
<1>6. AnswersSound'
  BY <1>1 DEF IInv, AnswersSound
<1>7. FrameDrawn'
  BY <1>1, <1>2, <1>3, Zenon DEF FrameDrawn, Drawn
<1>8. FrameAnswers'
  BY <1>1, <1>2, <1>3, Zenon DEF FrameAnswers, Drawn
<1>9. JoinDefaults'
  BY <1>1, <1>2 DEF JoinDefaults, Drawn
<1>10. RadioSound'
  BY <1>1, <1>2, <1>3 DEF IInv, RadioSound, Drawn
<1> QED BY <1>4, <1>5, <1>6, <1>7, <1>8, <1>9, <1>10 DEF IInv

(* A repetition has the answers of the first try with it, and it is not    *)
(* known what became of that.                                              *)
LEMMA RepeatStep ==
    ASSUME IInv, NEW c, Repeat(c)
    PROVE  IInv'
<1>0. region \in Names /\ PlanSound(region, nvm)
  BY RegionsAssumption DEF IInv, NodeSound
<1>1. /\ frame # NoFrame /\ frame.kind = "data"
      /\ UNCHANGED <<region, nvm, macParams, joined, answers, rxTimers, rxSlot, net, asked>>
  BY Zenon DEF Repeat, MacDone, netVars, nodeVars
<1>2. Drawn(nvm, macParams, TRUE, "data", c, frame.datarate, frame.said)
  <2>1. ScheduleTx(nvm, macParams, TRUE, "data", c, frame.datarate, frame.size, frame.said, 2)
    BY Zenon DEF Repeat
  <2> QED BY <1>0, <2>1, Scheduled
<1>3. frame' # NoFrame
  BY <1>2, SMT DEF Drawn, NoFrame
<1>4. NodeSound' /\ BeliefSound(net)'
  BY <1>1 DEF IInv, NodeSound, BeliefSound
<1>5. SetupAgreed'
  BY <1>1 DEF IInv, SetupAgreed, Believed
<1>6. AnswersSound'
  BY <1>1 DEF IInv, AnswersSound
<1>7. FrameDrawn'
  <2>1. joined
    BY <1>1 DEF IInv, FrameDrawn
  <2> QED BY <1>1, <1>2, <1>3, <2>1, Zenon DEF FrameDrawn, Drawn
<1>8. FrameAnswers'
  <2>1. answers = {a \in frame.said : Sticky(a.cid)}
    BY <1>1 DEF IInv, FrameAnswers
  <2> QED BY <1>1, <1>2, <2>1, Zenon DEF FrameAnswers, Drawn
<1>9. JoinDefaults'
  BY <1>1, <1>2 DEF JoinDefaults, Drawn
<1>10. RadioSound'
  BY <1>1, <1>2, <1>3 DEF IInv, RadioSound, Drawn
<1> QED BY <1>4, <1>5, <1>6, <1>7, <1>8, <1>9, <1>10 DEF IInv

(* What the region starts with is allowed.                                 *)
LEMMA ParamsReset ==
    ASSUME NEW r \in Names, NEW delay \in Int
    PROVE  /\ ParamsSound(r, MacParamsDefaults(r, delay))
           /\ MacParamsDefaults(r, delay).receiveDelay1 = delay
<1> DEFINE phy == RegionPhyDefaults(r)
           offset == phy.rx1DrOffset
           f == phy.rx2Frequency
           dr == phy.rx2Datarate
           up == phy.uplinkDwellTime
           down == phy.downlinkDwellTime
           eirp == phy.maxEirp
           params == MacParamsDefaults(r, delay)
<1>1. /\ Legal(r, f) /\ dr \in RxDrs(r) /\ offset = 0 /\ 0 \in Offsets(r)
      /\ up \in {0, 1} /\ down = 0
  BY DefaultsAllowed
<1>2. params = [rx1DrOffset |-> offset, rx2Frequency |-> f, rx2Datarate |-> dr,
                uplinkDwellTime |-> up, downlinkDwellTime |-> down, maxEirp |-> eirp,
                receiveDelay1 |-> delay]
  BY Zenon DEF MacParamsDefaults
<1> HIDE DEF params, offset, f, dr, up, down, eirp
<1>3. /\ params.rx1DrOffset = offset /\ params.rx2Frequency = f /\ params.rx2Datarate = dr
      /\ params.uplinkDwellTime = up /\ params.downlinkDwellTime = down
      /\ params.maxEirp = eirp /\ params.receiveDelay1 = delay
  BY <1>2, SMT
<1>4. ParamsSound(r, params)
  BY <1>1, <1>2, <1>3, Zenon DEF ParamsSound
<1> QED BY <1>3, <1>4 DEF params

(* A join request: the session before it is over.                          *)
LEMMA JoinRequestStep ==
    ASSUME IInv, NEW c, NEW dr, JoinRequest(c, dr)
    PROVE  IInv'
<1>0. region \in Names /\ PlanSound(region, nvm) /\ macParams.receiveDelay1 \in Int
  BY RegionsAssumption DEF IInv, NodeSound, ParamsSound
<1> DEFINE params == MacParamsDefaults(region, macParams.receiveDelay1)
           channels == RegionInitDefaults(region, "RESET_TO_DEFAULT_CHANNELS", nvm)
<1>1. /\ frame = NoFrame /\ macParams' = params /\ nvm' = channels /\ joined' = FALSE
      /\ UNCHANGED <<region, answers, rxTimers, rxSlot, net, asked>>
      /\ ScheduleTx(channels, params, FALSE, "join", c, dr, 23, {}, 1)
  BY Zenon DEF JoinRequest, netVars
<1>2. PlanSound(region, channels) /\ Unmoved(region, channels)
  BY <1>0, PlanResets
<1>3. ParamsSound(region, params) /\ params.receiveDelay1 = macParams.receiveDelay1
  BY <1>0, ParamsReset
<1>4. params = MacParamsDefaults(region, params.receiveDelay1)
  BY <1>3
<1> HIDE DEF params, channels
<1>5. Drawn(channels, params, FALSE, "join", c, dr, {})
  BY <1>0, <1>1, <1>2, Scheduled
<1>6. frame' # NoFrame
  BY <1>5, SMT DEF Drawn, NoFrame
<1>7. NodeSound' /\ BeliefSound(net)'
  BY <1>1, <1>2, <1>3, Zenon DEF IInv, NodeSound, BeliefSound
<1>8. SetupAgreed' /\ AnswersSound'
  BY <1>1 DEF IInv, SetupAgreed, AnswersSound
<1>9. FrameDrawn'
  BY <1>1, <1>5, <1>6, Zenon DEF FrameDrawn, Drawn
<1>10. FrameAnswers'
  BY <1>5 DEF FrameAnswers, Drawn
<1>11. JoinDefaults'
  BY <1>1, <1>2, <1>4, Zenon DEF JoinDefaults
<1>12. RadioSound'
  BY <1>1, <1>5, <1>6 DEF IInv, RadioSound, Drawn
<1> QED BY <1>7, <1>8, <1>9, <1>10, <1>11, <1>12 DEF IInv

(* A lost exchange leaves everything that was agreed.                      *)
LEMMA OverStep ==
    ASSUME IInv, Over
    PROVE  IInv'
<1>1. /\ frame' = NoFrame /\ radio = Asleep /\ rxTimers = {}
      /\ UNCHANGED <<region, nvm, macParams, joined, answers, rxTimers, radio, net, asked>>
  BY Zenon DEF Over, MacDone, nodeVars, netVars
<1>2. radio'.status # "rx"
  BY <1>1 DEF Asleep
<1>3. NodeSound' /\ BeliefSound(net)' /\ SetupAgreed' /\ AnswersSound'
  BY <1>1 DEF IInv, NodeSound, BeliefSound, SetupAgreed, Believed, AnswersSound
<1>4. FrameDrawn' /\ FrameAnswers' /\ JoinDefaults'
  BY <1>1 DEF FrameDrawn, FrameAnswers, JoinDefaults
<1>5. RadioSound'
  BY <1>1, <1>2 DEF RadioSound
<1> QED BY <1>3, <1>4, <1>5 DEF IInv

-----------------------------------------------------------------------------
(* A command that is adopted leaves the network's picture whole, and       *)
(* changes in it what the command is about.                                *)
LEMMA AdoptedSound ==
    ASSUME NEW b, BeliefSound(b), NEW cmd
    PROVE  BeliefSound(AdoptedBy(b, cmd))
<1>1. CASE cmd.cid = "RX_PARAM_SETUP"
  <2> DEFINE b1 == [b EXCEPT !.rx1DrOffset = cmd.drOffset]
             b2 == [b1 EXCEPT !.rx2Frequency = cmd.frequency]
             b3 == [b2 EXCEPT !.rx2Datarate = cmd.datarate]
  <2>1. BeliefSound(b1)
    BY SMT DEF BeliefSound
  <2> HIDE DEF b1
  <2>2. BeliefSound(b2)
    BY <2>1, SMT DEF BeliefSound
  <2> HIDE DEF b2
  <2>3. BeliefSound(b3)
    BY <2>2, SMT DEF BeliefSound
  <2>4. AdoptedBy(b, cmd) = b3
    BY SMT, <1>1 DEF AdoptedBy, b1, b2
  <2> QED BY <2>3, <2>4
<1>2. CASE cmd.cid = "RX_TIMING_SETUP"
  <2> DEFINE delay == 1000 * Most(cmd.delay, 1)
             b1 == [b EXCEPT !.receiveDelay1 = delay]
  <2>1. AdoptedBy(b, cmd) = b1
    BY SMT, <1>2 DEF AdoptedBy
  <2> HIDE DEF delay
  <2>2. BeliefSound(b1)
    BY SMT DEF BeliefSound
  <2> QED BY <2>1, <2>2
<1>3. CASE cmd.cid = "TX_PARAM_SETUP"
  <2> DEFINE b1 == [b EXCEPT !.downlinkDwellTime = cmd.downlinkDwellTime]
  <2>1. AdoptedBy(b, cmd) = b1
    BY SMT, <1>3 DEF AdoptedBy
  <2>2. BeliefSound(b1)
    BY SMT DEF BeliefSound
  <2> QED BY <2>1, <2>2
<1>4. CASE cmd.cid = "DL_CHANNEL"
  <2> DEFINE moved == {m \in b.moved : m.channel # cmd.channel}
                      \cup {[channel |-> cmd.channel, frequency |-> cmd.frequency]}
             b1 == [b EXCEPT !.moved = moved]
  <2>1. AdoptedBy(b, cmd) = b1
    BY SMT, <1>4 DEF AdoptedBy
  <2> HIDE DEF moved
  <2>2. BeliefSound(b1)
    BY SMT DEF BeliefSound
  <2> QED BY <2>1, <2>2
<1>5. CASE cmd.cid \notin {"RX_PARAM_SETUP", "RX_TIMING_SETUP", "TX_PARAM_SETUP", "DL_CHANNEL"}
  BY SMT, <1>5 DEF AdoptedBy
<1> QED BY <1>1, <1>2, <1>3, <1>4, <1>5

LEMMA AdoptedIs ==
    Adopted(asked) = AdoptedBy(net, asked)
BY Zenon DEF Adopted, AdoptedBy

LEMMA HeardWhole ==
    ASSUME NEW f, FrameWhole(f), NEW heard
    PROVE  LET g == [f EXCEPT !.heard = heard]
           IN  /\ FrameWhole(g) /\ g.heard = heard
               /\ g.kind = f.kind /\ g.channel = f.channel /\ g.datarate = f.datarate
               /\ g.said = f.said /\ g.frequency = f.frequency
BY SMT DEF FrameWhole

(* The end of a transmission: a network that hears it adopts its answers,  *)
(* which are those that were counted on.                                   *)
LEMMA TxDoneStep ==
    ASSUME IInv, TxDone
    PROVE  IInv'
<1>1. /\ radio' = Asleep /\ rxTimers' = Slots /\ radio.status = "tx"
      /\ UNCHANGED <<region, nvm, macParams, joined, answers, windows>>
  BY Zenon DEF TxDone, nodeVars
<1>2. PICK heard \in BOOLEAN :
         /\ frame' = [frame EXCEPT !.heard = heard]
         /\ IF heard /\ frame.kind = "data" THEN Concludes ELSE UNCHANGED <<net, asked>>
  BY Zenon DEF TxDone, netVars
<1>3. frame # NoFrame
  BY <1>1 DEF IInv, RadioSound, Asleep
<1>4. /\ frame'.kind = frame.kind /\ frame'.channel = frame.channel
      /\ frame'.datarate = frame.datarate /\ frame'.said = frame.said
      /\ frame'.frequency = frame.frequency /\ frame'.heard = heard /\ FrameWhole(frame')
  <2>1. FrameWhole(frame)
    BY <1>3 DEF IInv, FrameDrawn
  <2> QED BY <1>2, <2>1, HeardWhole
<1>5. frame' # NoFrame
  BY <1>4, SMT DEF FrameWhole, NoFrame
<1>6. frame.kind \in {"data", "join"} /\ (joined <=> frame.kind = "data")
  BY <1>3 DEF IInv, FrameDrawn
<1>7. ASSUME heard, frame.kind = "data"
      PROVE  BeliefSound(net)' /\ SetupAgreed' /\ FrameAnswers'
  <2>1. asked' = NoCommand /\ net' = IF Accepted(asked.cid) \in frame.said
                                     THEN AdoptedBy(net, asked) ELSE net
    BY <1>2, <1>7, AdoptedIs, Zenon DEF Concludes, Accepted
  <2>2. asked'.cid = "none"
    BY <2>1, SMT DEF NoCommand
  <2>3. \A a \in answers : a.cid # "none"
    BY DEF IInv, AnswersSound
  <2>4. answers = {a \in frame.said : Sticky(a.cid)}
    BY <1>3, <1>7 DEF IInv, FrameAnswers
  <2>5. Believed' = net'
    <3>1. Accepted(asked'.cid).cid = asked'.cid
      BY DEF Accepted
    <3>2. Accepted(asked'.cid) \notin answers'
      BY <1>1, <2>2, <2>3, <3>1
    <3> QED BY <3>2, Zenon DEF Believed
  <2>6. net' = Believed
    <3>1. CASE Sticky(asked.cid)
      <4>1. Accepted(asked.cid) \in frame.said <=> Accepted(asked.cid) \in answers
        <5>1. Accepted(asked.cid).cid = asked.cid
          BY DEF Accepted
        <5> QED BY <5>1, <2>4, <3>1
      <4> QED BY <2>1, <4>1, Zenon DEF Believed
    <3>2. CASE ~Sticky(asked.cid)
      <4>1. AdoptedBy(net, asked) = net
        BY <3>2, SMT DEF AdoptedBy, Sticky
      <4> QED BY <2>1, <4>1, Zenon DEF Believed
    <3> QED BY <3>1, <3>2
  <2>7. BeliefSound(net)'
    <3>1. BeliefSound(net) /\ BeliefSound(AdoptedBy(net, asked))
      BY AdoptedSound DEF IInv
    <3>2. BeliefSound(net')
      BY <2>1, <3>1
    <3> QED BY <3>2
  <2>8. SetupAgreed'
    BY <1>1, <2>5, <2>6, Zenon DEF IInv, SetupAgreed
  <2>9. FrameAnswers'
    <3>1. answers' = {a \in frame'.said : Sticky(a.cid)}
      BY <1>1, <1>4, <2>4
    <3>2. \A a \in answers' : a.cid # asked'.cid
      BY <1>1, <2>2, <2>3
    <3> QED BY <3>1, <3>2 DEF FrameAnswers
  <2> QED BY <2>7, <2>8, <2>9
<1>8. ASSUME ~(heard /\ frame.kind = "data")
      PROVE  BeliefSound(net)' /\ SetupAgreed' /\ FrameAnswers'
  <2>1. UNCHANGED <<net, asked>>
    BY <1>2, <1>8
  <2>2. BeliefSound(net)' /\ SetupAgreed'
    BY <1>1, <2>1 DEF IInv, BeliefSound, SetupAgreed, Believed
  <2>3. FrameAnswers'
    <3>1. SUFFICES ASSUME frame'.kind = "data"
                   PROVE  /\ answers' = {a \in frame'.said : Sticky(a.cid)}
                          /\ frame'.heard => \A a \in answers' : a.cid # asked'.cid
      BY DEF FrameAnswers
    <3>2. answers = {a \in frame.said : Sticky(a.cid)}
      BY <1>3, <1>4, <3>1 DEF IInv, FrameAnswers
    <3>3. ~frame'.heard
      BY <1>2, <1>4, <1>8, <3>1
    <3> QED BY <1>1, <1>4, <3>2, <3>3
  <2> QED BY <2>2, <2>3
<1>9. BeliefSound(net)' /\ SetupAgreed' /\ FrameAnswers'
  BY <1>7, <1>8, Zenon
<1>10. NodeSound' /\ AnswersSound'
  BY <1>1 DEF IInv, NodeSound, AnswersSound
<1>11. FrameDrawn'
  BY <1>1, <1>2, <1>3, <1>4, Zenon DEF IInv, FrameDrawn
<1>12. JoinDefaults'
  BY <1>1, <1>3, <1>4, Zenon DEF IInv, JoinDefaults
<1>13. RadioSound'
  <2>1. radio'.status # "rx"
    BY <1>1 DEF Asleep
  <2> QED BY <1>1, <1>5, <2>1 DEF RadioSound
<1> QED BY <1>9, <1>10, <1>11, <1>12, <1>13 DEF IInv

-----------------------------------------------------------------------------
(* The windows open with what was computed for them.                       *)
LEMMA OpenedSound ==
    ASSUME IInv, NEW slot \in Slots,
           RxWindowSetup(slot, IF slot = "WIN_1" THEN 0 ELSE macParams.rx2Frequency),
           rxTimers # {}, rxTimers' \subseteq rxTimers,
           UNCHANGED <<nodeVars, frame, windows, netVars>>
    PROVE  IInv'
<1> DEFINE config == RegionRxConfig(region, nvm, ReceptionOf(slot))
<1>1. radio' = [status |-> "rx", config |-> config] /\ rxSlot' = slot
  BY Zenon DEF RxWindowSetup, ReceptionOf
<1>2. UNCHANGED <<region, nvm, macParams, joined, answers, frame, windows, net, asked>>
  BY DEF nodeVars, netVars
<1>3. frame # NoFrame /\ rxTimers \subseteq Slots
  BY DEF IInv, RadioSound
<1>4. ReceptionOf(rxSlot)' = ReceptionOf(slot)
  BY <1>1, <1>2, Zenon DEF ReceptionOf
<1> HIDE DEF config
<1>5. radio'.config = config
  BY <1>1, SMT
<1>6. RadioSound'
  <2>1. radio'.config = RegionRxConfig(region', nvm', ReceptionOf(rxSlot)')
    BY <1>2, <1>4, <1>5, Zenon DEF config
  <2>2. frame' # NoFrame /\ rxTimers' \subseteq Slots /\ rxSlot' \in Slots
    BY <1>1, <1>2, <1>3
  <2> QED BY <2>1, <2>2 DEF RadioSound
<1>7. NodeSound' /\ BeliefSound(net)' /\ SetupAgreed' /\ AnswersSound'
  BY <1>2 DEF IInv, NodeSound, BeliefSound, SetupAgreed, Believed, AnswersSound
<1>8. FrameDrawn' /\ FrameAnswers' /\ JoinDefaults'
  BY <1>2 DEF IInv, FrameDrawn, FrameAnswers, JoinDefaults
<1> QED BY <1>6, <1>7, <1>8 DEF IInv

LEMMA Window1Step ==
    ASSUME IInv, OnRxWindow1TimerEvent
    PROVE  IInv'
<1>1. /\ "WIN_1" \in rxTimers /\ rxTimers' = rxTimers \ {"WIN_1"} /\ RxWindowSetup("WIN_1", 0)
      /\ UNCHANGED <<nodeVars, frame, windows, netVars>>
  BY Zenon DEF OnRxWindow1TimerEvent, nodeVars, netVars
<1> DEFINE slot == "WIN_1"
<1>2. slot \in Slots /\ slot = "WIN_1" /\ rxTimers # {} /\ rxTimers' \subseteq rxTimers
  BY <1>1 DEF Slots
<1>3. RxWindowSetup(slot, IF slot = "WIN_1" THEN 0 ELSE macParams.rx2Frequency)
  BY <1>1, Zenon
<1> HIDE DEF slot
<1> QED BY <1>1, <1>2, <1>3, OpenedSound

LEMMA Window2Step ==
    ASSUME IInv, OnRxWindow2TimerEvent
    PROVE  IInv'
<1>1. /\ rxTimers = {"WIN_2"} /\ rxTimers' = {}
      /\ UNCHANGED <<nodeVars, frame, windows, netVars>>
  BY Zenon DEF OnRxWindow2TimerEvent, nodeVars, netVars
<1>2. CASE rxSlot = "WIN_1"
  <2>1. UNCHANGED <<region, nvm, macParams, joined, answers, frame, windows, net, asked,
                    radio, rxSlot>>
    BY <1>1, <1>2 DEF OnRxWindow2TimerEvent, nodeVars, netVars
  <2>2. ReceptionOf(rxSlot)' = ReceptionOf(rxSlot)
    BY <2>1, Zenon DEF ReceptionOf
  <2>3. RadioSound'
    BY <1>1, <2>1, <2>2 DEF IInv, RadioSound
  <2>4. NodeSound' /\ BeliefSound(net)' /\ SetupAgreed' /\ AnswersSound'
    BY <2>1 DEF IInv, NodeSound, BeliefSound, SetupAgreed, Believed, AnswersSound
  <2>5. FrameDrawn' /\ FrameAnswers' /\ JoinDefaults'
    BY <2>1 DEF IInv, FrameDrawn, FrameAnswers, JoinDefaults
  <2> QED BY <2>3, <2>4, <2>5 DEF IInv
<1>3. CASE rxSlot # "WIN_1"
  <2>1. RxWindowSetup("WIN_2", macParams.rx2Frequency)
    BY <1>3 DEF OnRxWindow2TimerEvent
  <2> DEFINE slot == "WIN_2"
  <2>2. slot \in Slots /\ rxTimers # {} /\ rxTimers' \subseteq rxTimers
    BY <1>1 DEF Slots
  <2>3. RxWindowSetup(slot, IF slot = "WIN_1" THEN 0 ELSE macParams.rx2Frequency)
    <3>1. slot # "WIN_1"
      OBVIOUS
    <3> QED BY <2>1, <3>1, Zenon
  <2> HIDE DEF slot
  <2> QED BY <1>1, <2>2, <2>3, OpenedSound
<1> QED BY <1>2, <1>3

(* A command that is lost leaves what is set and what is believed alone:   *)
(* its answer cannot be among those that are queued.                       *)
LEMMA RxTimeoutStep ==
    ASSUME IInv, RxTimeout
    PROVE  IInv'
<1>1. /\ radio.status = "rx" /\ radio' = Asleep
      /\ UNCHANGED <<region, nvm, macParams, joined, answers, frame, windows, rxTimers, net>>
  BY Zenon DEF RxTimeout, nodeVars
<1>2. frame # NoFrame
  BY <1>1 DEF IInv, RadioSound, Asleep
<1>3. \/ asked' = asked
      \/ /\ frame.kind = "data" /\ frame.heard
         /\ \A a \in frame.said : a.cid # asked'.cid
  BY DEF RxTimeout, MayAsk
<1>4. Believed' = Believed /\ FrameAnswers'
  <2>1. CASE asked' = asked
    BY <1>1, <2>1 DEF IInv, Believed, FrameAnswers
  <2>2. CASE /\ frame.kind = "data" /\ frame.heard
             /\ \A a \in frame.said : a.cid # asked'.cid
    <3>1. /\ answers = {a \in frame.said : Sticky(a.cid)}
          /\ \A a \in answers : a.cid # asked.cid
      BY <1>2, <2>2 DEF IInv, FrameAnswers
    <3>2. \A a \in answers : a.cid # asked'.cid
      BY <2>2, <3>1
    <3>3. \A cid : Accepted(cid).cid = cid
      BY DEF Accepted
    <3>4. Accepted(asked.cid) \notin answers /\ Accepted(asked'.cid) \notin answers
      BY <3>1, <3>2, <3>3
    <3>5. Believed = net /\ Believed' = net
      BY <1>1, <3>4, Zenon DEF Believed
    <3>6. FrameAnswers'
      BY <1>1, <3>1, <3>2 DEF FrameAnswers
    <3> QED BY <3>5, <3>6
  <2> QED BY <1>3, <2>1, <2>2
<1>5. NodeSound' /\ BeliefSound(net)' /\ AnswersSound'
  BY <1>1 DEF IInv, NodeSound, BeliefSound, AnswersSound
<1>6. SetupAgreed'
  BY <1>1, <1>4, Zenon DEF IInv, SetupAgreed
<1>7. FrameDrawn' /\ JoinDefaults'
  BY <1>1 DEF IInv, FrameDrawn, JoinDefaults
<1>8. RadioSound'
  <2>1. radio'.status # "rx"
    BY <1>1 DEF Asleep
  <2> QED BY <1>1, <1>2, <2>1 DEF IInv, RadioSound
<1> QED BY <1>4, <1>5, <1>6, <1>7, <1>8 DEF IInv

-----------------------------------------------------------------------------
(* One parameter at a time.                                                *)
LEMMA ParamsWithOffset ==
    ASSUME NEW r, NEW params, ParamsSound(r, params), NEW offset \in Offsets(r)
    PROVE  LET new == [params EXCEPT !.rx1DrOffset = offset]
           IN  /\ ParamsSound(r, new) /\ new.rx1DrOffset = offset
               /\ new.rx2Frequency = params.rx2Frequency
               /\ new.rx2Datarate = params.rx2Datarate
               /\ new.downlinkDwellTime = params.downlinkDwellTime
               /\ new.receiveDelay1 = params.receiveDelay1
BY SMT DEF ParamsSound

LEMMA ParamsWithFrequency ==
    ASSUME NEW r, NEW params, ParamsSound(r, params), NEW f, Legal(r, f)
    PROVE  LET new == [params EXCEPT !.rx2Frequency = f]
           IN  /\ ParamsSound(r, new) /\ new.rx2Frequency = f
               /\ new.rx1DrOffset = params.rx1DrOffset
               /\ new.rx2Datarate = params.rx2Datarate
               /\ new.downlinkDwellTime = params.downlinkDwellTime
               /\ new.receiveDelay1 = params.receiveDelay1
BY SMT DEF ParamsSound

LEMMA ParamsWithDatarate ==
    ASSUME NEW r, NEW params, ParamsSound(r, params), NEW dr \in RxDrs(r)
    PROVE  LET new == [params EXCEPT !.rx2Datarate = dr]
           IN  /\ ParamsSound(r, new) /\ new.rx2Datarate = dr
               /\ new.rx1DrOffset = params.rx1DrOffset
               /\ new.rx2Frequency = params.rx2Frequency
               /\ new.downlinkDwellTime = params.downlinkDwellTime
               /\ new.receiveDelay1 = params.receiveDelay1
BY SMT DEF ParamsSound

LEMMA ParamsWithDelay ==
    ASSUME NEW r, NEW params, ParamsSound(r, params), NEW delay \in Int
    PROVE  LET new == [params EXCEPT !.receiveDelay1 = delay]
           IN  /\ ParamsSound(r, new) /\ new.receiveDelay1 = delay
               /\ new.rx1DrOffset = params.rx1DrOffset
               /\ new.rx2Frequency = params.rx2Frequency
               /\ new.rx2Datarate = params.rx2Datarate
               /\ new.downlinkDwellTime = params.downlinkDwellTime
BY SMT DEF ParamsSound

LEMMA ParamsWithUplink ==
    ASSUME NEW r, NEW params, ParamsSound(r, params), NEW up \in {0, 1}
    PROVE  LET new == [params EXCEPT !.uplinkDwellTime = up]
           IN  /\ ParamsSound(r, new) /\ new.uplinkDwellTime = up
               /\ new.rx1DrOffset = params.rx1DrOffset
               /\ new.rx2Frequency = params.rx2Frequency
               /\ new.rx2Datarate = params.rx2Datarate
               /\ new.downlinkDwellTime = params.downlinkDwellTime
               /\ new.receiveDelay1 = params.receiveDelay1
BY SMT DEF ParamsSound

LEMMA ParamsWithDownlink ==
    ASSUME NEW r, NEW params, ParamsSound(r, params), NEW down \in {0, 1}
    PROVE  LET new == [params EXCEPT !.downlinkDwellTime = down]
           IN  /\ ParamsSound(r, new) /\ new.downlinkDwellTime = down
               /\ new.rx1DrOffset = params.rx1DrOffset
               /\ new.rx2Frequency = params.rx2Frequency
               /\ new.rx2Datarate = params.rx2Datarate
               /\ new.receiveDelay1 = params.receiveDelay1
BY SMT DEF ParamsSound

LEMMA ParamsWithEirp ==
    ASSUME NEW r, NEW params, ParamsSound(r, params), NEW eirp
    PROVE  LET new == [params EXCEPT !.maxEirp = eirp]
           IN  /\ ParamsSound(r, new) /\ new.maxEirp = eirp
               /\ new.rx1DrOffset = params.rx1DrOffset
               /\ new.rx2Frequency = params.rx2Frequency
               /\ new.rx2Datarate = params.rx2Datarate
               /\ new.downlinkDwellTime = params.downlinkDwellTime
               /\ new.receiveDelay1 = params.receiveDelay1
BY SMT DEF ParamsSound

(* One entry of the network's picture at a time.                           *)
LEMMA BeliefWithOffset ==
    ASSUME NEW b, BeliefSound(b), NEW v
    PROVE  LET new == [b EXCEPT !.rx1DrOffset = v]
           IN  /\ BeliefSound(new) /\ new.rx1DrOffset = v
               /\ new.rx2Frequency = b.rx2Frequency
               /\ new.rx2Datarate = b.rx2Datarate
               /\ new.downlinkDwellTime = b.downlinkDwellTime
               /\ new.receiveDelay1 = b.receiveDelay1
               /\ new.moved = b.moved
BY SMT DEF BeliefSound

LEMMA BeliefWithFrequency ==
    ASSUME NEW b, BeliefSound(b), NEW v
    PROVE  LET new == [b EXCEPT !.rx2Frequency = v]
           IN  /\ BeliefSound(new) /\ new.rx2Frequency = v
               /\ new.rx1DrOffset = b.rx1DrOffset
               /\ new.rx2Datarate = b.rx2Datarate
               /\ new.downlinkDwellTime = b.downlinkDwellTime
               /\ new.receiveDelay1 = b.receiveDelay1
               /\ new.moved = b.moved
BY SMT DEF BeliefSound

LEMMA BeliefWithDatarate ==
    ASSUME NEW b, BeliefSound(b), NEW v
    PROVE  LET new == [b EXCEPT !.rx2Datarate = v]
           IN  /\ BeliefSound(new) /\ new.rx2Datarate = v
               /\ new.rx1DrOffset = b.rx1DrOffset
               /\ new.rx2Frequency = b.rx2Frequency
               /\ new.downlinkDwellTime = b.downlinkDwellTime
               /\ new.receiveDelay1 = b.receiveDelay1
               /\ new.moved = b.moved
BY SMT DEF BeliefSound

LEMMA BeliefWithDwell ==
    ASSUME NEW b, BeliefSound(b), NEW v
    PROVE  LET new == [b EXCEPT !.downlinkDwellTime = v]
           IN  /\ BeliefSound(new) /\ new.downlinkDwellTime = v
               /\ new.rx1DrOffset = b.rx1DrOffset
               /\ new.rx2Frequency = b.rx2Frequency
               /\ new.rx2Datarate = b.rx2Datarate
               /\ new.receiveDelay1 = b.receiveDelay1
               /\ new.moved = b.moved
BY SMT DEF BeliefSound

LEMMA BeliefWithDelay ==
    ASSUME NEW b, BeliefSound(b), NEW v
    PROVE  LET new == [b EXCEPT !.receiveDelay1 = v]
           IN  /\ BeliefSound(new) /\ new.receiveDelay1 = v
               /\ new.rx1DrOffset = b.rx1DrOffset
               /\ new.rx2Frequency = b.rx2Frequency
               /\ new.rx2Datarate = b.rx2Datarate
               /\ new.downlinkDwellTime = b.downlinkDwellTime
               /\ new.moved = b.moved
BY SMT DEF BeliefSound

LEMMA BeliefWithMoved ==
    ASSUME NEW b, BeliefSound(b), NEW v
    PROVE  LET new == [b EXCEPT !.moved = v]
           IN  /\ BeliefSound(new) /\ new.moved = v
               /\ new.rx1DrOffset = b.rx1DrOffset
               /\ new.rx2Frequency = b.rx2Frequency
               /\ new.rx2Datarate = b.rx2Datarate
               /\ new.downlinkDwellTime = b.downlinkDwellTime
               /\ new.receiveDelay1 = b.receiveDelay1
BY SMT DEF BeliefSound

(* A join accept in what the network believes.                             *)
LEMMA BeliefJoined ==
    ASSUME NEW r, NEW offset, NEW dr, NEW delay
    PROVE  LET b == [NetDefaults(r) EXCEPT !.rx1DrOffset = offset, !.rx2Datarate = dr,
                                           !.receiveDelay1 = delay]
           IN  /\ BeliefSound(b)
               /\ b.rx1DrOffset = offset /\ b.rx2Datarate = dr /\ b.receiveDelay1 = delay
               /\ b.rx2Frequency = RegionPhyDefaults(r).rx2Frequency
               /\ b.downlinkDwellTime = 0 /\ b.moved = {}
<1> DEFINE f == RegionPhyDefaults(r).rx2Frequency
           d == RegionPhyDefaults(r).rx2Datarate
<1>1. NetDefaults(r) = [rx1DrOffset |-> 0, rx2Frequency |-> f, rx2Datarate |-> d,
                        downlinkDwellTime |-> 0, receiveDelay1 |-> DefaultReceiveDelay1,
                        moved |-> {}]
  BY DEF NetDefaults
<1> HIDE DEF f, d
<1> DEFINE start == NetDefaults(r)
           one == [start EXCEPT !.rx1DrOffset = offset]
           two == [one EXCEPT !.rx2Datarate = dr]
           three == [two EXCEPT !.receiveDelay1 = delay]
<1>2. BeliefSound(start) /\ start.rx2Frequency = f /\ start.downlinkDwellTime = 0
      /\ start.moved = {}
  BY <1>1, SMT DEF BeliefSound
<1> HIDE DEF start
<1>3. /\ BeliefSound(one) /\ one.rx1DrOffset = offset
      /\ one.rx2Frequency = f /\ one.downlinkDwellTime = 0 /\ one.moved = {}
  BY <1>2, BeliefWithOffset
<1> HIDE DEF one
<1>4. /\ BeliefSound(two) /\ two.rx1DrOffset = offset /\ two.rx2Datarate = dr
      /\ two.rx2Frequency = f /\ two.downlinkDwellTime = 0 /\ two.moved = {}
  BY <1>3, BeliefWithDatarate
<1> HIDE DEF two
<1>5. /\ BeliefSound(three) /\ three.rx1DrOffset = offset /\ three.rx2Datarate = dr
      /\ three.receiveDelay1 = delay
      /\ three.rx2Frequency = f /\ three.downlinkDwellTime = 0 /\ three.moved = {}
  BY <1>4, BeliefWithDelay
<1> QED BY <1>5, Zenon DEF start, one, two, f

(* The parameters a new session begins with.                               *)
LEMMA ParamsDefaultsAre ==
    ASSUME NEW r \in Names, NEW params, NEW delay, params = MacParamsDefaults(r, delay)
    PROVE  /\ params.rx1DrOffset = 0
           /\ params.rx2Frequency = RegionPhyDefaults(r).rx2Frequency
           /\ params.rx2Datarate = RegionPhyDefaults(r).rx2Datarate
           /\ params.downlinkDwellTime = 0
<1> DEFINE phy == RegionPhyDefaults(r)
           offset == phy.rx1DrOffset
           f == phy.rx2Frequency
           dr == phy.rx2Datarate
           up == phy.uplinkDwellTime
           down == phy.downlinkDwellTime
           eirp == phy.maxEirp
<1>1. offset = 0 /\ down = 0
  BY DefaultsAllowed
<1>2. params = [rx1DrOffset |-> offset, rx2Frequency |-> f, rx2Datarate |-> dr,
                uplinkDwellTime |-> up, downlinkDwellTime |-> down, maxEirp |-> eirp,
                receiveDelay1 |-> delay]
  BY Zenon DEF MacParamsDefaults
<1> HIDE DEF offset, f, dr, up, down, eirp
<1>3. /\ params.rx1DrOffset = offset /\ params.rx2Frequency = f /\ params.rx2Datarate = dr
      /\ params.downlinkDwellTime = down
  BY <1>2, SMT
<1> QED BY <1>1, <1>3 DEF f, dr

-----------------------------------------------------------------------------
(* A downlink ends the exchange; what is left to show is about the node    *)
(* and the network.                                                        *)
LEMMA EndedSound ==
    ASSUME EndsExchange, NodeSound', BeliefSound(net)', SetupAgreed', AnswersSound'
    PROVE  IInv'
<1>1. radio' = Asleep /\ rxTimers' = {} /\ frame' = NoFrame
  BY DEF EndsExchange
<1>2. radio'.status # "rx"
  BY <1>1 DEF Asleep
<1>3. FrameDrawn' /\ FrameAnswers' /\ JoinDefaults'
  BY <1>1 DEF FrameDrawn, FrameAnswers, JoinDefaults
<1>4. RadioSound'
  BY <1>1, <1>2 DEF RadioSound
<1> QED BY <1>3, <1>4 DEF IInv

(* A new session begins with the defaults and what the join accept says,   *)
(* on both sides; no answer of the old one is taken for one of the new.    *)
LEMMA JoinAcceptStep ==
    ASSUME IInv, JoinAccept
    PROVE  IInv'
<1>1. PICK accept \in NetJoinAccepts[region] :
         LET delay == 1000 * Most(accept.rxDelay, 1)
         IN  /\ macParams' = [macParams EXCEPT !.rx1DrOffset = accept.rx1DrOffset,
                                               !.rx2Datarate = accept.rx2Datarate,
                                               !.receiveDelay1 = delay]
             /\ nvm' = RegionApplyCFList(region, nvm, accept.cfList)
             /\ net' = [NetDefaults(region) EXCEPT !.rx1DrOffset = accept.rx1DrOffset,
                                                   !.rx2Datarate = accept.rx2Datarate,
                                                   !.receiveDelay1 = delay]
  BY Zenon DEF JoinAccept
<1> DEFINE delay == 1000 * Most(accept.rxDelay, 1)
           offset == accept.rx1DrOffset
           dr == accept.rx2Datarate
<1>2. /\ radio.status = "rx" /\ frame.kind = "join"
      /\ joined' = TRUE /\ asked' = NoCommand /\ EndsExchange
      /\ UNCHANGED <<region, answers>>
  BY Zenon DEF JoinAccept, Reached
<1>3. frame # NoFrame
  BY <1>2 DEF IInv, RadioSound, Asleep
<1>4. /\ Unmoved(region, nvm) /\ macParams = MacParamsDefaults(region, macParams.receiveDelay1)
      /\ region \in Names /\ region \in Regions
      /\ PlanSound(region, nvm) /\ ParamsSound(region, macParams)
  BY <1>2, <1>3, RegionsAssumption DEF IInv, JoinDefaults, NodeSound
<1>5. PlanSound(region, nvm') /\ Unmoved(region, nvm')
  BY <1>1, <1>4, PlanTakesCFList
<1>6. dr \in RxDrs(region) /\ offset \in Offsets(region) /\ delay \in Int
  <2>1. /\ RegionRxParamSetupReq(region, RegionPhyDefaults(region).rx2Frequency, dr, offset)
              = "accepted"
        /\ accept.rxDelay \in Nat
    BY <1>4, AcceptsAssumption
  <2>2. dr \in RxDrs(region) /\ offset \in Offsets(region)
    BY <1>4, <2>1, RxParamSetupTakes
  <2>3. delay \in Int
    BY <2>1 DEF Most
  <2> QED BY <2>2, <2>3
<1> HIDE DEF delay, offset, dr
<1>7. /\ ParamsSound(region, macParams')
      /\ macParams'.rx1DrOffset = offset /\ macParams'.rx2Datarate = dr
      /\ macParams'.receiveDelay1 = delay
      /\ macParams'.rx2Frequency = macParams.rx2Frequency
      /\ macParams'.downlinkDwellTime = macParams.downlinkDwellTime
  <2>1. macParams' = [macParams EXCEPT !.rx1DrOffset = offset, !.rx2Datarate = dr,
                                       !.receiveDelay1 = delay]
    BY <1>1, Zenon DEF delay, offset, dr
  <2> DEFINE one == [macParams EXCEPT !.rx1DrOffset = offset]
             two == [one EXCEPT !.rx2Datarate = dr]
             three == [two EXCEPT !.receiveDelay1 = delay]
  <2>2. /\ ParamsSound(region, one) /\ one.rx1DrOffset = offset
        /\ one.rx2Frequency = macParams.rx2Frequency
        /\ one.downlinkDwellTime = macParams.downlinkDwellTime
    BY <1>4, <1>6, ParamsWithOffset
  <2>3. macParams' = [one EXCEPT !.rx2Datarate = dr, !.receiveDelay1 = delay]
    BY <2>1, Zenon
  <2> HIDE DEF one
  <2>4. /\ ParamsSound(region, two) /\ two.rx1DrOffset = offset
        /\ two.rx2Frequency = macParams.rx2Frequency /\ two.rx2Datarate = dr
        /\ two.downlinkDwellTime = macParams.downlinkDwellTime
    BY <1>6, <2>2, ParamsWithDatarate
  <2>5. macParams' = three
    BY <2>3, Zenon
  <2> HIDE DEF two
  <2>6. /\ ParamsSound(region, three) /\ three.rx1DrOffset = offset
        /\ three.rx2Frequency = macParams.rx2Frequency /\ three.rx2Datarate = dr
        /\ three.receiveDelay1 = delay
        /\ three.downlinkDwellTime = macParams.downlinkDwellTime
    BY <1>6, <2>4, ParamsWithDelay
  <2> HIDE DEF three
  <2> QED BY <2>5, <2>6, Zenon
<1>8. /\ BeliefSound(net')
      /\ net'.rx1DrOffset = offset /\ net'.rx2Datarate = dr /\ net'.receiveDelay1 = delay
      /\ net'.rx2Frequency = RegionPhyDefaults(region).rx2Frequency
      /\ net'.downlinkDwellTime = 0 /\ net'.moved = {}
  <2> DEFINE b == [NetDefaults(region) EXCEPT !.rx1DrOffset = offset, !.rx2Datarate = dr,
                                              !.receiveDelay1 = delay]
  <2>1. net' = b
    BY <1>1, Zenon DEF delay, offset, dr
  <2>2. /\ BeliefSound(b)
        /\ b.rx1DrOffset = offset /\ b.rx2Datarate = dr /\ b.receiveDelay1 = delay
        /\ b.rx2Frequency = RegionPhyDefaults(region).rx2Frequency
        /\ b.downlinkDwellTime = 0 /\ b.moved = {}
    BY BeliefJoined, Zenon
  <2> HIDE DEF b
  <2> QED BY <2>1, <2>2, Zenon
<1>9. /\ macParams.rx2Frequency = RegionPhyDefaults(region).rx2Frequency
      /\ macParams.downlinkDwellTime = 0
  BY <1>4, ParamsDefaultsAre
<1>10. NodeSound' /\ BeliefSound(net)'
  <2>1. BeliefSound(net)'
    BY <1>8, Zenon DEF BeliefSound
  <2> QED BY <1>2, <1>4, <1>5, <1>7, <2>1 DEF NodeSound
<1>11. AnswersSound'
  BY <1>2 DEF IInv, AnswersSound
<1>12. SetupAgreed'
  <2>1. Believed' = net'
    <3>1. asked'.cid = "none"
      BY <1>2 DEF NoCommand
    <3>2. \A cid : Accepted(cid).cid = cid
      BY DEF Accepted
    <3>3. Accepted(asked'.cid) \notin answers'
      BY <1>11, <3>1, <3>2 DEF AnswersSound
    <3> QED BY <3>3, Zenon DEF Believed
  <2>2. \A c \in nvm'.mask : {m \in net'.moved : m.channel = c} = Where(region, nvm', c)
    <3>1. SUFFICES ASSUME NEW c \in nvm'.mask PROVE {} = Where(region, nvm', c)
      BY <1>8
    <3> QED BY <1>5, UnmovedWhere
  <2>3. Agrees(region, macParams', nvm', net')
    BY <1>7, <1>8, <1>9, <2>2, Zenon DEF Agrees
  <2> QED BY <1>2, <2>1, <2>3, Zenon DEF SetupAgreed
<1> QED BY <1>2, <1>10, <1>11, <1>12, EndedSound

-----------------------------------------------------------------------------
(* A command that is processed: whatever it leaves of the plan and the     *)
(* parameters is sound, and agrees with what the network believes once it  *)
(* has the answer.                                                         *)
Answered(cmd, result) ==
    /\ PlanSound(region, result.nvm) /\ ParamsSound(region, result.macParams)
    /\ Agrees(region, result.macParams, result.nvm,
              IF result.answer = "accepted" THEN AdoptedBy(net, cmd) ELSE net)
    /\ cmd.cid = "none" => result.answer = "none"

LEMMA AnsweredIs ==
    ASSUME NEW cmd, NEW p, NEW params, NEW answer,
           PlanSound(region, p), ParamsSound(region, params),
           Agrees(region, params, p, IF answer = "accepted" THEN AdoptedBy(net, cmd) ELSE net),
           cmd.cid = "none" => answer = "none"
    PROVE  Answered(cmd, Outcome(p, params, answer))
<1> DEFINE result == Outcome(p, params, answer)
<1>1. result.nvm = p /\ result.macParams = params /\ result.answer = answer
  BY SMT DEF Outcome
<1> HIDE DEF result
<1>2. Answered(cmd, result)
  BY <1>1, Zenon DEF Answered
<1> QED BY <1>2 DEF result

(* The network and the node while no answer is queued that is awaited.     *)
InStep == NodeSound /\ BeliefSound(net) /\ Agrees(region, macParams, nvm, net)

LEMMA AnsweredRxParamSetup ==
    ASSUME InStep, NEW cmd, cmd.cid = "RX_PARAM_SETUP"
    PROVE  Answered(cmd, Processed(cmd))
<1> DEFINE answer == RegionRxParamSetupReq(region, cmd.frequency, cmd.datarate, cmd.drOffset)
           offset == cmd.drOffset
           f == cmd.frequency
           dr == cmd.datarate
           new == [macParams EXCEPT !.rx1DrOffset = offset, !.rx2Frequency = f,
                                    !.rx2Datarate = dr]
           params == IF answer # "accepted" THEN macParams ELSE new
<1>1. Processed(cmd) = Outcome(nvm, params, answer)
  BY SMT DEF Processed
<1>2. region \in Names /\ PlanSound(region, nvm) /\ ParamsSound(region, macParams)
  BY RegionsAssumption DEF InStep, NodeSound
<1>3. Agrees(region, macParams, nvm, net) /\ BeliefSound(net)
  BY DEF InStep
<1>4. CASE answer # "accepted"
  <2>1. params = macParams
    BY <1>4
  <2> HIDE DEF answer, params
  <2>2. Answered(cmd, Outcome(nvm, macParams, answer))
    BY <1>2, <1>3, <1>4, AnsweredIs
  <2> QED BY <1>1, <2>1, <2>2
<1>5. CASE answer = "accepted"
  <2>1. Legal(region, f) /\ dr \in RxDrs(region) /\ offset \in Offsets(region)
    BY <1>2, <1>5, RxParamSetupTakes
  <2> HIDE DEF offset, f, dr
  <2>2. /\ ParamsSound(region, new)
        /\ new.rx1DrOffset = offset /\ new.rx2Frequency = f /\ new.rx2Datarate = dr
        /\ new.downlinkDwellTime = macParams.downlinkDwellTime
        /\ new.receiveDelay1 = macParams.receiveDelay1
    <3> DEFINE one == [macParams EXCEPT !.rx1DrOffset = offset]
               two == [one EXCEPT !.rx2Frequency = f]
               three == [two EXCEPT !.rx2Datarate = dr]
    <3>1. /\ ParamsSound(region, one) /\ one.rx1DrOffset = offset
          /\ one.downlinkDwellTime = macParams.downlinkDwellTime
          /\ one.receiveDelay1 = macParams.receiveDelay1
      BY <1>2, <2>1, ParamsWithOffset
    <3> HIDE DEF one
    <3>2. /\ ParamsSound(region, two) /\ two.rx1DrOffset = offset /\ two.rx2Frequency = f
          /\ two.downlinkDwellTime = macParams.downlinkDwellTime
          /\ two.receiveDelay1 = macParams.receiveDelay1
      BY <2>1, <3>1, ParamsWithFrequency
    <3> HIDE DEF two
    <3>3. /\ ParamsSound(region, three) /\ three.rx1DrOffset = offset /\ three.rx2Frequency = f
          /\ three.rx2Datarate = dr /\ three.downlinkDwellTime = macParams.downlinkDwellTime
          /\ three.receiveDelay1 = macParams.receiveDelay1
      BY <2>1, <3>2, ParamsWithDatarate
    <3> QED BY <3>3, Zenon DEF one, two
  <2> DEFINE b == [net EXCEPT !.rx1DrOffset = offset, !.rx2Frequency = f, !.rx2Datarate = dr]
  <2>3. AdoptedBy(net, cmd) = b
    BY SMT DEF AdoptedBy, offset, f, dr
  <2>4. /\ b.rx1DrOffset = offset /\ b.rx2Frequency = f /\ b.rx2Datarate = dr
        /\ b.downlinkDwellTime = net.downlinkDwellTime
        /\ b.receiveDelay1 = net.receiveDelay1 /\ b.moved = net.moved
    <3> DEFINE one == [net EXCEPT !.rx1DrOffset = offset]
               two == [one EXCEPT !.rx2Frequency = f]
               three == [two EXCEPT !.rx2Datarate = dr]
    <3>1. /\ BeliefSound(one) /\ one.rx1DrOffset = offset
          /\ one.downlinkDwellTime = net.downlinkDwellTime
          /\ one.receiveDelay1 = net.receiveDelay1 /\ one.moved = net.moved
      BY <1>3, BeliefWithOffset
    <3> HIDE DEF one
    <3>2. /\ BeliefSound(two) /\ two.rx1DrOffset = offset /\ two.rx2Frequency = f
          /\ two.downlinkDwellTime = net.downlinkDwellTime
          /\ two.receiveDelay1 = net.receiveDelay1 /\ two.moved = net.moved
      BY <3>1, BeliefWithFrequency
    <3> HIDE DEF two
    <3>3. /\ BeliefSound(three) /\ three.rx1DrOffset = offset /\ three.rx2Frequency = f
          /\ three.rx2Datarate = dr /\ three.downlinkDwellTime = net.downlinkDwellTime
          /\ three.receiveDelay1 = net.receiveDelay1 /\ three.moved = net.moved
      BY <3>2, BeliefWithDatarate
    <3> QED BY <3>3, Zenon DEF one, two
  <2> HIDE DEF b, new
  <2>5. Agrees(region, new, nvm, b)
    BY <1>3, <2>2, <2>4, Zenon DEF Agrees
  <2>6. params = new
    BY <1>5
  <2> HIDE DEF answer, params
  <2>7. Agrees(region, new, nvm, IF answer = "accepted" THEN AdoptedBy(net, cmd) ELSE net)
    BY <1>5, <2>3, <2>5, Zenon
  <2>8. Answered(cmd, Outcome(nvm, new, answer))
    BY <1>2, <2>2, <2>7, AnsweredIs
  <2> QED BY <1>1, <2>6, <2>8
<1> QED BY <1>4, <1>5

(* RxTimingSetupReq: the delay the answer makes the network use is the     *)
(* one the node has set.                                                   *)
LEMMA AnsweredRxTimingSetup ==
    ASSUME InStep, NEW cmd, cmd.cid = "RX_TIMING_SETUP", cmd.delay \in Nat
    PROVE  Answered(cmd, Processed(cmd))
<1> DEFINE delay == 1000 * Most(cmd.delay, 1)
           new == [macParams EXCEPT !.receiveDelay1 = delay]
           b == [net EXCEPT !.receiveDelay1 = delay]
<1>1. Processed(cmd) = Outcome(nvm, new, "accepted") /\ AdoptedBy(net, cmd) = b
  <2>1. Processed(cmd) = Outcome(nvm, new, "accepted")
    BY SMT DEF Processed
  <2>2. AdoptedBy(net, cmd) = b
    BY SMT DEF AdoptedBy
  <2> QED BY <2>1, <2>2
<1>2. delay \in Int
  BY DEF Most
<1>3. PlanSound(region, nvm) /\ ParamsSound(region, macParams)
  BY DEF InStep, NodeSound
<1>4. Agrees(region, macParams, nvm, net) /\ BeliefSound(net)
  BY DEF InStep
<1> HIDE DEF delay
<1>5. /\ ParamsSound(region, new) /\ new.receiveDelay1 = delay
      /\ new.rx1DrOffset = macParams.rx1DrOffset /\ new.rx2Frequency = macParams.rx2Frequency
      /\ new.rx2Datarate = macParams.rx2Datarate
      /\ new.downlinkDwellTime = macParams.downlinkDwellTime
  BY <1>2, <1>3, ParamsWithDelay
<1>6. /\ b.receiveDelay1 = delay
      /\ b.rx1DrOffset = net.rx1DrOffset /\ b.rx2Frequency = net.rx2Frequency
      /\ b.rx2Datarate = net.rx2Datarate /\ b.downlinkDwellTime = net.downlinkDwellTime
      /\ b.moved = net.moved
  BY <1>4, BeliefWithDelay
<1> HIDE DEF new, b
<1>7. Agrees(region, new, nvm, b)
  BY <1>4, <1>5, <1>6, Zenon DEF Agrees
<1> DEFINE answer == "accepted"
<1>8. Agrees(region, new, nvm, IF answer = "accepted" THEN AdoptedBy(net, cmd) ELSE net)
  BY <1>1, <1>7, Zenon
<1>9. cmd.cid # "none"
  OBVIOUS
<1> HIDE DEF answer
<1>10. Answered(cmd, Outcome(nvm, new, answer))
  BY <1>3, <1>5, <1>8, <1>9, AnsweredIs
<1> QED BY <1>1, <1>10 DEF answer

(* TxParamSetupReq, in the regions that have it.                           *)
LEMMA AnsweredTxParamSetup ==
    ASSUME InStep, NEW cmd, cmd.cid = "TX_PARAM_SETUP",
           cmd.uplinkDwellTime \in {0, 1}, cmd.downlinkDwellTime \in {0, 1}
    PROVE  Answered(cmd, Processed(cmd))
<1> DEFINE up == cmd.uplinkDwellTime
           down == cmd.downlinkDwellTime
           eirp == MaxEirpTable[cmd.maxEirp]
           new == [macParams EXCEPT !.uplinkDwellTime = up, !.downlinkDwellTime = down,
                                    !.maxEirp = eirp]
           b == [net EXCEPT !.downlinkDwellTime = down]
<1>1. PlanSound(region, nvm) /\ ParamsSound(region, macParams)
  BY DEF InStep, NodeSound
<1>2. Agrees(region, macParams, nvm, net) /\ BeliefSound(net)
  BY DEF InStep
<1>3. AdoptedBy(net, cmd) = b
  BY SMT DEF AdoptedBy
<1>10. up \in {0, 1} /\ down \in {0, 1} /\ cmd.cid # "none"
  OBVIOUS
<1>4. Processed(cmd) = IF ~RegionTxParamSetupReq(region) THEN Outcome(nvm, macParams, "none")
                       ELSE Outcome(nvm, new, "accepted")
  <2> HIDE DEF eirp
  <2> QED BY SMT DEF Processed, eirp
<1> HIDE DEF up, down, eirp
<1>5. /\ ParamsSound(region, new) /\ new.downlinkDwellTime = down
      /\ new.rx1DrOffset = macParams.rx1DrOffset /\ new.rx2Frequency = macParams.rx2Frequency
      /\ new.rx2Datarate = macParams.rx2Datarate
      /\ new.receiveDelay1 = macParams.receiveDelay1
  <2> DEFINE one == [macParams EXCEPT !.uplinkDwellTime = up]
             two == [one EXCEPT !.downlinkDwellTime = down]
             three == [two EXCEPT !.maxEirp = eirp]
  <2>1. /\ ParamsSound(region, one)
        /\ one.rx1DrOffset = macParams.rx1DrOffset /\ one.rx2Frequency = macParams.rx2Frequency
        /\ one.rx2Datarate = macParams.rx2Datarate
        /\ one.receiveDelay1 = macParams.receiveDelay1
    BY <1>1, <1>10, ParamsWithUplink
  <2> HIDE DEF one
  <2>2. /\ ParamsSound(region, two) /\ two.downlinkDwellTime = down
        /\ two.rx1DrOffset = macParams.rx1DrOffset /\ two.rx2Frequency = macParams.rx2Frequency
        /\ two.rx2Datarate = macParams.rx2Datarate
        /\ two.receiveDelay1 = macParams.receiveDelay1
    <3>1. ParamsSound(region, one) /\ down \in {0, 1}
      BY <1>10, <2>1
    <3>2. ParamsSound(region, two) /\ two.downlinkDwellTime = down
          /\ two.rx1DrOffset = one.rx1DrOffset /\ two.rx2Frequency = one.rx2Frequency
          /\ two.rx2Datarate = one.rx2Datarate /\ two.receiveDelay1 = one.receiveDelay1
      BY <3>1, ParamsWithDownlink
    <3> QED BY <2>1, <3>2, Zenon
  <2> HIDE DEF two
  <2>3. /\ ParamsSound(region, three) /\ three.downlinkDwellTime = down
        /\ three.rx1DrOffset = macParams.rx1DrOffset
        /\ three.rx2Frequency = macParams.rx2Frequency
        /\ three.rx2Datarate = macParams.rx2Datarate
        /\ three.receiveDelay1 = macParams.receiveDelay1
    BY <2>2, ParamsWithEirp
  <2> QED BY <2>3, Zenon DEF one, two
<1>6. /\ b.downlinkDwellTime = down
      /\ b.rx1DrOffset = net.rx1DrOffset /\ b.rx2Frequency = net.rx2Frequency
      /\ b.rx2Datarate = net.rx2Datarate /\ b.receiveDelay1 = net.receiveDelay1
      /\ b.moved = net.moved
  BY <1>2, BeliefWithDwell
<1> HIDE DEF new, b
<1>7. Agrees(region, new, nvm, b)
  BY <1>2, <1>5, <1>6, Zenon DEF Agrees
<1>8. ASSUME NEW answer, answer = "accepted" PROVE Answered(cmd, Outcome(nvm, new, answer))
  <2>1. Agrees(region, new, nvm, IF answer = "accepted" THEN AdoptedBy(net, cmd) ELSE net)
    BY <1>3, <1>7, <1>8, Zenon
  <2> QED BY <1>1, <1>10, <1>5, <2>1, AnsweredIs
<1>9. ASSUME NEW answer, answer = "none" PROVE Answered(cmd, Outcome(nvm, macParams, answer))
  <2>1. Agrees(region, macParams, nvm,
               IF answer = "accepted" THEN AdoptedBy(net, cmd) ELSE net)
    BY <1>2, <1>9
  <2> QED BY <1>1, <1>10, <2>1, AnsweredIs
<1> QED BY <1>4, <1>8, <1>9, Zenon

(* The channels the network names are channels of the region.              *)
LEMMA ChannelsNamed ==
    ASSUME region \in Regions, NEW id \in NetChannelIds
    PROVE  region \in ListNames => id \in Ids(region)
<1> SUFFICES ASSUME region \in ListNames PROVE id \in Ids(region)
  OBVIOUS
<1> DEFINE blank == RegionBlank(region)
<1>1. blank = [channels |-> [c \in Ids(region) |-> EmptyChannel], mask |-> {}]
  BY BlankIs
<1>2. "channels" \in DOMAIN blank => NetChannelIds \subseteq DOMAIN blank.channels
  BY ChannelIdsAssumption
<1> HIDE DEF blank
<1>3. "channels" \in DOMAIN blank /\ blank.channels = [c \in Ids(region) |-> EmptyChannel]
  BY <1>1, SMT
<1> QED BY <1>2, <1>3

(* NewChannelReq: a channel it replaces is not moved any more.             *)
LEMMA AnsweredNewChannel ==
    ASSUME InStep, NEW cmd, cmd.cid = "NEW_CHANNEL", cmd.channel \in NetChannelIds,
           NewOne(cmd.new), \A m \in net.moved : m.channel # cmd.channel
    PROVE  Answered(cmd, Processed(cmd))
<1> DEFINE id == cmd.channel
           result == RegionNewChannelReq(region, nvm, id, cmd.new)
           q == result.nvm
           answer == result.answer
<1>1. Processed(cmd) = Outcome(q, macParams, answer)
  BY SMT DEF Processed
<1>2. AdoptedBy(net, cmd) = net
  BY SMT DEF AdoptedBy
<1>3. /\ region \in Names /\ PlanSound(region, nvm) /\ ParamsSound(region, macParams)
      /\ Agrees(region, macParams, nvm, net)
  BY RegionsAssumption DEF InStep, NodeSound
<1>4. region \in ListNames => id \in Ids(region)
  BY ChannelsNamed DEF InStep, NodeSound
<1>5. /\ PlanSound(region, q)
      /\ \A c \in q.mask : c
            = id \/ (c \in nvm.mask /\ Where(region, q, c) = Where(region, nvm, c))
      /\ q = nvm \/ Where(region, q, id) = {}
  BY <1>3, <1>4, PlanTakesNewChannel
<1> HIDE DEF q, answer
<1>6. Agrees(region, macParams, q, net)
  <2>1. CASE q = nvm
    BY <1>3, <2>1
  <2>2. CASE q # nvm
    <3>1. ASSUME NEW c \in q.mask
          PROVE  {m \in net.moved : m.channel = c} = Where(region, q, c)
      <4>1. CASE c = id
        <5>1. {m \in net.moved : m.channel = c} = {}
          BY <4>1
        <5> QED BY <1>5, <2>2, <4>1, <5>1
      <4>2. CASE c # id
        BY <1>3, <1>5, <4>2, Zenon DEF Agrees
      <4> QED BY <4>1, <4>2
    <3> QED BY <1>3, <3>1, Zenon DEF Agrees
  <2> QED BY <2>1, <2>2
<1>7. Agrees(region, macParams, q, IF answer = "accepted" THEN AdoptedBy(net, cmd) ELSE net)
  BY <1>2, <1>6, Zenon
<1>8. cmd.cid # "none"
  OBVIOUS
<1>9. Answered(cmd, Outcome(q, macParams, answer))
  BY <1>3, <1>5, <1>7, <1>8, AnsweredIs
<1> QED BY <1>1, <1>9

(* DlChannelReq: the network looks for the channel where it was moved to.  *)
LEMMA AnsweredDlChannel ==
    ASSUME InStep, NEW cmd, cmd.cid = "DL_CHANNEL", cmd.channel \in NetChannelIds
    PROVE  Answered(cmd, Processed(cmd))
<1> DEFINE id == cmd.channel
           f == cmd.frequency
           result == RegionDlChannelReq(region, nvm, id, f)
           q == result.nvm
           answer == result.answer
           moved == {m \in net.moved : m.channel # id} \cup {[channel |-> id, frequency |-> f]}
           b == [net EXCEPT !.moved = moved]
<1>1. Processed(cmd) = Outcome(q, macParams, answer)
  BY SMT DEF Processed
<1>2. AdoptedBy(net, cmd) = b
  BY SMT DEF AdoptedBy
<1>3. /\ region \in Names /\ PlanSound(region, nvm) /\ ParamsSound(region, macParams)
      /\ Agrees(region, macParams, nvm, net) /\ BeliefSound(net)
  BY RegionsAssumption DEF InStep, NodeSound
<1>4. region \in ListNames => id \in Ids(region)
  BY ChannelsNamed DEF InStep, NodeSound
<1>5. \/ answer \in {"refused", "none"} /\ q = nvm
      \/ /\ answer = "accepted" /\ region \in ListNames
         /\ PlanSound(region, q) /\ q.mask = nvm.mask
         /\ \A c \in q.mask \ {id} : Where(region, q, c) = Where(region, nvm, c)
         /\ Where(region, q, id) = {[channel |-> id, frequency |-> f]}
  BY <1>3, <1>4, PlanTakesDlChannel
<1>6. cmd.cid # "none"
  OBVIOUS
<1> HIDE DEF q, answer
<1>7. CASE answer \in {"refused", "none"} /\ q = nvm
  <2>1. Agrees(region, macParams, nvm,
               IF answer = "accepted" THEN AdoptedBy(net, cmd) ELSE net)
    BY <1>3, <1>7
  <2>2. Answered(cmd, Outcome(nvm, macParams, answer))
    BY <1>3, <1>6, <2>1, AnsweredIs
  <2> QED BY <1>1, <1>7, <2>2, Zenon
<1>8. CASE /\ answer = "accepted" /\ region \in ListNames
           /\ PlanSound(region, q) /\ q.mask = nvm.mask
           /\ \A c \in q.mask \ {id} : Where(region, q, c) = Where(region, nvm, c)
           /\ Where(region, q, id) = {[channel |-> id, frequency |-> f]}
  <2>1. ASSUME NEW c \in q.mask
        PROVE  {m \in moved : m.channel = c} = Where(region, q, c)
    <3>1. CASE c = id
      <4>1. {m \in moved : m.channel = c} = {[channel |-> id, frequency |-> f]}
        BY <3>1
      <4> QED BY <1>8, <3>1, <4>1, Zenon
    <3>2. CASE c # id
      <4>1. {m \in moved : m.channel = c} = {m \in net.moved : m.channel = c}
        BY <3>2
      <4>2. c \in nvm.mask /\ Where(region, q, c) = Where(region, nvm, c)
        BY <1>8, <3>2
      <4>3. {m \in net.moved : m.channel = c} = Where(region, nvm, c)
        BY <1>3, <4>2, Zenon DEF Agrees
      <4> QED BY <4>1, <4>2, <4>3
    <3> QED BY <3>1, <3>2
  <2> HIDE DEF moved
  <2>2. /\ b.moved = moved
        /\ b.rx1DrOffset = net.rx1DrOffset /\ b.rx2Frequency = net.rx2Frequency
        /\ b.rx2Datarate = net.rx2Datarate /\ b.downlinkDwellTime = net.downlinkDwellTime
        /\ b.receiveDelay1 = net.receiveDelay1
    BY <1>3, BeliefWithMoved
  <2> HIDE DEF b
  <2>3. Agrees(region, macParams, q, b)
    BY <1>3, <2>1, <2>2, Zenon DEF Agrees
  <2>4. Agrees(region, macParams, q, IF answer = "accepted" THEN AdoptedBy(net, cmd) ELSE net)
    BY <1>2, <1>8, <2>3, Zenon
  <2>5. Answered(cmd, Outcome(q, macParams, answer))
    BY <1>3, <1>6, <1>8, <2>4, AnsweredIs
  <2> QED BY <1>1, <2>5
<1> QED BY <1>5, <1>7, <1>8

(* Every command, accepted or not.                                         *)
LEMMA AnsweredAll ==
    ASSUME InStep, NEW cmd \in {NoCommand} \cup {c \in Commands : MayAsk(c)}
    PROVE  Answered(cmd, Processed(cmd))
<1>1. CASE cmd = NoCommand
  <2>1. Processed(cmd) = Outcome(nvm, macParams, "none")
    BY SMT, <1>1 DEF Processed, NoCommand
  <2>2. ASSUME NEW answer, answer = "none" PROVE Answered(cmd, Outcome(nvm, macParams, answer))
    <3>1. Agrees(region, macParams, nvm,
                 IF answer = "accepted" THEN AdoptedBy(net, cmd) ELSE net)
      BY <2>2 DEF InStep
    <3> QED BY <2>2, <3>1, AnsweredIs DEF InStep, NodeSound
  <2> QED BY <2>1, <2>2, Zenon
<1>2. CASE cmd \in [cid : {"RX_PARAM_SETUP"}, frequency : NetFrequencies[region],
                    datarate : NetRxDatarates[region], drOffset : NetDrOffsets[region]]
  BY <1>2, AnsweredRxParamSetup
<1>3. CASE cmd \in [cid : {"RX_TIMING_SETUP"}, delay : NetDelays]
  BY <1>3, DelaysAssumption, AnsweredRxTimingSetup
<1>4. CASE /\ cmd \in [cid : {"NEW_CHANNEL"}, channel : NetChannelIds, new : NewChannels]
           /\ MayAsk(cmd)
  <2>1. cmd.cid = "NEW_CHANNEL" /\ cmd.channel \in NetChannelIds /\ cmd.new \in NewChannels
    BY <1>4
  <2>2. NewOne(cmd.new)
    <3>1. PICK f \in NetFrequencies[region] \cup {0} :
             cmd.new = [frequency |-> f, rx1Frequency |-> 0, minDr |-> 0, maxDr |-> 5, band |-> 0]
      BY <2>1 DEF NewChannels
    <3> DEFINE new == cmd.new
    <3> HIDE DEF new
    <3>2. new = [frequency |-> f, rx1Frequency |-> 0, minDr |-> 0, maxDr |-> 5, band |-> 0]
      BY <3>1 DEF new
    <3>3. NewOne(new)
      BY <3>2, SMT DEF NewOne
    <3> QED BY <3>3 DEF new
  <2>3. \A m \in net.moved : m.channel # cmd.channel
    BY <1>4, <2>1 DEF MayAsk
  <2> QED BY <2>1, <2>2, <2>3, AnsweredNewChannel
<1>5. CASE cmd \in [cid : {"TX_PARAM_SETUP"}, uplinkDwellTime : {0, 1},
                    downlinkDwellTime : {0, 1}, maxEirp : {5}]
  BY <1>5, AnsweredTxParamSetup
<1>6. CASE cmd \in [cid : {"DL_CHANNEL"}, channel : NetChannelIds,
                    frequency : NetFrequencies[region]]
  BY <1>6, AnsweredDlChannel
<1> QED BY <1>1, <1>2, <1>3, <1>4, <1>5, <1>6 DEF Commands

(* A downlink removes the answers that have arrived before its own command *)
(* is answered: what is queued then is about this command alone.           *)
LEMMA DownlinkStep ==
    ASSUME IInv, Downlink
    PROVE  IInv'
<1>1. /\ radio.status = "rx" /\ frame.heard /\ frame.kind = "data" /\ EndsExchange
      /\ UNCHANGED <<region, joined, net>>
  BY Zenon DEF Downlink, Reached
<1>2. PICK cmd \in {NoCommand} \cup {c \in Commands : MayAsk(c)} :
         LET result == Processed(cmd)
             kept == {a \in answers : ~Sticky(a.cid)}
         IN  /\ nvm' = result.nvm
             /\ macParams' = result.macParams
             /\ answers' = IF result.answer = "none" THEN kept
                           ELSE kept \cup {[cid |-> cmd.cid, answer |-> result.answer]}
             /\ asked' = IF cmd = NoCommand THEN asked ELSE cmd
  BY Zenon DEF Downlink
<1> DEFINE result == Processed(cmd)
           answer == result.answer
<1>3. frame # NoFrame
  BY <1>1 DEF IInv, RadioSound, Asleep
<1>4. /\ answers = {a \in frame.said : Sticky(a.cid)} /\ joined
      /\ \A a \in answers : a.cid # asked.cid
  BY <1>1, <1>3 DEF IInv, FrameAnswers, FrameDrawn
<1>5. \A cid : Accepted(cid).cid = cid
  BY DEF Accepted
<1>6. InStep
  <2>1. Accepted(asked.cid) \notin answers
    BY <1>4, <1>5
  <2>2. Believed = net
    BY <2>1, Zenon DEF Believed
  <2> QED BY <1>4, <2>2, Zenon DEF IInv, InStep, SetupAgreed
<1>7. Answered(cmd, result)
  BY <1>6, AnsweredAll
<1>8. {a \in answers : ~Sticky(a.cid)} = {}
  BY <1>4
<1>9. /\ nvm' = result.nvm /\ macParams' = result.macParams
      /\ answers' = IF answer = "none" THEN {} ELSE {[cid |-> cmd.cid, answer |-> answer]}
      /\ asked' = IF cmd = NoCommand THEN asked ELSE cmd
  BY <1>2, <1>8, Zenon
<1> HIDE DEF result
<1>10. /\ PlanSound(region, result.nvm) /\ ParamsSound(region, result.macParams)
       /\ Agrees(region, result.macParams, result.nvm,
                 IF answer = "accepted" THEN AdoptedBy(net, cmd) ELSE net)
       /\ cmd.cid = "none" => answer = "none"
  BY <1>7, Zenon DEF Answered
<1> HIDE DEF answer
<1>11. AnswersSound'
  <2>1. CASE answer = "none"
    BY <1>9, <2>1 DEF AnswersSound
  <2>2. CASE answer # "none"
    BY <1>9, <1>10, <2>2 DEF AnswersSound
  <2> QED BY <2>1, <2>2
<1>12. Believed' = IF answer = "accepted" THEN AdoptedBy(net, cmd) ELSE net
  <2>1. CASE answer = "none"
    <3>1. answers' = {} /\ answer # "accepted"
      BY <1>9, <2>1
    <3>2. Accepted(asked'.cid) \notin answers'
      BY <3>1
    <3> QED BY <1>1, <3>1, <3>2, Zenon DEF Believed
  <2>2. CASE answer # "none"
    <3>1. cmd # NoCommand
      BY <1>10, <2>2 DEF NoCommand
    <3>2. asked' = cmd /\ answers' = {[cid |-> cmd.cid, answer |-> answer]}
      BY <1>9, <2>2, <3>1
    <3>3. Accepted(cmd.cid) \in answers' <=> answer = "accepted"
      BY <3>2 DEF Accepted
    <3> QED BY <1>1, <3>2, <3>3, Zenon DEF Believed
  <2> QED BY <2>1, <2>2
<1>13. SetupAgreed'
  BY <1>1, <1>9, <1>10, <1>12, Zenon DEF SetupAgreed
<1>14. NodeSound' /\ BeliefSound(net)'
  BY <1>1, <1>9, <1>10, Zenon DEF IInv, NodeSound, BeliefSound
<1> QED BY <1>1, <1>11, <1>13, <1>14, EndedSound

-----------------------------------------------------------------------------
(* The node and the network start with the same setup.                     *)
LEMMA NetDefaultsAre ==
    ASSUME NEW r
    PROVE  LET b == NetDefaults(r)
           IN  /\ BeliefSound(b)
               /\ b.rx1DrOffset = 0 /\ b.rx2Frequency = RegionPhyDefaults(r).rx2Frequency
               /\ b.rx2Datarate = RegionPhyDefaults(r).rx2Datarate
               /\ b.downlinkDwellTime = 0 /\ b.receiveDelay1 = DefaultReceiveDelay1
               /\ b.moved = {}
<1> DEFINE f == RegionPhyDefaults(r).rx2Frequency
           dr == RegionPhyDefaults(r).rx2Datarate
           b == NetDefaults(r)
<1>1. b = [rx1DrOffset |-> 0, rx2Frequency |-> f, rx2Datarate |-> dr, downlinkDwellTime |-> 0,
           receiveDelay1 |-> DefaultReceiveDelay1, moved |-> {}]
  BY DEF NetDefaults
<1> HIDE DEF f, dr, b
<1>2. /\ BeliefSound(b) /\ b.rx1DrOffset = 0 /\ b.rx2Frequency = f /\ b.rx2Datarate = dr
      /\ b.downlinkDwellTime = 0 /\ b.receiveDelay1 = DefaultReceiveDelay1 /\ b.moved = {}
  BY <1>1, SMT DEF BeliefSound
<1> QED BY <1>2, Zenon DEF b, f, dr

LEMMA Starts == Init => IInv
<1> SUFFICES ASSUME Init PROVE IInv
  OBVIOUS
<1>1. /\ region \in Regions /\ region \in Names
      /\ nvm = RegionInitDefaults(region, "DEFAULTS", RegionBlank(region))
      /\ macParams = MacParamsDefaults(region, DefaultReceiveDelay1)
      /\ joined \in BOOLEAN /\ answers = {} /\ frame = NoFrame /\ rxTimers = {}
      /\ radio = Asleep /\ net = NetDefaults(region) /\ asked = NoCommand
  BY RegionsAssumption, Zenon DEF Init
<1>2. PlanSound(region, nvm) /\ Unmoved(region, nvm)
  BY <1>1, PlanStarts
<1>3. ParamsSound(region, macParams) /\ macParams.receiveDelay1 = DefaultReceiveDelay1
  <2>1. DefaultReceiveDelay1 \in Int
    BY DEF DefaultReceiveDelay1
  <2> QED BY <1>1, <2>1, ParamsReset
<1>4. /\ macParams.rx1DrOffset = 0
      /\ macParams.rx2Frequency = RegionPhyDefaults(region).rx2Frequency
      /\ macParams.rx2Datarate = RegionPhyDefaults(region).rx2Datarate
      /\ macParams.downlinkDwellTime = 0
  BY <1>1, ParamsDefaultsAre
<1>5. BeliefSound(net)
      /\ net.rx1DrOffset = 0 /\ net.rx2Frequency = RegionPhyDefaults(region).rx2Frequency
      /\ net.rx2Datarate = RegionPhyDefaults(region).rx2Datarate
      /\ net.downlinkDwellTime = 0 /\ net.receiveDelay1 = DefaultReceiveDelay1
      /\ net.moved = {}
  <2> QED BY <1>1, NetDefaultsAre
<1>6. Believed = net
  BY <1>1, Zenon DEF Believed
<1>7. Agrees(region, macParams, nvm, net)
  <2>1. ASSUME NEW c \in nvm.mask PROVE {m \in net.moved : m.channel = c}
        = Where(region, nvm, c)
    <3>1. {m \in net.moved : m.channel = c} = {}
      BY <1>5
    <3> QED BY <1>2, <3>1, UnmovedWhere
  <2> QED BY <1>3, <1>4, <1>5, <2>1, Zenon DEF Agrees
<1>8. radio.status # "rx"
  BY <1>1 DEF Asleep
<1> QED
  BY <1>1, <1>2, <1>3, <1>5, <1>6, <1>7, <1>8, Zenon DEF IInv, NodeSound, SetupAgreed,
     AnswersSound, FrameDrawn, FrameAnswers, JoinDefaults, RadioSound

(* Every action preserves the invariant.                                   *)
LEMMA Preserved == IInv /\ [Next]_vars => IInv'
<1> SUFFICES ASSUME IInv, [Next]_vars PROVE IInv'
  OBVIOUS
<1>1. ASSUME NEW c \in SendChannels[region], NEW dr \in SendDatarates[region], Send(c, dr)
      PROVE  IInv'
  BY <1>1, SendStep
<1>2. ASSUME NEW c \in SendChannels[region], NEW dr \in JoinDatarates, JoinRequest(c, dr)
      PROVE  IInv'
  BY <1>2, JoinRequestStep
<1>3. ASSUME NEW c \in SendChannels[region], Repeat(c)
      PROVE  IInv'
  BY <1>3, RepeatStep
<1>4. CASE UNCHANGED vars
  <2>1. UNCHANGED <<region, nvm, macParams, joined, answers, frame, windows, net, asked,
                    rxTimers, radio, rxSlot>>
    BY <1>4 DEF vars, nodeVars, macVars, netVars
  <2>2. ReceptionOf(rxSlot)' = ReceptionOf(rxSlot)
    BY <2>1, Zenon DEF ReceptionOf
  <2>3. RadioSound'
    BY <2>1, <2>2 DEF IInv, RadioSound
  <2>4. NodeSound' /\ BeliefSound(net)' /\ SetupAgreed' /\ AnswersSound'
    BY <2>1 DEF IInv, NodeSound, BeliefSound, SetupAgreed, Believed, AnswersSound
  <2>5. FrameDrawn' /\ FrameAnswers' /\ JoinDefaults'
    BY <2>1 DEF IInv, FrameDrawn, FrameAnswers, JoinDefaults
  <2> QED BY <2>3, <2>4, <2>5 DEF IInv
<1> QED
  BY <1>1, <1>2, <1>3, <1>4, OverStep, TxDoneStep, Window1Step, Window2Step, DownlinkStep,
     JoinAcceptStep, RxTimeoutStep, Zenon DEF Next

(* The network's picture of the node, counting the answers on their way,   *)
(* is what the node has set: IInv holds throughout.                        *)
THEOREM Invariance == Spec => []IInv
BY Starts, Preserved, PTL DEF Spec

-----------------------------------------------------------------------------
(* A window, as it was computed from what is set.                          *)
LEMMA SlotIs ==
    ASSUME NEW r \in Names, NEW dr \in RxDrs(r)
    PROVE  SlotParameters(r, dr).datarate = dr /\ SlotParameters(r, dr).offset \in Int
<1> DEFINE T == SymbolTime(r, dr)
           timeout == WindowTimeout(T, MinRxSymbols, SystemMaxRxError)
           offset == WindowOffsetMs(T, timeout)
           b == BandwidthOf(r, dr)
<1>1. SlotParameters(r, dr) = [datarate |-> dr, bandwidth |-> b, timeout |-> timeout,
                               offset |-> offset]
  BY WindowIs, Zenon DEF SlotParameters
<1>2. T \in Nat \ {0}
  BY SymbolTimes
<1>3. offset \in Int
  <2> HIDE DEF T
  <2>1. timeout \in Int
    BY <1>2, SMT DEF WindowTimeout, DivCeil, Most, MinRxSymbols, SystemMaxRxError
  <2> HIDE DEF timeout
  <2>2. DivCeil(timeout * T, 2) \in Int
    BY <1>2, <2>1, SMT DEF DivCeil
  <2> QED BY <1>2, <2>2, SMT DEF WindowOffsetMs, DivCeil, WakeupTimeMs
<1> HIDE DEF T, timeout, offset, b
<1> QED BY <1>1, <1>3, SMT

(* Both windows are at legal data rates, at the delay that was set.        *)
LEMMA WindowsComputed ==
    ASSUME NEW r \in Names, NEW params, ParamsSound(r, params), NEW isJoined,
           NEW dr \in UplinkDrs(r)
    PROVE  LET rx1 == WindowsOf(r, params, isJoined, dr)["WIN_1"]
               rx2 == WindowsOf(r, params, isJoined, dr)["WIN_2"]
               delay1 == IF isJoined THEN params.receiveDelay1 ELSE DefaultJoinAcceptDelay1
           IN  /\ rx1.parameters.datarate = Rx1Datarate(r, params, dr)
               /\ Rx1Datarate(r, params, dr) \in RxDrs(r)
               /\ rx2.parameters.datarate = params.rx2Datarate
               /\ rx1.delay - rx1.parameters.offset = delay1
               /\ rx2.delay - rx2.parameters.offset = delay1 + 1000
<1> DEFINE d1 == Rx1Datarate(r, params, dr)
           d2 == params.rx2Datarate
           delay1 == IF isJoined THEN params.receiveDelay1 ELSE DefaultJoinAcceptDelay1
           p1 == SlotParameters(r, d1)
           p2 == SlotParameters(r, d2)
           rx1 == WindowsOf(r, params, isJoined, dr)["WIN_1"]
           rx2 == WindowsOf(r, params, isJoined, dr)["WIN_2"]
<1>1. d1 \in RxDrs(r) /\ d2 \in RxDrs(r) /\ delay1 \in Int
  <2>1. d1 \in RxDrs(r)
    BY DrOffsetAllowed DEF ParamsSound, Rx1Datarate
  <2>2. d2 \in RxDrs(r) /\ delay1 \in Int
    BY DEF ParamsSound, DefaultJoinAcceptDelay1
  <2> QED BY <2>1, <2>2
<1>2. rx1 = [parameters |-> p1, delay |-> delay1 + p1.offset]
  <2> HIDE DEF d1, d2, delay1
  <2> QED BY DEF WindowsOf, Slots, d1, d2, delay1
<1>3. rx2 = [parameters |-> p2, delay |-> delay1 + 1000 + p2.offset]
  <2> HIDE DEF d1, d2, delay1
  <2> QED BY DEF WindowsOf, Slots, d1, d2, delay1
<1> HIDE DEF d1, d2, delay1
<1>4. p1.datarate = d1 /\ p1.offset \in Int /\ p2.datarate = d2 /\ p2.offset \in Int
  BY <1>1, SlotIs
<1> HIDE DEF p1, p2, rx1, rx2
<1>5. /\ rx1.parameters = p1 /\ rx2.parameters = p2
      /\ rx1.delay = delay1 + p1.offset /\ rx2.delay = delay1 + 1000 + p2.offset
  BY <1>2, <1>3, SMT
<1>6. /\ rx1.delay - rx1.parameters.offset = delay1
      /\ rx2.delay - rx2.parameters.offset = delay1 + 1000
  BY <1>1, <1>4, <1>5, SMT
<1> QED BY <1>1, <1>4, <1>5, <1>6, Zenon DEF rx1, rx2, d1, d2, delay1

(* The window that is open, on the node.                                   *)
LEMMA NodeListens ==
    ASSUME IInv, radio.status = "rx"
    PROVE  /\ frame # NoFrame /\ region \in Names /\ rxSlot \in Slots
           /\ NodeWindow.datarate = IF rxSlot = "WIN_1"
                                    THEN Rx1Datarate(region, macParams, frame.datarate)
                                    ELSE macParams.rx2Datarate
           /\ NodeWindow.datarate \in RxDrs(region)
           /\ NodeWindow.datarate = windows[rxSlot].parameters.datarate
           /\ NodeWindow.frequency = IF rxSlot = "WIN_1"
                                     THEN Window1Frequency(region, nvm, frame.channel)
                                     ELSE macParams.rx2Frequency
           /\ NodeWindow.frequency = radio.config.frequency
           /\ NodeWindow.delay =
                 (IF frame.kind = "data" THEN macParams.receiveDelay1 ELSE DefaultJoinAcceptDelay1)
                 + (IF rxSlot = "WIN_1" THEN 0 ELSE 1000)
           /\ NodeWindow = [frequency |-> NodeWindow.frequency,
                            datarate |-> NodeWindow.datarate, delay |-> NodeWindow.delay]
<1>1. frame # NoFrame
  BY DEF IInv, RadioSound, Asleep
<1>2. /\ region \in Names /\ PlanSound(region, nvm) /\ ParamsSound(region, macParams)
  BY RegionsAssumption DEF IInv, NodeSound
<1>3. /\ rxSlot \in Slots /\ radio.config = RegionRxConfig(region, nvm, ReceptionOf(rxSlot))
  BY DEF IInv, RadioSound
<1>4. /\ frame.datarate \in UplinkDrs(region)
      /\ windows = WindowsOf(region, macParams, frame.kind = "data", frame.datarate)
  BY <1>1 DEF IInv, FrameDrawn
<1> DEFINE f == radio.config.frequency
           dr == windows[rxSlot].parameters.datarate
           delay == windows[rxSlot].delay - windows[rxSlot].parameters.offset
           isData == frame.kind = "data"
           delay1 == IF isData THEN macParams.receiveDelay1 ELSE DefaultJoinAcceptDelay1
<1>5. /\ NodeWindow = [frequency |-> f, datarate |-> dr, delay |-> delay]
      /\ NodeWindow.frequency = f /\ NodeWindow.datarate = dr /\ NodeWindow.delay = delay
  <2>1. NodeWindow = [frequency |-> f, datarate |-> dr, delay |-> delay]
    BY DEF NodeWindow
  <2> HIDE DEF f, dr, delay
  <2> QED BY <2>1, SMT
<1>6. f = IF rxSlot = "WIN_1" THEN Window1Frequency(region, nvm, frame.channel)
          ELSE macParams.rx2Frequency
  <2> DEFINE rx == ReceptionOf(rxSlot)
  <2>1. /\ rx.rxSlot = rxSlot /\ rx.channel = frame.channel
        /\ rx.frequency = IF rxSlot = "WIN_1" THEN 0 ELSE macParams.rx2Frequency
    BY SMT DEF ReceptionOf
  <2> HIDE DEF rx
  <2>2. f = IF rx.rxSlot = "WIN_1" THEN Window1Frequency(region, nvm, rx.channel)
            ELSE rx.frequency
    BY <1>2, <1>3, ReceivesAt DEF rx
  <2> QED BY <2>1, <2>2
<1> HIDE DEF f
<1>7. /\ dr = IF rxSlot = "WIN_1" THEN Rx1Datarate(region, macParams, frame.datarate)
              ELSE macParams.rx2Datarate
      /\ dr \in RxDrs(region)
      /\ delay = delay1 + (IF rxSlot = "WIN_1" THEN 0 ELSE 1000)
  <2> DEFINE w == WindowsOf(region, macParams, isData, frame.datarate)
             rx1 == w["WIN_1"]
             rx2 == w["WIN_2"]
  <2> HIDE DEF isData
  <2>1. /\ rx1.parameters.datarate = Rx1Datarate(region, macParams, frame.datarate)
        /\ Rx1Datarate(region, macParams, frame.datarate) \in RxDrs(region)
        /\ rx2.parameters.datarate = macParams.rx2Datarate
        /\ rx1.delay - rx1.parameters.offset = delay1
        /\ rx2.delay - rx2.parameters.offset = delay1 + 1000
    BY <1>2, <1>4, WindowsComputed
  <2>2. windows = w
    BY <1>4 DEF isData
  <2>3. macParams.rx2Datarate \in RxDrs(region) /\ delay1 \in Int
    BY <1>2 DEF ParamsSound, DefaultJoinAcceptDelay1
  <2> HIDE DEF w, delay1
  <2>4. CASE rxSlot = "WIN_1"
    BY <2>1, <2>2, <2>3, <2>4
  <2>5. CASE rxSlot = "WIN_2"
    BY <2>1, <2>2, <2>3, <2>5
  <2> QED BY <1>3, <2>4, <2>5 DEF Slots
<1> QED BY <1>1, <1>2, <1>3, <1>5, <1>6, <1>7, Zenon DEF f

(* What the network takes for the setup of a node it hears.                *)
Expected == IF frame.kind = "join" THEN NetDefaults(region) ELSE net

(* When the network has heard the frame, what it takes for the setup is    *)
(* what the node has set: no answer it waits for is on its way.            *)
LEMMA ExpectedRight ==
    ASSUME IInv, radio.status = "rx", frame.heard
    PROVE  /\ macParams.rx1DrOffset = Expected.rx1DrOffset
           /\ macParams.rx2Frequency = Expected.rx2Frequency
           /\ macParams.rx2Datarate = Expected.rx2Datarate
           /\ macParams.downlinkDwellTime = Expected.downlinkDwellTime
           /\ frame.kind = "data" => macParams.receiveDelay1 = Expected.receiveDelay1
           /\ {m \in Expected.moved : m.channel = frame.channel}
                 = Where(region, nvm, frame.channel)
<1>1. frame # NoFrame /\ region \in Names
  BY NodeListens
<1>2. frame.kind \in {"data", "join"} /\ frame.channel \in nvm.mask
      /\ (joined <=> frame.kind = "data")
  BY <1>1 DEF IInv, FrameDrawn
<1>3. CASE frame.kind = "data"
  <2>1. Expected = net
    BY <1>3 DEF Expected
  <2>2. \A a \in answers : a.cid # asked.cid
    BY <1>1, <1>3 DEF IInv, FrameAnswers
  <2>3. Accepted(asked.cid).cid = asked.cid
    BY DEF Accepted
  <2>4. Accepted(asked.cid) \notin answers
    BY <2>2, <2>3
  <2>5. Believed = net
    BY <2>4, Zenon DEF Believed
  <2>6. Agrees(region, macParams, nvm, net)
    BY <1>2, <1>3, <2>5, Zenon DEF IInv, SetupAgreed
  <2> QED BY <1>2, <2>1, <2>6, Zenon DEF Agrees
<1>4. CASE frame.kind = "join"
  <2>1. Expected = NetDefaults(region)
    BY <1>4 DEF Expected
  <2>2. /\ Unmoved(region, nvm)
        /\ macParams = MacParamsDefaults(region, macParams.receiveDelay1)
    BY <1>1, <1>4 DEF IInv, JoinDefaults
  <2>3. /\ macParams.rx1DrOffset = 0
        /\ macParams.rx2Frequency = RegionPhyDefaults(region).rx2Frequency
        /\ macParams.rx2Datarate = RegionPhyDefaults(region).rx2Datarate
        /\ macParams.downlinkDwellTime = 0
    BY <1>1, <2>2, ParamsDefaultsAre
  <2>4. /\ Expected.rx1DrOffset = 0
        /\ Expected.rx2Frequency = RegionPhyDefaults(region).rx2Frequency
        /\ Expected.rx2Datarate = RegionPhyDefaults(region).rx2Datarate
        /\ Expected.downlinkDwellTime = 0 /\ Expected.moved = {}
    BY <2>1, NetDefaultsAre, Zenon
  <2>5. {m \in Expected.moved : m.channel = frame.channel} = {}
    BY <2>4
  <2>6. Where(region, nvm, frame.channel) = {}
    BY <1>2, <2>2, UnmovedWhere
  <2>7. frame.kind # "data"
    BY <1>4
  <2> QED BY <2>3, <2>4, <2>5, <2>6, <2>7, Zenon
<1> QED BY <1>2, <1>3, <1>4

(* The window the network sends in.                                        *)
LEMMA NetSends ==
    ASSUME IInv, radio.status = "rx", frame.heard
    PROVE  NetWindow(rxSlot) =
              [frequency |-> IF rxSlot = "WIN_1"
                             THEN Window1Frequency(region, nvm, frame.channel)
                             ELSE macParams.rx2Frequency,
               datarate |-> IF rxSlot = "WIN_1"
                            THEN Rx1Datarate(region, macParams, frame.datarate)
                            ELSE macParams.rx2Datarate,
               delay |-> (IF frame.kind = "data" THEN macParams.receiveDelay1
                          ELSE DefaultJoinAcceptDelay1)
                         + (IF rxSlot = "WIN_1" THEN 0 ELSE 1000)]
<1> DEFINE moved == {m \in Expected.moved : m.channel = frame.channel}
           delay1 == IF frame.kind = "join" THEN DefaultJoinAcceptDelay1
                     ELSE Expected.receiveDelay1
           f1 == IF moved = {} THEN MirrorChannel(frame.frequency)
                 ELSE (CHOOSE m \in moved : TRUE).frequency
           dr1 == RegionApplyDrOffset(region, Expected.downlinkDwellTime, frame.datarate,
                                      Expected.rx1DrOffset)
           own1 == IF frame.kind = "data" THEN macParams.receiveDelay1
                   ELSE DefaultJoinAcceptDelay1
<1>1. frame # NoFrame /\ region \in Names /\ rxSlot \in Slots
  BY NodeListens
<1>2. /\ frame.kind \in {"data", "join"} /\ frame.channel \in nvm.mask
      /\ PlanSound(region, nvm) /\ Matching(region, frame.channel, frame.datarate)
      /\ frame.frequency = UplinkFrequency(region, nvm, frame.channel)
      /\ ParamsSound(region, macParams)
  BY <1>1 DEF IInv, FrameDrawn, NodeSound
<1>3. NetWindow(rxSlot) =
         IF rxSlot = "WIN_1" THEN [frequency |-> f1, datarate |-> dr1, delay |-> delay1]
         ELSE [frequency |-> Expected.rx2Frequency, datarate |-> Expected.rx2Datarate,
               delay |-> delay1 + 1000]
  BY Zenon DEF NetWindow, Expected
<1>4. f1 = Window1Frequency(region, nvm, frame.channel)
  <2>1. moved = Where(region, nvm, frame.channel)
    BY ExpectedRight
  <2> HIDE DEF moved
  <2>2. CASE region \in ListNames /\ nvm.channels[frame.channel].rx1Frequency # 0
    <3> DEFINE f == nvm.channels[frame.channel].rx1Frequency
    <3>1. Window1Frequency(region, nvm, frame.channel) = f
      BY SMT, <2>2 DEF Window1Frequency, ListNames
    <3>2. moved = {[channel |-> frame.channel, frequency |-> f]}
      BY <2>1, <2>2, Zenon DEF Where
    <3> HIDE DEF f
    <3>3. (CHOOSE m \in moved : TRUE) = [channel |-> frame.channel, frequency |-> f]
      BY <3>2
    <3>4. moved # {}
      BY <3>2
    <3>5. f1 = [channel |-> frame.channel, frequency |-> f].frequency
      BY <3>3, <3>4, Zenon
    <3> QED BY <3>1, <3>5
  <2>3. CASE ~(region \in ListNames /\ nvm.channels[frame.channel].rx1Frequency # 0)
    <3>1. moved = {}
      BY <2>1, <2>3, Zenon DEF Where
    <3>2. MirrorChannel(UplinkFrequency(region, nvm, frame.channel)) =
             Window1Frequency(region, nvm, frame.channel)
      BY <1>1, <1>2, <2>3, Mirrors
    <3> QED BY <1>2, <3>1, <3>2, Zenon
  <2> QED BY <2>2, <2>3
<1>5. dr1 = Rx1Datarate(region, macParams, frame.datarate)
  BY ExpectedRight, Zenon DEF Rx1Datarate
<1>6. delay1 = own1 /\ own1 \in Int
  BY <1>2, ExpectedRight DEF ParamsSound, DefaultJoinAcceptDelay1
<1>7. /\ Expected.rx2Frequency = macParams.rx2Frequency
      /\ Expected.rx2Datarate = macParams.rx2Datarate
  BY ExpectedRight
<1> HIDE DEF f1, dr1, delay1, own1
<1> DEFINE f == IF rxSlot = "WIN_1" THEN Window1Frequency(region, nvm, frame.channel)
                ELSE macParams.rx2Frequency
           dr == IF rxSlot = "WIN_1" THEN Rx1Datarate(region, macParams, frame.datarate)
                 ELSE macParams.rx2Datarate
           delay == own1 + (IF rxSlot = "WIN_1" THEN 0 ELSE 1000)
<1>8. CASE rxSlot = "WIN_1"
  <2>1. f = f1 /\ dr = dr1 /\ delay = delay1
    BY <1>4, <1>5, <1>6, <1>8
  <2> HIDE DEF f, dr, delay
  <2>2. NetWindow(rxSlot) = [frequency |-> f, datarate |-> dr, delay |-> delay]
    BY <1>3, <1>8, <2>1, Zenon
  <2> QED BY <2>2, Zenon DEF f, dr, delay, own1
<1>9. CASE rxSlot # "WIN_1"
  <2>1. f = Expected.rx2Frequency /\ dr = Expected.rx2Datarate /\ delay = delay1 + 1000
    BY <1>6, <1>7, <1>9
  <2> HIDE DEF f, dr, delay
  <2>2. NetWindow(rxSlot) = [frequency |-> f, datarate |-> dr, delay |-> delay]
    BY <1>3, <1>9, <2>1, Zenon
  <2> QED BY <2>2, Zenon DEF f, dr, delay, own1
<1> QED BY <1>8, <1>9

(* Windows agreed: whatever was asked, refused, lost or answered in a lost *)
(* uplink before, and whatever a new session kept of the old one, a window *)
(* that opens after an uplink the network has heard is the one it sends    *)
(* in.                                                                     *)
THEOREM WindowsAgree == Spec => []WindowsAgreed
<1>1. ASSUME IInv PROVE WindowsAgreed
  <2> SUFFICES ASSUME radio.status = "rx", frame.heard PROVE NodeWindow = NetWindow(rxSlot)
    BY DEF WindowsAgreed
  <2> DEFINE f == IF rxSlot = "WIN_1" THEN Window1Frequency(region, nvm, frame.channel)
                  ELSE macParams.rx2Frequency
             dr == IF rxSlot = "WIN_1" THEN Rx1Datarate(region, macParams, frame.datarate)
                   ELSE macParams.rx2Datarate
             delay == (IF frame.kind = "data" THEN macParams.receiveDelay1
                       ELSE DefaultJoinAcceptDelay1)
                      + (IF rxSlot = "WIN_1" THEN 0 ELSE 1000)
  <2>1. /\ NodeWindow.frequency = f /\ NodeWindow.datarate = dr /\ NodeWindow.delay = delay
        /\ NodeWindow = [frequency |-> NodeWindow.frequency,
                         datarate |-> NodeWindow.datarate, delay |-> NodeWindow.delay]
    BY <1>1, NodeListens, Zenon
  <2>2. NetWindow(rxSlot) = [frequency |-> f, datarate |-> dr, delay |-> delay]
    BY <1>1, NetSends, Zenon
  <2> HIDE DEF f, dr, delay
  <2> QED BY <2>1, <2>2, Zenon
<1> QED BY <1>1, Invariance, PTL

(* A channel of a sound plan is a sound channel.                           *)
LEMMA ChannelOf ==
    ASSUME NEW r \in ListNames, NEW p, PlanSound(r, p), NEW c \in Ids(r)
    PROVE  ChannelSound(r, p.channels[c])
BY Zenon DEF PlanSound

(* Windows legal: no sequence of commands, lists of channels and new       *)
(* sessions leaves a frequency the region does not have in a channel or a  *)
(* window, and none of commands a data rate it has no downlinks at, given  *)
(* that the join accepts set none (AcceptsAssumption).                     *)
THEOREM WindowsAreLegal == Spec => []WindowsLegal
<1>1. ASSUME IInv PROVE WindowsLegal
  <2>1. region \in Names /\ PlanSound(region, nvm) /\ ParamsSound(region, macParams)
    BY <1>1, RegionsAssumption DEF IInv, NodeSound
  <2>2. ASSUME "channels" \in DOMAIN nvm, NEW c \in DOMAIN nvm.channels,
               NEW f \in {nvm.channels[c].frequency, nvm.channels[c].rx1Frequency}, f # 0
        PROVE  Legal(region, f)
    <3>1. region \in ListNames
      <4>1. CASE region \notin ListNames
        <5>1. nvm = [mask |-> nvm.mask]
          BY <2>1, <4>1, FixedHasMask
        <5> DEFINE p == nvm
        <5>2. DOMAIN nvm = {"mask"}
          BY <5>1, SMT
        <5> QED BY <2>2, <5>2
      <4> QED BY <4>1
    <3>2. DOMAIN nvm.channels = Ids(region)
      <4>1. nvm.channels = [k \in Ids(region) |-> nvm.channels[k]]
        BY <2>1, <3>1, Zenon DEF PlanSound
      <4> QED BY <4>1, Zenon
    <3>3. ChannelSound(region, nvm.channels[c])
      <4>1. c \in Ids(region)
        BY <2>2, <3>2
      <4>2. PlanSound(region, nvm)
        BY <2>1
      <4> QED BY <3>1, <4>1, <4>2, ChannelOf, Zenon
    <3>4. f = nvm.channels[c].frequency \/ f = nvm.channels[c].rx1Frequency
      BY <2>2
    <3>5. /\ nvm.channels[c].frequency = 0 \/ Legal(region, nvm.channels[c].frequency)
          /\ nvm.channels[c].rx1Frequency = 0 \/ Legal(region, nvm.channels[c].rx1Frequency)
      BY <3>3, Zenon DEF ChannelSound
    <3>6. CASE f = nvm.channels[c].frequency
      BY <2>2, <3>5, <3>6
    <3>7. CASE f = nvm.channels[c].rx1Frequency
      BY <2>2, <3>5, <3>7
    <3> QED BY <3>4, <3>6, <3>7
  <2>3. ASSUME radio.status = "rx"
        PROVE  LET dr == windows[rxSlot].parameters.datarate
               IN  /\ Legal(region, radio.config.frequency)
                   /\ RegionVerify(region, "RX_DR", dr, macParams.uplinkDwellTime, 0)
                   /\ rxSlot = "WIN_1" =>
                         dr >= RegionGetPhyParam(region, dr, macParams.uplinkDwellTime,
                                                 macParams.downlinkDwellTime).minRxDr
    <3> DEFINE dr == windows[rxSlot].parameters.datarate
               f == radio.config.frequency
    <3>1. /\ frame # NoFrame /\ rxSlot \in Slots /\ dr \in RxDrs(region)
          /\ dr = IF rxSlot = "WIN_1" THEN Rx1Datarate(region, macParams, frame.datarate)
                  ELSE macParams.rx2Datarate
          /\ f = IF rxSlot = "WIN_1" THEN Window1Frequency(region, nvm, frame.channel)
                 ELSE macParams.rx2Frequency
      BY <1>1, <2>3, NodeListens, Zenon
    <3>2. /\ frame.channel \in nvm.mask /\ frame.datarate \in UplinkDrs(region)
          /\ region \in ListNames => nvm.channels[frame.channel].frequency # 0
      BY <1>1, <3>1 DEF IInv, FrameDrawn
    <3> HIDE DEF dr, f
    <3>3. Legal(region, f)
      <4>1. Legal(region, Window1Frequency(region, nvm, frame.channel))
        BY <2>1, <3>2, Window1Legal
      <4>2. Legal(region, macParams.rx2Frequency)
        BY <2>1 DEF ParamsSound
      <4> QED BY <3>1, <4>1, <4>2, Zenon
    <3>4. RegionVerify(region, "RX_DR", dr, macParams.uplinkDwellTime, 0)
      BY <2>1, <3>1, RxDrsLegal
    <3>5. ASSUME rxSlot = "WIN_1"
          PROVE  dr >= RegionGetPhyParam(region, dr, macParams.uplinkDwellTime,
                                         macParams.downlinkDwellTime).minRxDr
      <4>1. /\ macParams.downlinkDwellTime \in {0, 1}
            /\ macParams.rx1DrOffset \in Offsets(region)
        BY <2>1 DEF ParamsSound
      <4> DEFINE rx1 == Rx1Datarate(region, macParams, frame.datarate)
      <4>2. \A d, up : rx1 >= RegionGetPhyParam(region, d, up, macParams.downlinkDwellTime).minRxDr
        BY <2>1, <3>2, <4>1, DrOffsetAllowed, Zenon DEF Rx1Datarate
      <4>3. dr = rx1
        BY <3>1, <3>5, Zenon
      <4> HIDE DEF rx1
      <4> QED BY <4>2, <4>3, Zenon
    <3> QED BY <3>3, <3>4, <3>5, Zenon DEF dr, f
  <2> QED BY <2>2, <2>3, Zenon DEF WindowsLegal, Legal
<1> QED BY <1>1, Invariance, PTL

-----------------------------------------------------------------------------
(* The radio's configuration for a data rate, in every region.             *)
ModemOf(r, dr) == IF Fsk(r, dr) THEN "FSK" ELSE "LORA"
RateOf(r, dr) == IF Fsk(r, dr) THEN 50000 ELSE Spreading(r, dr)
PreambleOf(r, dr) == IF Fsk(r, dr) THEN 5 ELSE 8

(* The longest payload of a data rate without dwell times; AS923's table   *)
(* is not one of payloads.                                                 *)
PayloadOf(r, dr) ==
    IF r = "US915" /\ dr < 3 THEN (IF dr = 0 THEN 11 ELSE IF dr = 1 THEN 53 ELSE 125)
    ELSE IF r # "US915" /\ dr < 4 THEN (IF dr = 3 THEN 115 ELSE 51)
    ELSE IF dr = 8 THEN 53 ELSE IF dr = 9 THEN 129 ELSE 242

(* RxConfig tunes to some frequency, for this data rate.                   *)
WidthOf(r, dr, rx) == IF Fsk(r, dr) THEN 50000 ELSE rx.bandwidth
ConfigOf(r, dr, rx, iq) ==
    SetRxConfig(ModemOf(r, dr), WidthOf(r, dr, rx), RateOf(r, dr), PreambleOf(r, dr), rx.timeout,
                iq, FALSE)
Listens(r, dr, p, rx, f, iq, max) ==
    /\ RegionRxConfig(r, p, rx) = WithMaxPayload(WithFrequency(ConfigOf(r, dr, rx, iq), f), max)
    /\ r # "AS923" => max = PayloadOf(r, dr) + 13

(* The time on air and the reception of every region come down to these.   *)
LEMMA RadioIs ==
    ASSUME NEW r \in Names, NEW dr \in UplinkDrs(r) \cup RxDrs(r), NEW p, NEW rx,
           rx.datarate = dr, rx.rxContinuous = FALSE, NEW n
    PROVE  /\ RegionGetTimeOnAir(r, dr, n) =
                 TimeOnAirMs(ModemOf(r, dr), BandwidthOf(r, dr), RateOf(r, dr), 1,
                             PreambleOf(r, dr), n)
           /\ \E f, iq, max : Listens(r, dr, p, rx, f, iq, max)
<1>1. CASE r = "AS923"
  <2>1. dr \in 0..7
    BY SMT, <1>1 DEF UplinkDrs, RxDrs
  <2>2. /\ Spreading(r, dr) = (IF dr = 6 THEN 7 ELSE 12 - dr)
        /\ BandwidthOf(r, dr) = (IF dr = 6 THEN 1 ELSE 0)
        /\ Fsk(r, dr) <=> dr = 7
    BY <1>1, <2>1, SMT DEF Spreading, BandwidthOf, WideDr, Fsk, ListNames
  <2>3. AS923!Phy!GetBandwidth(dr, AS923!Bandwidths) = BandwidthOf(r, dr)
    <3>1. AS923!Bandwidths[dr] = (IF dr = 7 THEN 0 ELSE IF dr = 6 THEN 250000 ELSE 125000)
      BY <2>1, SMT DEF AS923!Bandwidths, AS923!Table
    <3> QED BY SMT, <2>1, <2>2, <3>1 DEF AS923!Phy!GetBandwidth
  <2>4. /\ Fsk(r, dr) => AS923!Datarates[dr] = 50
        /\ ~Fsk(r, dr) => AS923!Datarates[dr] = Spreading(r, dr) /\ AS923!Datarates[dr] # 50
    <3>1. AS923!Datarates[dr] = (IF dr = 7 THEN 50 ELSE IF dr = 6 THEN 7 ELSE 12 - dr)
      BY <2>1, SMT DEF AS923!Datarates, AS923!Table
    <3> QED BY <2>1, <2>2, <3>1, SMT
  <2>5. /\ AS923!Phy!Modem(dr) = ModemOf(r, dr) /\ AS923!Phy!PhyDatarate(dr) = RateOf(r, dr)
        /\ AS923!Phy!PreambleLen(dr) = PreambleOf(r, dr)
    BY <2>4, SMT DEF AS923!Phy!Modem, AS923!Phy!PhyDatarate, AS923!Phy!PreambleLen, ModemOf,
          RateOf,
       PreambleOf
  <2>6. \A a, b, c, e,
        g : AS923!Phy!TimeOnAirMs(a, b, c, e, g, n) = TimeOnAirMs(a, b, c, e, g, n)
    BY SMT DEF AS923!Phy!TimeOnAirMs, AS923!Phy!BandwidthInHz, AS923!Phy!PayloadSymbols,
       AS923!Phy!LoRaTimeOnAirNumerator, AS923!Phy!DivCeil, AS923!Phy!Most,
       AS923!Phy!LowDatarateOptimize, AS923!Phy!GfskTimeOnAirNumerator, TimeOnAirMs,
       BandwidthInHz, PayloadSymbols, LoRaTimeOnAirNumerator, DivCeil, Most,
       LowDatarateOptimize, GfskTimeOnAirNumerator
  <2>7. RegionGetTimeOnAir(r, dr, n) = AS923!Phy!GetTimeOnAir(dr, n)
    BY SMT, <1>1 DEF RegionGetTimeOnAir, AS923!GetTimeOnAir
  <2>8. RegionGetTimeOnAir(r, dr, n) =
           TimeOnAirMs(ModemOf(r, dr), BandwidthOf(r, dr), RateOf(r, dr), 1, PreambleOf(r, dr), n)
    <3>1. AS923!Phy!GetTimeOnAir(dr, n) =
             AS923!Phy!TimeOnAirMs(ModemOf(r, dr), BandwidthOf(r, dr), RateOf(r, dr), 1,
                                  PreambleOf(r, dr), n)
      BY <2>3, <2>5, Zenon DEF AS923!Phy!GetTimeOnAir
    <3> QED BY <2>6, <2>7, <3>1
  <2> DEFINE frequency == IF rx.rxSlot = "WIN_1" THEN AS923!Plan!Rx1Frequency(p, rx.channel)
                          ELSE rx.frequency
             longest == AS923!MaxPayloadOfDatarate[dr] + AS923!Phy!PayloadOverhead
             inverted == ~(AS923!Phy!Modem(dr) = "FSK")
             width == IF AS923!Phy!Modem(dr) = "FSK" THEN 50000 ELSE rx.bandwidth
             config == AS923!Phy!SetRxConfig(AS923!Phy!Modem(dr), width, AS923!Phy!PhyDatarate(dr),
                          AS923!Phy!PreambleLen(dr), rx.timeout, inverted, rx.rxContinuous)
             same == ConfigOf(r, dr, rx, inverted)
  <2>9. AS923!RxConfig(p, rx) =
           AS923!Phy!WithMaxPayload(AS923!Phy!WithFrequency(config, frequency), longest)
    BY SMT DEF AS923!RxConfig, AS923!Phy!RxConfig
  <2>10. width = WidthOf(r, dr, rx)
    BY <2>5, SMT DEF ModemOf, WidthOf
  <2> HIDE DEF width, inverted, frequency
  <2>11. config = same
    <3>1. \A a, b, c, e, t, iq, on : AS923!Phy!SetRxConfig(a, b, c, e, t, iq, on) =
                                       SetRxConfig(a, b, c, e, t, iq, on)
      BY SMT DEF AS923!Phy!SetRxConfig, AS923!Phy!SymbNumTimeout, AS923!Phy!Least,
         SetRxConfig, SymbNumTimeout, Least
    <3>2. config = AS923!Phy!SetRxConfig(ModemOf(r, dr), width, RateOf(r, dr),
                                        PreambleOf(r, dr), rx.timeout, inverted, FALSE)
      BY <2>5, Zenon
    <3>3. config = SetRxConfig(ModemOf(r, dr), width, RateOf(r, dr), PreambleOf(r, dr),
                               rx.timeout, inverted, FALSE)
      BY <3>1, <3>2
    <3> HIDE DEF config
    <3> QED BY <2>10, <3>3, Zenon DEF ConfigOf
  <2>12. r # "AS923" => longest = PayloadOf(r, dr) + 13
    BY <1>1
  <2> HIDE DEF config, same, longest
  <2>13. RegionRxConfig(r, p, rx) = AS923!RxConfig(p, rx)
    BY SMT, <1>1 DEF RegionRxConfig
  <2>14. AS923!Phy!WithFrequency(config, frequency) = WithFrequency(config, frequency)
    BY Zenon DEF AS923!Phy!WithFrequency, WithFrequency
  <2>15. \A one : AS923!Phy!WithMaxPayload(one, longest) = WithMaxPayload(one, longest)
    BY Zenon DEF AS923!Phy!WithMaxPayload, WithMaxPayload
  <2>16. RegionRxConfig(r, p, rx) = WithMaxPayload(WithFrequency(same, frequency), longest)
    <3>1. RegionRxConfig(r, p, rx) = WithMaxPayload(WithFrequency(config, frequency), longest)
      BY <2>9, <2>13, <2>14, <2>15, Zenon
    <3> QED BY <2>11, <3>1
  <2>17. Listens(r, dr, p, rx, frequency, inverted, longest)
    BY <2>12, <2>16, Zenon DEF same, Listens
  <2> QED BY <2>8, <2>17
<1>2. CASE r = "AU915"
  <2>1. dr \in (0..6) \cup (8..13)
    BY SMT, <1>2 DEF UplinkDrs, RxDrs
  <2>2. /\ Spreading(r, dr) = (IF dr >= 8 THEN 20 - dr ELSE IF dr = 6 THEN 8 ELSE 12 - dr)
        /\ BandwidthOf(r, dr) = (IF dr >= 6 THEN 2 ELSE 0)
        /\ Fsk(r, dr) <=> FALSE
    BY <1>2, <2>1, SMT DEF Spreading, BandwidthOf, WideDr, Fsk, ListNames
  <2>3. AU915!Phy!GetBandwidth(dr, AU915!Bandwidths) = BandwidthOf(r, dr)
    <3>1. AU915!Bandwidths[dr] = (IF dr >= 6 THEN 500000 ELSE 125000)
      BY <2>1, SMT DEF AU915!Bandwidths, AU915!Table
    <3> QED BY SMT, <2>1, <2>2, <3>1 DEF AU915!Phy!GetBandwidth
  <2>4. /\ Fsk(r, dr) => AU915!Datarates[dr] = 50
        /\ ~Fsk(r, dr) => AU915!Datarates[dr] = Spreading(r, dr) /\ AU915!Datarates[dr] # 50
    <3>1. AU915!Datarates[dr] = (IF dr >= 8 THEN 20 - dr ELSE IF dr = 6 THEN 8 ELSE 12 - dr)
      BY <2>1, SMT DEF AU915!Datarates, AU915!Table
    <3> QED BY <2>1, <2>2, <3>1, SMT
  <2>5. /\ AU915!Phy!Modem(dr) = ModemOf(r, dr) /\ AU915!Phy!PhyDatarate(dr) = RateOf(r, dr)
        /\ AU915!Phy!PreambleLen(dr) = PreambleOf(r, dr)
    BY <2>4, SMT DEF AU915!Phy!Modem, AU915!Phy!PhyDatarate, AU915!Phy!PreambleLen, ModemOf,
          RateOf,
       PreambleOf
  <2>6. \A a, b, c, e,
        g : AU915!Phy!TimeOnAirMs(a, b, c, e, g, n) = TimeOnAirMs(a, b, c, e, g, n)
    BY SMT DEF AU915!Phy!TimeOnAirMs, AU915!Phy!BandwidthInHz, AU915!Phy!PayloadSymbols,
       AU915!Phy!LoRaTimeOnAirNumerator, AU915!Phy!DivCeil, AU915!Phy!Most,
       AU915!Phy!LowDatarateOptimize, AU915!Phy!GfskTimeOnAirNumerator, TimeOnAirMs,
       BandwidthInHz, PayloadSymbols, LoRaTimeOnAirNumerator, DivCeil, Most,
       LowDatarateOptimize, GfskTimeOnAirNumerator
  <2>7. RegionGetTimeOnAir(r, dr, n) = AU915!Phy!GetTimeOnAir(dr, n)
    BY SMT, <1>2 DEF RegionGetTimeOnAir, AU915!GetTimeOnAir
  <2>8. RegionGetTimeOnAir(r, dr, n) =
           TimeOnAirMs(ModemOf(r, dr), BandwidthOf(r, dr), RateOf(r, dr), 1, PreambleOf(r, dr), n)
    <3>1. AU915!Phy!GetTimeOnAir(dr, n) =
             AU915!Phy!TimeOnAirMs(ModemOf(r, dr), BandwidthOf(r, dr), RateOf(r, dr), 1,
                                  PreambleOf(r, dr), n)
      BY <2>3, <2>5, Zenon DEF AU915!Phy!GetTimeOnAir
    <3> QED BY <2>6, <2>7, <3>1
  <2> DEFINE frequency == IF rx.rxSlot = "WIN_1" THEN AU915!Plan!Rx1Frequency(p, rx.channel)
                          ELSE rx.frequency
             longest == AU915!MaxPayloadOfDatarate[dr] + AU915!Phy!PayloadOverhead
             inverted == ~(AU915!Phy!Modem(dr) = "FSK")
             width == IF AU915!Phy!Modem(dr) = "FSK" THEN 50000 ELSE rx.bandwidth
             config == AU915!Phy!SetRxConfig(AU915!Phy!Modem(dr), width, AU915!Phy!PhyDatarate(dr),
                          AU915!Phy!PreambleLen(dr), rx.timeout, inverted, rx.rxContinuous)
             same == ConfigOf(r, dr, rx, inverted)
  <2>9. AU915!RxConfig(p, rx) =
           AU915!Phy!WithMaxPayload(AU915!Phy!WithFrequency(config, frequency), longest)
    BY SMT DEF AU915!RxConfig, AU915!Phy!RxConfig
  <2>10. width = WidthOf(r, dr, rx)
    BY <2>5, SMT DEF ModemOf, WidthOf
  <2> HIDE DEF width, inverted, frequency
  <2>11. config = same
    <3>1. \A a, b, c, e, t, iq, on : AU915!Phy!SetRxConfig(a, b, c, e, t, iq, on) =
                                       SetRxConfig(a, b, c, e, t, iq, on)
      BY SMT DEF AU915!Phy!SetRxConfig, AU915!Phy!SymbNumTimeout, AU915!Phy!Least,
         SetRxConfig, SymbNumTimeout, Least
    <3>2. config = AU915!Phy!SetRxConfig(ModemOf(r, dr), width, RateOf(r, dr),
                                        PreambleOf(r, dr), rx.timeout, inverted, FALSE)
      BY <2>5, Zenon
    <3>3. config = SetRxConfig(ModemOf(r, dr), width, RateOf(r, dr), PreambleOf(r, dr),
                               rx.timeout, inverted, FALSE)
      BY <3>1, <3>2
    <3> HIDE DEF config
    <3> QED BY <2>10, <3>3, Zenon DEF ConfigOf
  <2>12. r # "AS923" => longest = PayloadOf(r, dr) + 13
    <3>1. AU915!MaxPayloadOfDatarate[dr] = PayloadOf(r, dr)
      BY SMT, <1>2, <2>1 DEF AU915!MaxPayloadOfDatarate, AU915!Table, PayloadOf
    <3> QED BY <3>1, SMT DEF AU915!Phy!PayloadOverhead
  <2> HIDE DEF config, same, longest
  <2>13. RegionRxConfig(r, p, rx) = AU915!RxConfig(p, rx)
    BY SMT, <1>2 DEF RegionRxConfig
  <2>14. AU915!Phy!WithFrequency(config, frequency) = WithFrequency(config, frequency)
    BY Zenon DEF AU915!Phy!WithFrequency, WithFrequency
  <2>15. \A one : AU915!Phy!WithMaxPayload(one, longest) = WithMaxPayload(one, longest)
    BY Zenon DEF AU915!Phy!WithMaxPayload, WithMaxPayload
  <2>16. RegionRxConfig(r, p, rx) = WithMaxPayload(WithFrequency(same, frequency), longest)
    <3>1. RegionRxConfig(r, p, rx) = WithMaxPayload(WithFrequency(config, frequency), longest)
      BY <2>9, <2>13, <2>14, <2>15, Zenon
    <3> QED BY <2>11, <3>1
  <2>17. Listens(r, dr, p, rx, frequency, inverted, longest)
    BY <2>12, <2>16, Zenon DEF same, Listens
  <2> QED BY <2>8, <2>17
<1>3. CASE r = "CN470"
  <2>1. dr \in 0..5
    BY SMT, <1>3 DEF UplinkDrs, RxDrs
  <2>2. /\ Spreading(r, dr) = (12 - dr)
        /\ BandwidthOf(r, dr) = (0)
        /\ Fsk(r, dr) <=> FALSE
    BY <1>3, <2>1, SMT DEF Spreading, BandwidthOf, WideDr, Fsk, ListNames
  <2>3. CN470!Phy!GetBandwidth(dr, CN470!Bandwidths) = BandwidthOf(r, dr)
    <3>1. CN470!Bandwidths[dr] = (125000)
      BY <2>1, SMT DEF CN470!Bandwidths, CN470!Table
    <3> QED BY SMT, <2>1, <2>2, <3>1 DEF CN470!Phy!GetBandwidth
  <2>4. /\ Fsk(r, dr) => CN470!Datarates[dr] = 50
        /\ ~Fsk(r, dr) => CN470!Datarates[dr] = Spreading(r, dr) /\ CN470!Datarates[dr] # 50
    <3>1. CN470!Datarates[dr] = (12 - dr)
      BY <2>1, SMT DEF CN470!Datarates, CN470!Table
    <3> QED BY <2>1, <2>2, <3>1, SMT
  <2>5. /\ CN470!Phy!Modem(dr) = ModemOf(r, dr) /\ CN470!Phy!PhyDatarate(dr) = RateOf(r, dr)
        /\ CN470!Phy!PreambleLen(dr) = PreambleOf(r, dr)
    BY <2>4, SMT DEF CN470!Phy!Modem, CN470!Phy!PhyDatarate, CN470!Phy!PreambleLen, ModemOf,
          RateOf,
       PreambleOf
  <2>6. \A a, b, c, e,
        g : CN470!Phy!TimeOnAirMs(a, b, c, e, g, n) = TimeOnAirMs(a, b, c, e, g, n)
    BY SMT DEF CN470!Phy!TimeOnAirMs, CN470!Phy!BandwidthInHz, CN470!Phy!PayloadSymbols,
       CN470!Phy!LoRaTimeOnAirNumerator, CN470!Phy!DivCeil, CN470!Phy!Most,
       CN470!Phy!LowDatarateOptimize, CN470!Phy!GfskTimeOnAirNumerator, TimeOnAirMs,
       BandwidthInHz, PayloadSymbols, LoRaTimeOnAirNumerator, DivCeil, Most,
       LowDatarateOptimize, GfskTimeOnAirNumerator
  <2>7. RegionGetTimeOnAir(r, dr, n) = CN470!Phy!GetTimeOnAir(dr, n)
    BY SMT, <1>3 DEF RegionGetTimeOnAir, CN470!GetTimeOnAir
  <2>8. RegionGetTimeOnAir(r, dr, n) =
           TimeOnAirMs(ModemOf(r, dr), BandwidthOf(r, dr), RateOf(r, dr), 1, PreambleOf(r, dr), n)
    <3>1. CN470!Phy!GetTimeOnAir(dr, n) =
             CN470!Phy!TimeOnAirMs(ModemOf(r, dr), BandwidthOf(r, dr), RateOf(r, dr), 1,
                                  PreambleOf(r, dr), n)
      BY <2>3, <2>5, Zenon DEF CN470!Phy!GetTimeOnAir
    <3> QED BY <2>6, <2>7, <3>1
  <2> DEFINE frequency == IF rx.rxSlot = "WIN_1" THEN CN470!Plan!Rx1Frequency(p, rx.channel)
                          ELSE rx.frequency
             longest == CN470!MaxPayloadOfDatarate[dr] + CN470!Phy!PayloadOverhead
             inverted == ~(CN470!Phy!Modem(dr) = "FSK")
             width == IF CN470!Phy!Modem(dr) = "FSK" THEN 50000 ELSE rx.bandwidth
             config == CN470!Phy!SetRxConfig(CN470!Phy!Modem(dr), width, CN470!Phy!PhyDatarate(dr),
                          CN470!Phy!PreambleLen(dr), rx.timeout, inverted, rx.rxContinuous)
             same == ConfigOf(r, dr, rx, inverted)
  <2>9. CN470!RxConfig(p, rx) =
           CN470!Phy!WithMaxPayload(CN470!Phy!WithFrequency(config, frequency), longest)
    BY SMT DEF CN470!RxConfig, CN470!Phy!RxConfig
  <2>10. width = WidthOf(r, dr, rx)
    BY <2>5, SMT DEF ModemOf, WidthOf
  <2> HIDE DEF width, inverted, frequency
  <2>11. config = same
    <3>1. \A a, b, c, e, t, iq, on : CN470!Phy!SetRxConfig(a, b, c, e, t, iq, on) =
                                       SetRxConfig(a, b, c, e, t, iq, on)
      BY SMT DEF CN470!Phy!SetRxConfig, CN470!Phy!SymbNumTimeout, CN470!Phy!Least,
         SetRxConfig, SymbNumTimeout, Least
    <3>2. config = CN470!Phy!SetRxConfig(ModemOf(r, dr), width, RateOf(r, dr),
                                        PreambleOf(r, dr), rx.timeout, inverted, FALSE)
      BY <2>5, Zenon
    <3>3. config = SetRxConfig(ModemOf(r, dr), width, RateOf(r, dr), PreambleOf(r, dr),
                               rx.timeout, inverted, FALSE)
      BY <3>1, <3>2
    <3> HIDE DEF config
    <3> QED BY <2>10, <3>3, Zenon DEF ConfigOf
  <2>12. r # "AS923" => longest = PayloadOf(r, dr) + 13
    <3>1. CN470!MaxPayloadOfDatarate[dr] = PayloadOf(r, dr)
      BY SMT, <1>3, <2>1 DEF CN470!MaxPayloadOfDatarate, CN470!Table, PayloadOf
    <3> QED BY <3>1, SMT DEF CN470!Phy!PayloadOverhead
  <2> HIDE DEF config, same, longest
  <2>13. RegionRxConfig(r, p, rx) = CN470!RxConfig(p, rx)
    BY SMT, <1>3 DEF RegionRxConfig
  <2>14. CN470!Phy!WithFrequency(config, frequency) = WithFrequency(config, frequency)
    BY Zenon DEF CN470!Phy!WithFrequency, WithFrequency
  <2>15. \A one : CN470!Phy!WithMaxPayload(one, longest) = WithMaxPayload(one, longest)
    BY Zenon DEF CN470!Phy!WithMaxPayload, WithMaxPayload
  <2>16. RegionRxConfig(r, p, rx) = WithMaxPayload(WithFrequency(same, frequency), longest)
    <3>1. RegionRxConfig(r, p, rx) = WithMaxPayload(WithFrequency(config, frequency), longest)
      BY <2>9, <2>13, <2>14, <2>15, Zenon
    <3> QED BY <2>11, <3>1
  <2>17. Listens(r, dr, p, rx, frequency, inverted, longest)
    BY <2>12, <2>16, Zenon DEF same, Listens
  <2> QED BY <2>8, <2>17
<1>4. CASE r = "CN779"
  <2>1. dr \in 0..7
    BY SMT, <1>4 DEF UplinkDrs, RxDrs
  <2>2. /\ Spreading(r, dr) = (IF dr = 6 THEN 7 ELSE 12 - dr)
        /\ BandwidthOf(r, dr) = (IF dr = 6 THEN 1 ELSE 0)
        /\ Fsk(r, dr) <=> dr = 7
    BY <1>4, <2>1, SMT DEF Spreading, BandwidthOf, WideDr, Fsk, ListNames
  <2>3. CN779!Phy!GetBandwidth(dr, CN779!Bandwidths) = BandwidthOf(r, dr)
    <3>1. CN779!Bandwidths[dr] = (IF dr = 7 THEN 0 ELSE IF dr = 6 THEN 250000 ELSE 125000)
      BY <2>1, SMT DEF CN779!Bandwidths, CN779!Table
    <3> QED BY SMT, <2>1, <2>2, <3>1 DEF CN779!Phy!GetBandwidth
  <2>4. /\ Fsk(r, dr) => CN779!Datarates[dr] = 50
        /\ ~Fsk(r, dr) => CN779!Datarates[dr] = Spreading(r, dr) /\ CN779!Datarates[dr] # 50
    <3>1. CN779!Datarates[dr] = (IF dr = 7 THEN 50 ELSE IF dr = 6 THEN 7 ELSE 12 - dr)
      BY <2>1, SMT DEF CN779!Datarates, CN779!Table
    <3> QED BY <2>1, <2>2, <3>1, SMT
  <2>5. /\ CN779!Phy!Modem(dr) = ModemOf(r, dr) /\ CN779!Phy!PhyDatarate(dr) = RateOf(r, dr)
        /\ CN779!Phy!PreambleLen(dr) = PreambleOf(r, dr)
    BY <2>4, SMT DEF CN779!Phy!Modem, CN779!Phy!PhyDatarate, CN779!Phy!PreambleLen, ModemOf,
          RateOf,
       PreambleOf
  <2>6. \A a, b, c, e,
        g : CN779!Phy!TimeOnAirMs(a, b, c, e, g, n) = TimeOnAirMs(a, b, c, e, g, n)
    BY SMT DEF CN779!Phy!TimeOnAirMs, CN779!Phy!BandwidthInHz, CN779!Phy!PayloadSymbols,
       CN779!Phy!LoRaTimeOnAirNumerator, CN779!Phy!DivCeil, CN779!Phy!Most,
       CN779!Phy!LowDatarateOptimize, CN779!Phy!GfskTimeOnAirNumerator, TimeOnAirMs,
       BandwidthInHz, PayloadSymbols, LoRaTimeOnAirNumerator, DivCeil, Most,
       LowDatarateOptimize, GfskTimeOnAirNumerator
  <2>7. RegionGetTimeOnAir(r, dr, n) = CN779!Phy!GetTimeOnAir(dr, n)
    BY SMT, <1>4 DEF RegionGetTimeOnAir, CN779!GetTimeOnAir
  <2>8. RegionGetTimeOnAir(r, dr, n) =
           TimeOnAirMs(ModemOf(r, dr), BandwidthOf(r, dr), RateOf(r, dr), 1, PreambleOf(r, dr), n)
    <3>1. CN779!Phy!GetTimeOnAir(dr, n) =
             CN779!Phy!TimeOnAirMs(ModemOf(r, dr), BandwidthOf(r, dr), RateOf(r, dr), 1,
                                  PreambleOf(r, dr), n)
      BY <2>3, <2>5, Zenon DEF CN779!Phy!GetTimeOnAir
    <3> QED BY <2>6, <2>7, <3>1
  <2> DEFINE frequency == IF rx.rxSlot = "WIN_1" THEN CN779!Plan!Rx1Frequency(p, rx.channel)
                          ELSE rx.frequency
             longest == CN779!MaxPayloadOfDatarate[dr] + CN779!Phy!PayloadOverhead
             inverted == ~(CN779!Phy!Modem(dr) = "FSK")
             width == IF CN779!Phy!Modem(dr) = "FSK" THEN 50000 ELSE rx.bandwidth
             config == CN779!Phy!SetRxConfig(CN779!Phy!Modem(dr), width, CN779!Phy!PhyDatarate(dr),
                          CN779!Phy!PreambleLen(dr), rx.timeout, inverted, rx.rxContinuous)
             same == ConfigOf(r, dr, rx, inverted)
  <2>9. CN779!RxConfig(p, rx) =
           CN779!Phy!WithMaxPayload(CN779!Phy!WithFrequency(config, frequency), longest)
    BY SMT DEF CN779!RxConfig, CN779!Phy!RxConfig
  <2>10. width = WidthOf(r, dr, rx)
    BY <2>5, SMT DEF ModemOf, WidthOf
  <2> HIDE DEF width, inverted, frequency
  <2>11. config = same
    <3>1. \A a, b, c, e, t, iq, on : CN779!Phy!SetRxConfig(a, b, c, e, t, iq, on) =
                                       SetRxConfig(a, b, c, e, t, iq, on)
      BY SMT DEF CN779!Phy!SetRxConfig, CN779!Phy!SymbNumTimeout, CN779!Phy!Least,
         SetRxConfig, SymbNumTimeout, Least
    <3>2. config = CN779!Phy!SetRxConfig(ModemOf(r, dr), width, RateOf(r, dr),
                                        PreambleOf(r, dr), rx.timeout, inverted, FALSE)
      BY <2>5, Zenon
    <3>3. config = SetRxConfig(ModemOf(r, dr), width, RateOf(r, dr), PreambleOf(r, dr),
                               rx.timeout, inverted, FALSE)
      BY <3>1, <3>2
    <3> HIDE DEF config
    <3> QED BY <2>10, <3>3, Zenon DEF ConfigOf
  <2>12. r # "AS923" => longest = PayloadOf(r, dr) + 13
    <3>1. CN779!MaxPayloadOfDatarate[dr] = PayloadOf(r, dr)
      BY SMT, <1>4, <2>1 DEF CN779!MaxPayloadOfDatarate, CN779!Table, PayloadOf
    <3> QED BY <3>1, SMT DEF CN779!Phy!PayloadOverhead
  <2> HIDE DEF config, same, longest
  <2>13. RegionRxConfig(r, p, rx) = CN779!RxConfig(p, rx)
    BY SMT, <1>4 DEF RegionRxConfig
  <2>14. CN779!Phy!WithFrequency(config, frequency) = WithFrequency(config, frequency)
    BY Zenon DEF CN779!Phy!WithFrequency, WithFrequency
  <2>15. \A one : CN779!Phy!WithMaxPayload(one, longest) = WithMaxPayload(one, longest)
    BY Zenon DEF CN779!Phy!WithMaxPayload, WithMaxPayload
  <2>16. RegionRxConfig(r, p, rx) = WithMaxPayload(WithFrequency(same, frequency), longest)
    <3>1. RegionRxConfig(r, p, rx) = WithMaxPayload(WithFrequency(config, frequency), longest)
      BY <2>9, <2>13, <2>14, <2>15, Zenon
    <3> QED BY <2>11, <3>1
  <2>17. Listens(r, dr, p, rx, frequency, inverted, longest)
    BY <2>12, <2>16, Zenon DEF same, Listens
  <2> QED BY <2>8, <2>17
<1>5. CASE r = "EU433"
  <2>1. dr \in 0..7
    BY SMT, <1>5 DEF UplinkDrs, RxDrs
  <2>2. /\ Spreading(r, dr) = (IF dr = 6 THEN 7 ELSE 12 - dr)
        /\ BandwidthOf(r, dr) = (IF dr = 6 THEN 1 ELSE 0)
        /\ Fsk(r, dr) <=> dr = 7
    BY <1>5, <2>1, SMT DEF Spreading, BandwidthOf, WideDr, Fsk, ListNames
  <2>3. EU433!Phy!GetBandwidth(dr, EU433!Bandwidths) = BandwidthOf(r, dr)
    <3>1. EU433!Bandwidths[dr] = (IF dr = 7 THEN 0 ELSE IF dr = 6 THEN 250000 ELSE 125000)
      BY <2>1, SMT DEF EU433!Bandwidths, EU433!Table
    <3> QED BY SMT, <2>1, <2>2, <3>1 DEF EU433!Phy!GetBandwidth
  <2>4. /\ Fsk(r, dr) => EU433!Datarates[dr] = 50
        /\ ~Fsk(r, dr) => EU433!Datarates[dr] = Spreading(r, dr) /\ EU433!Datarates[dr] # 50
    <3>1. EU433!Datarates[dr] = (IF dr = 7 THEN 50 ELSE IF dr = 6 THEN 7 ELSE 12 - dr)
      BY <2>1, SMT DEF EU433!Datarates, EU433!Table
    <3> QED BY <2>1, <2>2, <3>1, SMT
  <2>5. /\ EU433!Phy!Modem(dr) = ModemOf(r, dr) /\ EU433!Phy!PhyDatarate(dr) = RateOf(r, dr)
        /\ EU433!Phy!PreambleLen(dr) = PreambleOf(r, dr)
    BY <2>4, SMT DEF EU433!Phy!Modem, EU433!Phy!PhyDatarate, EU433!Phy!PreambleLen, ModemOf,
          RateOf,
       PreambleOf
  <2>6. \A a, b, c, e,
        g : EU433!Phy!TimeOnAirMs(a, b, c, e, g, n) = TimeOnAirMs(a, b, c, e, g, n)
    BY SMT DEF EU433!Phy!TimeOnAirMs, EU433!Phy!BandwidthInHz, EU433!Phy!PayloadSymbols,
       EU433!Phy!LoRaTimeOnAirNumerator, EU433!Phy!DivCeil, EU433!Phy!Most,
       EU433!Phy!LowDatarateOptimize, EU433!Phy!GfskTimeOnAirNumerator, TimeOnAirMs,
       BandwidthInHz, PayloadSymbols, LoRaTimeOnAirNumerator, DivCeil, Most,
       LowDatarateOptimize, GfskTimeOnAirNumerator
  <2>7. RegionGetTimeOnAir(r, dr, n) = EU433!Phy!GetTimeOnAir(dr, n)
    BY SMT, <1>5 DEF RegionGetTimeOnAir, EU433!GetTimeOnAir
  <2>8. RegionGetTimeOnAir(r, dr, n) =
           TimeOnAirMs(ModemOf(r, dr), BandwidthOf(r, dr), RateOf(r, dr), 1, PreambleOf(r, dr), n)
    <3>1. EU433!Phy!GetTimeOnAir(dr, n) =
             EU433!Phy!TimeOnAirMs(ModemOf(r, dr), BandwidthOf(r, dr), RateOf(r, dr), 1,
                                  PreambleOf(r, dr), n)
      BY <2>3, <2>5, Zenon DEF EU433!Phy!GetTimeOnAir
    <3> QED BY <2>6, <2>7, <3>1
  <2> DEFINE frequency == IF rx.rxSlot = "WIN_1" THEN EU433!Plan!Rx1Frequency(p, rx.channel)
                          ELSE rx.frequency
             longest == EU433!MaxPayloadOfDatarate[dr] + EU433!Phy!PayloadOverhead
             inverted == ~(EU433!Phy!Modem(dr) = "FSK")
             width == IF EU433!Phy!Modem(dr) = "FSK" THEN 50000 ELSE rx.bandwidth
             config == EU433!Phy!SetRxConfig(EU433!Phy!Modem(dr), width, EU433!Phy!PhyDatarate(dr),
                          EU433!Phy!PreambleLen(dr), rx.timeout, inverted, rx.rxContinuous)
             same == ConfigOf(r, dr, rx, inverted)
  <2>9. EU433!RxConfig(p, rx) =
           EU433!Phy!WithMaxPayload(EU433!Phy!WithFrequency(config, frequency), longest)
    BY SMT DEF EU433!RxConfig, EU433!Phy!RxConfig
  <2>10. width = WidthOf(r, dr, rx)
    BY <2>5, SMT DEF ModemOf, WidthOf
  <2> HIDE DEF width, inverted, frequency
  <2>11. config = same
    <3>1. \A a, b, c, e, t, iq, on : EU433!Phy!SetRxConfig(a, b, c, e, t, iq, on) =
                                       SetRxConfig(a, b, c, e, t, iq, on)
      BY SMT DEF EU433!Phy!SetRxConfig, EU433!Phy!SymbNumTimeout, EU433!Phy!Least,
         SetRxConfig, SymbNumTimeout, Least
    <3>2. config = EU433!Phy!SetRxConfig(ModemOf(r, dr), width, RateOf(r, dr),
                                        PreambleOf(r, dr), rx.timeout, inverted, FALSE)
      BY <2>5, Zenon
    <3>3. config = SetRxConfig(ModemOf(r, dr), width, RateOf(r, dr), PreambleOf(r, dr),
                               rx.timeout, inverted, FALSE)
      BY <3>1, <3>2
    <3> HIDE DEF config
    <3> QED BY <2>10, <3>3, Zenon DEF ConfigOf
  <2>12. r # "AS923" => longest = PayloadOf(r, dr) + 13
    <3>1. EU433!MaxPayloadOfDatarate[dr] = PayloadOf(r, dr)
      BY SMT, <1>5, <2>1 DEF EU433!MaxPayloadOfDatarate, EU433!Table, PayloadOf
    <3> QED BY <3>1, SMT DEF EU433!Phy!PayloadOverhead
  <2> HIDE DEF config, same, longest
  <2>13. RegionRxConfig(r, p, rx) = EU433!RxConfig(p, rx)
    BY SMT, <1>5 DEF RegionRxConfig
  <2>14. EU433!Phy!WithFrequency(config, frequency) = WithFrequency(config, frequency)
    BY Zenon DEF EU433!Phy!WithFrequency, WithFrequency
  <2>15. \A one : EU433!Phy!WithMaxPayload(one, longest) = WithMaxPayload(one, longest)
    BY Zenon DEF EU433!Phy!WithMaxPayload, WithMaxPayload
  <2>16. RegionRxConfig(r, p, rx) = WithMaxPayload(WithFrequency(same, frequency), longest)
    <3>1. RegionRxConfig(r, p, rx) = WithMaxPayload(WithFrequency(config, frequency), longest)
      BY <2>9, <2>13, <2>14, <2>15, Zenon
    <3> QED BY <2>11, <3>1
  <2>17. Listens(r, dr, p, rx, frequency, inverted, longest)
    BY <2>12, <2>16, Zenon DEF same, Listens
  <2> QED BY <2>8, <2>17
<1>6. CASE r = "EU868"
  <2>1. dr \in 0..7
    BY SMT, <1>6 DEF UplinkDrs, RxDrs
  <2>2. /\ Spreading(r, dr) = (IF dr = 6 THEN 7 ELSE 12 - dr)
        /\ BandwidthOf(r, dr) = (IF dr = 6 THEN 1 ELSE 0)
        /\ Fsk(r, dr) <=> dr = 7
    BY <1>6, <2>1, SMT DEF Spreading, BandwidthOf, WideDr, Fsk, ListNames
  <2>3. EU868!Phy!GetBandwidth(dr, EU868!Bandwidths) = BandwidthOf(r, dr)
    <3>1. EU868!Bandwidths[dr] = (IF dr = 7 THEN 0 ELSE IF dr = 6 THEN 250000 ELSE 125000)
      BY <2>1, SMT DEF EU868!Bandwidths, EU868!Table
    <3> QED BY SMT, <2>1, <2>2, <3>1 DEF EU868!Phy!GetBandwidth
  <2>4. /\ Fsk(r, dr) => EU868!Datarates[dr] = 50
        /\ ~Fsk(r, dr) => EU868!Datarates[dr] = Spreading(r, dr) /\ EU868!Datarates[dr] # 50
    <3>1. EU868!Datarates[dr] = (IF dr = 7 THEN 50 ELSE IF dr = 6 THEN 7 ELSE 12 - dr)
      BY <2>1, SMT DEF EU868!Datarates, EU868!Table
    <3> QED BY <2>1, <2>2, <3>1, SMT
  <2>5. /\ EU868!Phy!Modem(dr) = ModemOf(r, dr) /\ EU868!Phy!PhyDatarate(dr) = RateOf(r, dr)
        /\ EU868!Phy!PreambleLen(dr) = PreambleOf(r, dr)
    BY <2>4, SMT DEF EU868!Phy!Modem, EU868!Phy!PhyDatarate, EU868!Phy!PreambleLen, ModemOf,
          RateOf,
       PreambleOf
  <2>6. \A a, b, c, e,
        g : EU868!Phy!TimeOnAirMs(a, b, c, e, g, n) = TimeOnAirMs(a, b, c, e, g, n)
    BY SMT DEF EU868!Phy!TimeOnAirMs, EU868!Phy!BandwidthInHz, EU868!Phy!PayloadSymbols,
       EU868!Phy!LoRaTimeOnAirNumerator, EU868!Phy!DivCeil, EU868!Phy!Most,
       EU868!Phy!LowDatarateOptimize, EU868!Phy!GfskTimeOnAirNumerator, TimeOnAirMs,
       BandwidthInHz, PayloadSymbols, LoRaTimeOnAirNumerator, DivCeil, Most,
       LowDatarateOptimize, GfskTimeOnAirNumerator
  <2>7. RegionGetTimeOnAir(r, dr, n) = EU868!Phy!GetTimeOnAir(dr, n)
    BY SMT, <1>6 DEF RegionGetTimeOnAir, EU868!GetTimeOnAir
  <2>8. RegionGetTimeOnAir(r, dr, n) =
           TimeOnAirMs(ModemOf(r, dr), BandwidthOf(r, dr), RateOf(r, dr), 1, PreambleOf(r, dr), n)
    <3>1. EU868!Phy!GetTimeOnAir(dr, n) =
             EU868!Phy!TimeOnAirMs(ModemOf(r, dr), BandwidthOf(r, dr), RateOf(r, dr), 1,
                                  PreambleOf(r, dr), n)
      BY <2>3, <2>5, Zenon DEF EU868!Phy!GetTimeOnAir
    <3> QED BY <2>6, <2>7, <3>1
  <2> DEFINE frequency == IF rx.rxSlot = "WIN_1" THEN EU868!Plan!Rx1Frequency(p, rx.channel)
                          ELSE rx.frequency
             longest == EU868!MaxPayloadOfDatarate[dr] + EU868!Phy!PayloadOverhead
             inverted == ~(EU868!Phy!Modem(dr) = "FSK")
             width == IF EU868!Phy!Modem(dr) = "FSK" THEN 50000 ELSE rx.bandwidth
             config == EU868!Phy!SetRxConfig(EU868!Phy!Modem(dr), width, EU868!Phy!PhyDatarate(dr),
                          EU868!Phy!PreambleLen(dr), rx.timeout, inverted, rx.rxContinuous)
             same == ConfigOf(r, dr, rx, inverted)
  <2>9. EU868!RxConfig(p, rx) =
           EU868!Phy!WithMaxPayload(EU868!Phy!WithFrequency(config, frequency), longest)
    BY SMT DEF EU868!RxConfig, EU868!Phy!RxConfig
  <2>10. width = WidthOf(r, dr, rx)
    BY <2>5, SMT DEF ModemOf, WidthOf
  <2> HIDE DEF width, inverted, frequency
  <2>11. config = same
    <3>1. \A a, b, c, e, t, iq, on : EU868!Phy!SetRxConfig(a, b, c, e, t, iq, on) =
                                       SetRxConfig(a, b, c, e, t, iq, on)
      BY SMT DEF EU868!Phy!SetRxConfig, EU868!Phy!SymbNumTimeout, EU868!Phy!Least,
         SetRxConfig, SymbNumTimeout, Least
    <3>2. config = EU868!Phy!SetRxConfig(ModemOf(r, dr), width, RateOf(r, dr),
                                        PreambleOf(r, dr), rx.timeout, inverted, FALSE)
      BY <2>5, Zenon
    <3>3. config = SetRxConfig(ModemOf(r, dr), width, RateOf(r, dr), PreambleOf(r, dr),
                               rx.timeout, inverted, FALSE)
      BY <3>1, <3>2
    <3> HIDE DEF config
    <3> QED BY <2>10, <3>3, Zenon DEF ConfigOf
  <2>12. r # "AS923" => longest = PayloadOf(r, dr) + 13
    <3>1. EU868!MaxPayloadOfDatarate[dr] = PayloadOf(r, dr)
      BY SMT, <1>6, <2>1 DEF EU868!MaxPayloadOfDatarate, EU868!Table, PayloadOf
    <3> QED BY <3>1, SMT DEF EU868!Phy!PayloadOverhead
  <2> HIDE DEF config, same, longest
  <2>13. RegionRxConfig(r, p, rx) = EU868!RxConfig(p, rx)
    BY SMT, <1>6 DEF RegionRxConfig
  <2>14. EU868!Phy!WithFrequency(config, frequency) = WithFrequency(config, frequency)
    BY Zenon DEF EU868!Phy!WithFrequency, WithFrequency
  <2>15. \A one : EU868!Phy!WithMaxPayload(one, longest) = WithMaxPayload(one, longest)
    BY Zenon DEF EU868!Phy!WithMaxPayload, WithMaxPayload
  <2>16. RegionRxConfig(r, p, rx) = WithMaxPayload(WithFrequency(same, frequency), longest)
    <3>1. RegionRxConfig(r, p, rx) = WithMaxPayload(WithFrequency(config, frequency), longest)
      BY <2>9, <2>13, <2>14, <2>15, Zenon
    <3> QED BY <2>11, <3>1
  <2>17. Listens(r, dr, p, rx, frequency, inverted, longest)
    BY <2>12, <2>16, Zenon DEF same, Listens
  <2> QED BY <2>8, <2>17
<1>7. CASE r = "IN865"
  <2>1. dr \in 0..7
    BY SMT, <1>7 DEF UplinkDrs, RxDrs
  <2>2. /\ Spreading(r, dr) = (IF dr = 6 THEN 7 ELSE 12 - dr)
        /\ BandwidthOf(r, dr) = (IF dr = 6 THEN 1 ELSE 0)
        /\ Fsk(r, dr) <=> dr = 7
    BY <1>7, <2>1, SMT DEF Spreading, BandwidthOf, WideDr, Fsk, ListNames
  <2>3. IN865!Phy!GetBandwidth(dr, IN865!Bandwidths) = BandwidthOf(r, dr)
    <3>1. IN865!Bandwidths[dr] = (IF dr = 7 THEN 0 ELSE IF dr = 6 THEN 250000 ELSE 125000)
      BY <2>1, SMT DEF IN865!Bandwidths, IN865!Table
    <3> QED BY SMT, <2>1, <2>2, <3>1 DEF IN865!Phy!GetBandwidth
  <2>4. /\ Fsk(r, dr) => IN865!Datarates[dr] = 50
        /\ ~Fsk(r, dr) => IN865!Datarates[dr] = Spreading(r, dr) /\ IN865!Datarates[dr] # 50
    <3>1. IN865!Datarates[dr] = (IF dr = 7 THEN 50 ELSE IF dr = 6 THEN 7 ELSE 12 - dr)
      BY <2>1, SMT DEF IN865!Datarates, IN865!Table
    <3> QED BY <2>1, <2>2, <3>1, SMT
  <2>5. /\ IN865!Phy!Modem(dr) = ModemOf(r, dr) /\ IN865!Phy!PhyDatarate(dr) = RateOf(r, dr)
        /\ IN865!Phy!PreambleLen(dr) = PreambleOf(r, dr)
    BY <2>4, SMT DEF IN865!Phy!Modem, IN865!Phy!PhyDatarate, IN865!Phy!PreambleLen, ModemOf,
          RateOf,
       PreambleOf
  <2>6. \A a, b, c, e,
        g : IN865!Phy!TimeOnAirMs(a, b, c, e, g, n) = TimeOnAirMs(a, b, c, e, g, n)
    BY SMT DEF IN865!Phy!TimeOnAirMs, IN865!Phy!BandwidthInHz, IN865!Phy!PayloadSymbols,
       IN865!Phy!LoRaTimeOnAirNumerator, IN865!Phy!DivCeil, IN865!Phy!Most,
       IN865!Phy!LowDatarateOptimize, IN865!Phy!GfskTimeOnAirNumerator, TimeOnAirMs,
       BandwidthInHz, PayloadSymbols, LoRaTimeOnAirNumerator, DivCeil, Most,
       LowDatarateOptimize, GfskTimeOnAirNumerator
  <2>7. RegionGetTimeOnAir(r, dr, n) = IN865!Phy!GetTimeOnAir(dr, n)
    BY SMT, <1>7 DEF RegionGetTimeOnAir, IN865!GetTimeOnAir
  <2>8. RegionGetTimeOnAir(r, dr, n) =
           TimeOnAirMs(ModemOf(r, dr), BandwidthOf(r, dr), RateOf(r, dr), 1, PreambleOf(r, dr), n)
    <3>1. IN865!Phy!GetTimeOnAir(dr, n) =
             IN865!Phy!TimeOnAirMs(ModemOf(r, dr), BandwidthOf(r, dr), RateOf(r, dr), 1,
                                  PreambleOf(r, dr), n)
      BY <2>3, <2>5, Zenon DEF IN865!Phy!GetTimeOnAir
    <3> QED BY <2>6, <2>7, <3>1
  <2> DEFINE frequency == IF rx.rxSlot = "WIN_1" THEN IN865!Plan!Rx1Frequency(p, rx.channel)
                          ELSE rx.frequency
             longest == IN865!MaxPayloadOfDatarate[dr] + IN865!Phy!PayloadOverhead
             inverted == ~(IN865!Phy!Modem(dr) = "FSK")
             width == IF IN865!Phy!Modem(dr) = "FSK" THEN 50000 ELSE rx.bandwidth
             config == IN865!Phy!SetRxConfig(IN865!Phy!Modem(dr), width, IN865!Phy!PhyDatarate(dr),
                          IN865!Phy!PreambleLen(dr), rx.timeout, inverted, rx.rxContinuous)
             same == ConfigOf(r, dr, rx, inverted)
  <2>9. IN865!RxConfig(p, rx) =
           IN865!Phy!WithMaxPayload(IN865!Phy!WithFrequency(config, frequency), longest)
    BY SMT DEF IN865!RxConfig, IN865!Phy!RxConfig
  <2>10. width = WidthOf(r, dr, rx)
    BY <2>5, SMT DEF ModemOf, WidthOf
  <2> HIDE DEF width, inverted, frequency
  <2>11. config = same
    <3>1. \A a, b, c, e, t, iq, on : IN865!Phy!SetRxConfig(a, b, c, e, t, iq, on) =
                                       SetRxConfig(a, b, c, e, t, iq, on)
      BY SMT DEF IN865!Phy!SetRxConfig, IN865!Phy!SymbNumTimeout, IN865!Phy!Least,
         SetRxConfig, SymbNumTimeout, Least
    <3>2. config = IN865!Phy!SetRxConfig(ModemOf(r, dr), width, RateOf(r, dr),
                                        PreambleOf(r, dr), rx.timeout, inverted, FALSE)
      BY <2>5, Zenon
    <3>3. config = SetRxConfig(ModemOf(r, dr), width, RateOf(r, dr), PreambleOf(r, dr),
                               rx.timeout, inverted, FALSE)
      BY <3>1, <3>2
    <3> HIDE DEF config
    <3> QED BY <2>10, <3>3, Zenon DEF ConfigOf
  <2>12. r # "AS923" => longest = PayloadOf(r, dr) + 13
    <3>1. IN865!MaxPayloadOfDatarate[dr] = PayloadOf(r, dr)
      BY SMT, <1>7, <2>1 DEF IN865!MaxPayloadOfDatarate, IN865!Table, PayloadOf
    <3> QED BY <3>1, SMT DEF IN865!Phy!PayloadOverhead
  <2> HIDE DEF config, same, longest
  <2>13. RegionRxConfig(r, p, rx) = IN865!RxConfig(p, rx)
    BY SMT, <1>7 DEF RegionRxConfig
  <2>14. IN865!Phy!WithFrequency(config, frequency) = WithFrequency(config, frequency)
    BY Zenon DEF IN865!Phy!WithFrequency, WithFrequency
  <2>15. \A one : IN865!Phy!WithMaxPayload(one, longest) = WithMaxPayload(one, longest)
    BY Zenon DEF IN865!Phy!WithMaxPayload, WithMaxPayload
  <2>16. RegionRxConfig(r, p, rx) = WithMaxPayload(WithFrequency(same, frequency), longest)
    <3>1. RegionRxConfig(r, p, rx) = WithMaxPayload(WithFrequency(config, frequency), longest)
      BY <2>9, <2>13, <2>14, <2>15, Zenon
    <3> QED BY <2>11, <3>1
  <2>17. Listens(r, dr, p, rx, frequency, inverted, longest)
    BY <2>12, <2>16, Zenon DEF same, Listens
  <2> QED BY <2>8, <2>17
<1>8. CASE r = "KR920"
  <2>1. dr \in 0..5
    BY SMT, <1>8 DEF UplinkDrs, RxDrs
  <2>2. /\ Spreading(r, dr) = (12 - dr)
        /\ BandwidthOf(r, dr) = (0)
        /\ Fsk(r, dr) <=> FALSE
    BY <1>8, <2>1, SMT DEF Spreading, BandwidthOf, WideDr, Fsk, ListNames
  <2>3. KR920!Phy!GetBandwidth(dr, KR920!Bandwidths) = BandwidthOf(r, dr)
    <3>1. KR920!Bandwidths[dr] = (125000)
      BY <2>1, SMT DEF KR920!Bandwidths, KR920!Table
    <3> QED BY SMT, <2>1, <2>2, <3>1 DEF KR920!Phy!GetBandwidth
  <2>4. /\ Fsk(r, dr) => KR920!Datarates[dr] = 50
        /\ ~Fsk(r, dr) => KR920!Datarates[dr] = Spreading(r, dr) /\ KR920!Datarates[dr] # 50
    <3>1. KR920!Datarates[dr] = (12 - dr)
      BY <2>1, SMT DEF KR920!Datarates, KR920!Table
    <3> QED BY <2>1, <2>2, <3>1, SMT
  <2>5. /\ KR920!Phy!Modem(dr) = ModemOf(r, dr) /\ KR920!Phy!PhyDatarate(dr) = RateOf(r, dr)
        /\ KR920!Phy!PreambleLen(dr) = PreambleOf(r, dr)
    BY <2>4, SMT DEF KR920!Phy!Modem, KR920!Phy!PhyDatarate, KR920!Phy!PreambleLen, ModemOf,
          RateOf,
       PreambleOf
  <2>6. \A a, b, c, e,
        g : KR920!Phy!TimeOnAirMs(a, b, c, e, g, n) = TimeOnAirMs(a, b, c, e, g, n)
    BY SMT DEF KR920!Phy!TimeOnAirMs, KR920!Phy!BandwidthInHz, KR920!Phy!PayloadSymbols,
       KR920!Phy!LoRaTimeOnAirNumerator, KR920!Phy!DivCeil, KR920!Phy!Most,
       KR920!Phy!LowDatarateOptimize, KR920!Phy!GfskTimeOnAirNumerator, TimeOnAirMs,
       BandwidthInHz, PayloadSymbols, LoRaTimeOnAirNumerator, DivCeil, Most,
       LowDatarateOptimize, GfskTimeOnAirNumerator
  <2>7. RegionGetTimeOnAir(r, dr, n) = KR920!Phy!GetTimeOnAir(dr, n)
    BY SMT, <1>8 DEF RegionGetTimeOnAir, KR920!GetTimeOnAir
  <2>8. RegionGetTimeOnAir(r, dr, n) =
           TimeOnAirMs(ModemOf(r, dr), BandwidthOf(r, dr), RateOf(r, dr), 1, PreambleOf(r, dr), n)
    <3>1. KR920!Phy!GetTimeOnAir(dr, n) =
             KR920!Phy!TimeOnAirMs(ModemOf(r, dr), BandwidthOf(r, dr), RateOf(r, dr), 1,
                                  PreambleOf(r, dr), n)
      BY <2>3, <2>5, Zenon DEF KR920!Phy!GetTimeOnAir
    <3> QED BY <2>6, <2>7, <3>1
  <2> DEFINE frequency == IF rx.rxSlot = "WIN_1" THEN KR920!Plan!Rx1Frequency(p, rx.channel)
                          ELSE rx.frequency
             longest == KR920!MaxPayloadOfDatarate[dr] + KR920!Phy!PayloadOverhead
             inverted == ~(KR920!Phy!Modem(dr) = "FSK")
             width == IF KR920!Phy!Modem(dr) = "FSK" THEN 50000 ELSE rx.bandwidth
             config == KR920!Phy!SetRxConfig(KR920!Phy!Modem(dr), width, KR920!Phy!PhyDatarate(dr),
                          KR920!Phy!PreambleLen(dr), rx.timeout, inverted, rx.rxContinuous)
             same == ConfigOf(r, dr, rx, inverted)
  <2>9. KR920!RxConfig(p, rx) =
           KR920!Phy!WithMaxPayload(KR920!Phy!WithFrequency(config, frequency), longest)
    BY SMT DEF KR920!RxConfig, KR920!Phy!RxConfig
  <2>10. width = WidthOf(r, dr, rx)
    BY <2>5, SMT DEF ModemOf, WidthOf
  <2> HIDE DEF width, inverted, frequency
  <2>11. config = same
    <3>1. \A a, b, c, e, t, iq, on : KR920!Phy!SetRxConfig(a, b, c, e, t, iq, on) =
                                       SetRxConfig(a, b, c, e, t, iq, on)
      BY SMT DEF KR920!Phy!SetRxConfig, KR920!Phy!SymbNumTimeout, KR920!Phy!Least,
         SetRxConfig, SymbNumTimeout, Least
    <3>2. config = KR920!Phy!SetRxConfig(ModemOf(r, dr), width, RateOf(r, dr),
                                        PreambleOf(r, dr), rx.timeout, inverted, FALSE)
      BY <2>5, Zenon
    <3>3. config = SetRxConfig(ModemOf(r, dr), width, RateOf(r, dr), PreambleOf(r, dr),
                               rx.timeout, inverted, FALSE)
      BY <3>1, <3>2
    <3> HIDE DEF config
    <3> QED BY <2>10, <3>3, Zenon DEF ConfigOf
  <2>12. r # "AS923" => longest = PayloadOf(r, dr) + 13
    <3>1. KR920!MaxPayloadOfDatarate[dr] = PayloadOf(r, dr)
      BY SMT, <1>8, <2>1 DEF KR920!MaxPayloadOfDatarate, KR920!Table, PayloadOf
    <3> QED BY <3>1, SMT DEF KR920!Phy!PayloadOverhead
  <2> HIDE DEF config, same, longest
  <2>13. RegionRxConfig(r, p, rx) = KR920!RxConfig(p, rx)
    BY SMT, <1>8 DEF RegionRxConfig
  <2>14. KR920!Phy!WithFrequency(config, frequency) = WithFrequency(config, frequency)
    BY Zenon DEF KR920!Phy!WithFrequency, WithFrequency
  <2>15. \A one : KR920!Phy!WithMaxPayload(one, longest) = WithMaxPayload(one, longest)
    BY Zenon DEF KR920!Phy!WithMaxPayload, WithMaxPayload
  <2>16. RegionRxConfig(r, p, rx) = WithMaxPayload(WithFrequency(same, frequency), longest)
    <3>1. RegionRxConfig(r, p, rx) = WithMaxPayload(WithFrequency(config, frequency), longest)
      BY <2>9, <2>13, <2>14, <2>15, Zenon
    <3> QED BY <2>11, <3>1
  <2>17. Listens(r, dr, p, rx, frequency, inverted, longest)
    BY <2>12, <2>16, Zenon DEF same, Listens
  <2> QED BY <2>8, <2>17
<1>9. CASE r = "RU864"
  <2>1. dr \in 0..7
    BY SMT, <1>9 DEF UplinkDrs, RxDrs
  <2>2. /\ Spreading(r, dr) = (IF dr = 6 THEN 7 ELSE 12 - dr)
        /\ BandwidthOf(r, dr) = (IF dr = 6 THEN 1 ELSE 0)
        /\ Fsk(r, dr) <=> dr = 7
    BY <1>9, <2>1, SMT DEF Spreading, BandwidthOf, WideDr, Fsk, ListNames
  <2>3. RU864!Phy!GetBandwidth(dr, RU864!Bandwidths) = BandwidthOf(r, dr)
    <3>1. RU864!Bandwidths[dr] = (IF dr = 7 THEN 0 ELSE IF dr = 6 THEN 250000 ELSE 125000)
      BY <2>1, SMT DEF RU864!Bandwidths, RU864!Table
    <3> QED BY SMT, <2>1, <2>2, <3>1 DEF RU864!Phy!GetBandwidth
  <2>4. /\ Fsk(r, dr) => RU864!Datarates[dr] = 50
        /\ ~Fsk(r, dr) => RU864!Datarates[dr] = Spreading(r, dr) /\ RU864!Datarates[dr] # 50
    <3>1. RU864!Datarates[dr] = (IF dr = 7 THEN 50 ELSE IF dr = 6 THEN 7 ELSE 12 - dr)
      BY <2>1, SMT DEF RU864!Datarates, RU864!Table
    <3> QED BY <2>1, <2>2, <3>1, SMT
  <2>5. /\ RU864!Phy!Modem(dr) = ModemOf(r, dr) /\ RU864!Phy!PhyDatarate(dr) = RateOf(r, dr)
        /\ RU864!Phy!PreambleLen(dr) = PreambleOf(r, dr)
    BY <2>4, SMT DEF RU864!Phy!Modem, RU864!Phy!PhyDatarate, RU864!Phy!PreambleLen, ModemOf,
          RateOf,
       PreambleOf
  <2>6. \A a, b, c, e,
        g : RU864!Phy!TimeOnAirMs(a, b, c, e, g, n) = TimeOnAirMs(a, b, c, e, g, n)
    BY SMT DEF RU864!Phy!TimeOnAirMs, RU864!Phy!BandwidthInHz, RU864!Phy!PayloadSymbols,
       RU864!Phy!LoRaTimeOnAirNumerator, RU864!Phy!DivCeil, RU864!Phy!Most,
       RU864!Phy!LowDatarateOptimize, RU864!Phy!GfskTimeOnAirNumerator, TimeOnAirMs,
       BandwidthInHz, PayloadSymbols, LoRaTimeOnAirNumerator, DivCeil, Most,
       LowDatarateOptimize, GfskTimeOnAirNumerator
  <2>7. RegionGetTimeOnAir(r, dr, n) = RU864!Phy!GetTimeOnAir(dr, n)
    BY SMT, <1>9 DEF RegionGetTimeOnAir, RU864!GetTimeOnAir
  <2>8. RegionGetTimeOnAir(r, dr, n) =
           TimeOnAirMs(ModemOf(r, dr), BandwidthOf(r, dr), RateOf(r, dr), 1, PreambleOf(r, dr), n)
    <3>1. RU864!Phy!GetTimeOnAir(dr, n) =
             RU864!Phy!TimeOnAirMs(ModemOf(r, dr), BandwidthOf(r, dr), RateOf(r, dr), 1,
                                  PreambleOf(r, dr), n)
      BY <2>3, <2>5, Zenon DEF RU864!Phy!GetTimeOnAir
    <3> QED BY <2>6, <2>7, <3>1
  <2> DEFINE frequency == IF rx.rxSlot = "WIN_1" THEN RU864!Plan!Rx1Frequency(p, rx.channel)
                          ELSE rx.frequency
             longest == RU864!MaxPayloadOfDatarate[dr] + RU864!Phy!PayloadOverhead
             inverted == ~(RU864!Phy!Modem(dr) = "FSK")
             width == IF RU864!Phy!Modem(dr) = "FSK" THEN 50000 ELSE rx.bandwidth
             config == RU864!Phy!SetRxConfig(RU864!Phy!Modem(dr), width, RU864!Phy!PhyDatarate(dr),
                          RU864!Phy!PreambleLen(dr), rx.timeout, inverted, rx.rxContinuous)
             same == ConfigOf(r, dr, rx, inverted)
  <2>9. RU864!RxConfig(p, rx) =
           RU864!Phy!WithMaxPayload(RU864!Phy!WithFrequency(config, frequency), longest)
    BY SMT DEF RU864!RxConfig, RU864!Phy!RxConfig
  <2>10. width = WidthOf(r, dr, rx)
    BY <2>5, SMT DEF ModemOf, WidthOf
  <2> HIDE DEF width, inverted, frequency
  <2>11. config = same
    <3>1. \A a, b, c, e, t, iq, on : RU864!Phy!SetRxConfig(a, b, c, e, t, iq, on) =
                                       SetRxConfig(a, b, c, e, t, iq, on)
      BY SMT DEF RU864!Phy!SetRxConfig, RU864!Phy!SymbNumTimeout, RU864!Phy!Least,
         SetRxConfig, SymbNumTimeout, Least
    <3>2. config = RU864!Phy!SetRxConfig(ModemOf(r, dr), width, RateOf(r, dr),
                                        PreambleOf(r, dr), rx.timeout, inverted, FALSE)
      BY <2>5, Zenon
    <3>3. config = SetRxConfig(ModemOf(r, dr), width, RateOf(r, dr), PreambleOf(r, dr),
                               rx.timeout, inverted, FALSE)
      BY <3>1, <3>2
    <3> HIDE DEF config
    <3> QED BY <2>10, <3>3, Zenon DEF ConfigOf
  <2>12. r # "AS923" => longest = PayloadOf(r, dr) + 13
    <3>1. RU864!MaxPayloadOfDatarate[dr] = PayloadOf(r, dr)
      BY SMT, <1>9, <2>1 DEF RU864!MaxPayloadOfDatarate, RU864!Table, PayloadOf
    <3> QED BY <3>1, SMT DEF RU864!Phy!PayloadOverhead
  <2> HIDE DEF config, same, longest
  <2>13. RegionRxConfig(r, p, rx) = RU864!RxConfig(p, rx)
    BY SMT, <1>9 DEF RegionRxConfig
  <2>14. RU864!Phy!WithFrequency(config, frequency) = WithFrequency(config, frequency)
    BY Zenon DEF RU864!Phy!WithFrequency, WithFrequency
  <2>15. \A one : RU864!Phy!WithMaxPayload(one, longest) = WithMaxPayload(one, longest)
    BY Zenon DEF RU864!Phy!WithMaxPayload, WithMaxPayload
  <2>16. RegionRxConfig(r, p, rx) = WithMaxPayload(WithFrequency(same, frequency), longest)
    <3>1. RegionRxConfig(r, p, rx) = WithMaxPayload(WithFrequency(config, frequency), longest)
      BY <2>9, <2>13, <2>14, <2>15, Zenon
    <3> QED BY <2>11, <3>1
  <2>17. Listens(r, dr, p, rx, frequency, inverted, longest)
    BY <2>12, <2>16, Zenon DEF same, Listens
  <2> QED BY <2>8, <2>17
<1>10. CASE r = "US915"
  <2>1. dr \in (0..4) \cup (8..13)
    BY SMT, <1>10 DEF UplinkDrs, RxDrs
  <2>2. /\ Spreading(r, dr) = (IF dr >= 8 THEN 20 - dr ELSE IF dr = 4 THEN 8 ELSE 10 - dr)
        /\ BandwidthOf(r, dr) = (IF dr >= 4 THEN 2 ELSE 0)
        /\ Fsk(r, dr) <=> FALSE
    BY <1>10, <2>1, SMT DEF Spreading, BandwidthOf, WideDr, Fsk, ListNames
  <2>3. US915!Phy!GetBandwidth(dr, US915!Bandwidths) = BandwidthOf(r, dr)
    <3>1. US915!Bandwidths[dr] = (IF dr >= 4 THEN 500000 ELSE 125000)
      BY <2>1, SMT DEF US915!Bandwidths, US915!Table
    <3> QED BY SMT, <2>1, <2>2, <3>1 DEF US915!Phy!GetBandwidth
  <2>4. /\ Fsk(r, dr) => US915!Datarates[dr] = 50
        /\ ~Fsk(r, dr) => US915!Datarates[dr] = Spreading(r, dr) /\ US915!Datarates[dr] # 50
    <3>1. US915!Datarates[dr] = (IF dr >= 8 THEN 20 - dr ELSE IF dr = 4 THEN 8 ELSE 10 - dr)
      BY <2>1, SMT DEF US915!Datarates, US915!Table
    <3> QED BY <2>1, <2>2, <3>1, SMT
  <2>5. /\ US915!Phy!Modem(dr) = ModemOf(r, dr) /\ US915!Phy!PhyDatarate(dr) = RateOf(r, dr)
        /\ US915!Phy!PreambleLen(dr) = PreambleOf(r, dr)
    BY <2>4, SMT DEF US915!Phy!Modem, US915!Phy!PhyDatarate, US915!Phy!PreambleLen, ModemOf,
          RateOf,
       PreambleOf
  <2>6. \A a, b, c, e,
        g : US915!Phy!TimeOnAirMs(a, b, c, e, g, n) = TimeOnAirMs(a, b, c, e, g, n)
    BY SMT DEF US915!Phy!TimeOnAirMs, US915!Phy!BandwidthInHz, US915!Phy!PayloadSymbols,
       US915!Phy!LoRaTimeOnAirNumerator, US915!Phy!DivCeil, US915!Phy!Most,
       US915!Phy!LowDatarateOptimize, US915!Phy!GfskTimeOnAirNumerator, TimeOnAirMs,
       BandwidthInHz, PayloadSymbols, LoRaTimeOnAirNumerator, DivCeil, Most,
       LowDatarateOptimize, GfskTimeOnAirNumerator
  <2>7. RegionGetTimeOnAir(r, dr, n) = US915!Phy!GetTimeOnAir(dr, n)
    BY SMT, <1>10 DEF RegionGetTimeOnAir, US915!GetTimeOnAir
  <2>8. RegionGetTimeOnAir(r, dr, n) =
           TimeOnAirMs(ModemOf(r, dr), BandwidthOf(r, dr), RateOf(r, dr), 1, PreambleOf(r, dr), n)
    <3>1. US915!Phy!GetTimeOnAir(dr, n) =
             US915!Phy!TimeOnAirMs(ModemOf(r, dr), BandwidthOf(r, dr), RateOf(r, dr), 1,
                                  PreambleOf(r, dr), n)
      BY <2>3, <2>5, Zenon DEF US915!Phy!GetTimeOnAir
    <3> QED BY <2>6, <2>7, <3>1
  <2> DEFINE frequency == IF rx.rxSlot = "WIN_1" THEN US915!Plan!Rx1Frequency(p, rx.channel)
                          ELSE rx.frequency
             longest == US915!MaxPayloadOfDatarate[dr] + US915!Phy!PayloadOverhead
             inverted == ~(US915!Phy!Modem(dr) = "FSK")
             width == IF US915!Phy!Modem(dr) = "FSK" THEN 50000 ELSE rx.bandwidth
             config == US915!Phy!SetRxConfig(US915!Phy!Modem(dr), width, US915!Phy!PhyDatarate(dr),
                          US915!Phy!PreambleLen(dr), rx.timeout, inverted, rx.rxContinuous)
             same == ConfigOf(r, dr, rx, inverted)
  <2>9. US915!RxConfig(p, rx) =
           US915!Phy!WithMaxPayload(US915!Phy!WithFrequency(config, frequency), longest)
    BY SMT DEF US915!RxConfig, US915!Phy!RxConfig
  <2>10. width = WidthOf(r, dr, rx)
    BY <2>5, SMT DEF ModemOf, WidthOf
  <2> HIDE DEF width, inverted, frequency
  <2>11. config = same
    <3>1. \A a, b, c, e, t, iq, on : US915!Phy!SetRxConfig(a, b, c, e, t, iq, on) =
                                       SetRxConfig(a, b, c, e, t, iq, on)
      BY SMT DEF US915!Phy!SetRxConfig, US915!Phy!SymbNumTimeout, US915!Phy!Least,
         SetRxConfig, SymbNumTimeout, Least
    <3>2. config = US915!Phy!SetRxConfig(ModemOf(r, dr), width, RateOf(r, dr),
                                        PreambleOf(r, dr), rx.timeout, inverted, FALSE)
      BY <2>5, Zenon
    <3>3. config = SetRxConfig(ModemOf(r, dr), width, RateOf(r, dr), PreambleOf(r, dr),
                               rx.timeout, inverted, FALSE)
      BY <3>1, <3>2
    <3> HIDE DEF config
    <3> QED BY <2>10, <3>3, Zenon DEF ConfigOf
  <2>12. r # "AS923" => longest = PayloadOf(r, dr) + 13
    <3>1. US915!MaxPayloadOfDatarate[dr] = PayloadOf(r, dr)
      BY SMT, <1>10, <2>1 DEF US915!MaxPayloadOfDatarate, US915!Table, PayloadOf
    <3> QED BY <3>1, SMT DEF US915!Phy!PayloadOverhead
  <2> HIDE DEF config, same, longest
  <2>13. RegionRxConfig(r, p, rx) = US915!RxConfig(p, rx)
    BY SMT, <1>10 DEF RegionRxConfig
  <2>14. US915!Phy!WithFrequency(config, frequency) = WithFrequency(config, frequency)
    BY Zenon DEF US915!Phy!WithFrequency, WithFrequency
  <2>15. \A one : US915!Phy!WithMaxPayload(one, longest) = WithMaxPayload(one, longest)
    BY Zenon DEF US915!Phy!WithMaxPayload, WithMaxPayload
  <2>16. RegionRxConfig(r, p, rx) = WithMaxPayload(WithFrequency(same, frequency), longest)
    <3>1. RegionRxConfig(r, p, rx) = WithMaxPayload(WithFrequency(config, frequency), longest)
      BY <2>9, <2>13, <2>14, <2>15, Zenon
    <3> QED BY <2>11, <3>1
  <2>17. Listens(r, dr, p, rx, frequency, inverted, longest)
    BY <2>12, <2>16, Zenon DEF same, Listens
  <2> QED BY <2>8, <2>17
<1> QED
  BY <1>1, <1>2, <1>3, <1>4, <1>5, <1>6, <1>7, <1>8, <1>9, <1>10 DEF Names

(* The first of the two by itself.                                         *)
LEMMA RadioRuns ==
    ASSUME NEW r \in Names, NEW dr, dr \in UplinkDrs(r) \cup RxDrs(r), NEW n
    PROVE  RegionGetTimeOnAir(r, dr, n) =
              TimeOnAirMs(ModemOf(r, dr), BandwidthOf(r, dr), RateOf(r, dr), 1,
                          PreambleOf(r, dr), n)
<1> DEFINE rx == [datarate |-> dr, rxContinuous |-> FALSE]
<1>1. rx.datarate = dr /\ rx.rxContinuous = FALSE
  OBVIOUS
<1> HIDE DEF rx
<1> QED BY <1>1, RadioIs, Zenon

-----------------------------------------------------------------------------
(* How long windows are open.  What a configuration says of a reception:   *)
(* the fields that frequency and length do not change.                     *)
LEMMA ConfigKept ==
    ASSUME NEW config, NEW f, NEW max, NEW k \in DOMAIN config, k # "frequency",
           k # "maxPayload"
    PROVE  WithMaxPayload(WithFrequency(config, f), max)[k] = config[k]
<1> DEFINE one == WithFrequency(config, f)
<1>1. k \in DOMAIN one /\ one[k] = config[k]
  BY SMT DEF WithFrequency
<1> HIDE DEF one
<1>2. WithMaxPayload(one, max)[k] = one[k]
  BY <1>1, SMT DEF WithMaxPayload
<1> QED BY <1>1, <1>2 DEF one

(* A reception at a data rate.                                             *)
Receives(r, dr, p, rx) ==
    LET c == RegionRxConfig(r, p, rx)
    IN  /\ c.modem = ModemOf(r, dr)
        /\ ~Fsk(r, dr) => /\ c.datarate = Spreading(r, dr) /\ c.bandwidth = rx.bandwidth
                          /\ c.symbols = SymbNumTimeout(rx.timeout) /\ c.timerMs = 896
        /\ r # "AS923" => c.maxPayload = (PayloadOf(r, dr) + 13) % 256

(* Every reception the MAC asks for is the one of its data rate.           *)
LEMMA ReceptionIs ==
    ASSUME NEW r \in Names, NEW dr, dr \in UplinkDrs(r) \cup RxDrs(r), NEW p, NEW rx,
           rx.datarate = dr, rx.rxContinuous = FALSE
    PROVE  Receives(r, dr, p, rx)
<1>1. PICK f, iq, max : Listens(r, dr, p, rx, f, iq, max)
  BY RadioIs
<1> DEFINE config == ConfigOf(r, dr, rx, iq)
           c == WithMaxPayload(WithFrequency(config, f), max)
           symbols == SymbNumTimeout(rx.timeout)
<1>2. /\ {"modem", "datarate", "bandwidth", "symbols", "timerMs"} \subseteq DOMAIN config
      /\ config["modem"] = ModemOf(r, dr) /\ config["bandwidth"] = WidthOf(r, dr, rx)
      /\ config["datarate"] = RateOf(r, dr)
      /\ ~Fsk(r, dr) => config["symbols"] = symbols /\ config["timerMs"] = 896
  <2> DEFINE a == ModemOf(r, dr)
             b == WidthOf(r, dr, rx)
             d == RateOf(r, dr)
             e == PreambleOf(r, dr)
             t == rx.timeout
  <2>1. config = SetRxConfig(a, b, d, e, t, iq, FALSE)
    BY Zenon DEF ConfigOf
  <2>2. a = IF Fsk(r, dr) THEN "FSK" ELSE "LORA"
    BY DEF ModemOf
  <2> HIDE DEF a, b, d, e, t, config
  <2>3. /\ {"modem", "datarate", "bandwidth", "symbols", "timerMs"} \subseteq DOMAIN config
        /\ config["modem"] = a /\ config["bandwidth"] = b /\ config["datarate"] = d
    BY <2>1, SMT DEF SetRxConfig
  <2>4. a = "LORA" => config["symbols"] = SymbNumTimeout(t) /\ config["timerMs"] = 896
    BY <2>1, SMT DEF SetRxConfig
  <2> QED BY <2>2, <2>3, <2>4 DEF a, b, d, t
<1>3. c.maxPayload = max % 256
  BY WithMaxPayloadIs
<1> HIDE DEF config, symbols
<1>4. c = RegionRxConfig(r, p, rx) /\ (r # "AS923" => max = PayloadOf(r, dr) + 13)
  BY <1>1, Zenon DEF Listens, config
<1>5. /\ c["modem"] = config["modem"] /\ c["bandwidth"] = config["bandwidth"]
      /\ c["datarate"] = config["datarate"] /\ c["symbols"] = config["symbols"]
      /\ c["timerMs"] = config["timerMs"]
  BY <1>2, ConfigKept
<1>6. ~Fsk(r, dr) => WidthOf(r, dr, rx) = rx.bandwidth /\ RateOf(r, dr) = Spreading(r, dr)
  BY DEF WidthOf, RateOf
<1> HIDE DEF c
<1>7. /\ c.modem = ModemOf(r, dr)
      /\ ~Fsk(r, dr) => /\ c.datarate = Spreading(r, dr) /\ c.bandwidth = rx.bandwidth
                        /\ c.symbols = symbols /\ c.timerMs = 896
      /\ r # "AS923" => c.maxPayload = (PayloadOf(r, dr) + 13) % 256
  BY <1>2, <1>3, <1>4, <1>5, <1>6
<1> QED BY <1>4, <1>7, Zenon DEF symbols, Receives

(* A window that the radio opens offset milliseconds after the delay, for  *)
(* so many symbols of T microseconds: it hears the preamble for as long as *)
(* it has to, and finds the header, with the clocks apart either way.      *)
Hears(T, offset, symbols) ==
    LET opens == 1000 * (offset + WakeupTimeMs)
    IN  /\ \A error \in {-SystemMaxRxError, 0, SystemMaxRxError} :
              /\ Least(opens + symbols * T, 1000 * error + 8 * T) - Most(opens, 1000 * error)
                    >= MinRxSymbols * T - 1000
              /\ 1000 * error + (81 * T) \div 4 - opens < 1000 * 896
        /\ opens + symbols * T < 938000

(* The windows of all symbol times.                                        *)
LEMMA TimeoutTable ==
    /\ WindowTimeout(160, MinRxSymbols, SystemMaxRxError) = 129
    /\ WindowTimeout(256, MinRxSymbols, SystemMaxRxError) = 83
    /\ WindowTimeout(512, MinRxSymbols, SystemMaxRxError) = 44
    /\ WindowTimeout(1024, MinRxSymbols, SystemMaxRxError) = 24
    /\ WindowTimeout(2048, MinRxSymbols, SystemMaxRxError) = 14
    /\ WindowTimeout(4096, MinRxSymbols, SystemMaxRxError) = 9
    /\ WindowTimeout(8192, MinRxSymbols, SystemMaxRxError) = 7
    /\ WindowTimeout(16384, MinRxSymbols, SystemMaxRxError) = 6
    /\ WindowTimeout(32768, MinRxSymbols, SystemMaxRxError) = 6
BY SMT DEF WindowTimeout, DivCeil, Most, MinRxSymbols, SystemMaxRxError

(* How much earlier than the delay they are opened.                        *)
LEMMA OffsetTable ==
    /\ WindowOffsetMs(160, 129) = -62
    /\ WindowOffsetMs(256, 83) = -62
    /\ WindowOffsetMs(512, 44) = -62
    /\ WindowOffsetMs(1024, 24) = -61
    /\ WindowOffsetMs(2048, 14) = -59
    /\ WindowOffsetMs(4096, 9) = -55
    /\ WindowOffsetMs(8192, 7) = -48
    /\ WindowOffsetMs(16384, 6) = -36
    /\ WindowOffsetMs(32768, 6) = -20
BY SMT DEF WindowOffsetMs, DivCeil, WakeupTimeMs

(* The symbols the chip makes of them.                                     *)
LEMMA SymbolTable ==
    /\ SymbNumTimeout(6) = 6
    /\ SymbNumTimeout(7) = 8
    /\ SymbNumTimeout(9) = 10
    /\ SymbNumTimeout(14) = 14
    /\ SymbNumTimeout(24) = 24
    /\ SymbNumTimeout(44) = 44
    /\ SymbNumTimeout(83) = 88
BY SMT DEF SymbNumTimeout, Least

(* They are all long enough, and none too long.                            *)
LEMMA HearingTable ==
    /\ Hears(256, -62, 88)
    /\ Hears(512, -62, 44)
    /\ Hears(1024, -61, 24)
    /\ Hears(2048, -59, 14)
    /\ Hears(4096, -55, 10)
    /\ Hears(8192, -48, 8)
    /\ Hears(16384, -36, 6)
    /\ Hears(32768, -20, 6)
BY SMT DEF Hears, Least, Most, WakeupTimeMs, MinRxSymbols, SystemMaxRxError

-----------------------------------------------------------------------------
(* Every window of every region is open long enough, and not too long; how *)
(* early a window opens.                                                   *)
LEMMA SlotTimed ==
    ASSUME NEW r \in Names, NEW dr \in RxDrs(r)
    PROVE  LET p == SlotParameters(r, dr)
           IN  /\ p.datarate = dr /\ p.bandwidth = BandwidthOf(r, dr)
               /\ p.offset \in -62..(-20)
               /\ ~Fsk(r, dr) => /\ SymbNumTimeout(p.timeout) \in Nat
                                 /\ Hears(SymbolTime(r, dr), p.offset, SymbNumTimeout(p.timeout))
<1> DEFINE T == SymbolTime(r, dr)
           timeout == WindowTimeout(T, MinRxSymbols, SystemMaxRxError)
           offset == WindowOffsetMs(T, timeout)
           b == BandwidthOf(r, dr)
<1>1. SlotParameters(r, dr) = [datarate |-> dr, bandwidth |-> b, timeout |-> timeout,
                               offset |-> offset]
  BY WindowIs, Zenon DEF SlotParameters
<1>2. Fsk(r, dr) => T = 160
  BY SymbolTimes
<1>3. ~Fsk(r, dr) => T \in {256, 512, 1024, 2048, 4096, 8192, 16384, 32768}
  BY SymbolTimes
<1> HIDE DEF T
<1>4. T \in {256, 512, 1024, 2048, 4096, 8192, 16384, 32768} =>
         /\ offset \in -62..(-20) /\ SymbNumTimeout(timeout) \in Nat
         /\ Hears(T, offset, SymbNumTimeout(timeout))
  <2>1. ASSUME T \in {256, 512, 1024, 2048, 4096, 8192, 16384, 32768}
        PROVE  \/ T = 256 \/ T = 512 \/ T = 1024 \/ T = 2048 \/ T = 4096 \/ T = 8192
               \/ T = 16384 \/ T = 32768
    BY <2>1
  <2>2. CASE T = 256
    <3>1. timeout = 83
      BY <2>2, TimeoutTable
    <3>2. offset = -62 /\ SymbNumTimeout(timeout) = 88
      BY <2>2, <3>1, OffsetTable, SymbolTable
    <3> HIDE DEF offset, timeout
    <3> QED BY <2>2, <3>2, HearingTable
  <2>3. CASE T = 512
    <3>1. timeout = 44
      BY <2>3, TimeoutTable
    <3>2. offset = -62 /\ SymbNumTimeout(timeout) = 44
      BY <2>3, <3>1, OffsetTable, SymbolTable
    <3> HIDE DEF offset, timeout
    <3> QED BY <2>3, <3>2, HearingTable
  <2>4. CASE T = 1024
    <3>1. timeout = 24
      BY <2>4, TimeoutTable
    <3>2. offset = -61 /\ SymbNumTimeout(timeout) = 24
      BY <2>4, <3>1, OffsetTable, SymbolTable
    <3> HIDE DEF offset, timeout
    <3> QED BY <2>4, <3>2, HearingTable
  <2>5. CASE T = 2048
    <3>1. timeout = 14
      BY <2>5, TimeoutTable
    <3>2. offset = -59 /\ SymbNumTimeout(timeout) = 14
      BY <2>5, <3>1, OffsetTable, SymbolTable
    <3> HIDE DEF offset, timeout
    <3> QED BY <2>5, <3>2, HearingTable
  <2>6. CASE T = 4096
    <3>1. timeout = 9
      BY <2>6, TimeoutTable
    <3>2. offset = -55 /\ SymbNumTimeout(timeout) = 10
      BY <2>6, <3>1, OffsetTable, SymbolTable
    <3> HIDE DEF offset, timeout
    <3> QED BY <2>6, <3>2, HearingTable
  <2>7. CASE T = 8192
    <3>1. timeout = 7
      BY <2>7, TimeoutTable
    <3>2. offset = -48 /\ SymbNumTimeout(timeout) = 8
      BY <2>7, <3>1, OffsetTable, SymbolTable
    <3> HIDE DEF offset, timeout
    <3> QED BY <2>7, <3>2, HearingTable
  <2>8. CASE T = 16384
    <3>1. timeout = 6
      BY <2>8, TimeoutTable
    <3>2. offset = -36 /\ SymbNumTimeout(timeout) = 6
      BY <2>8, <3>1, OffsetTable, SymbolTable
    <3> HIDE DEF offset, timeout
    <3> QED BY <2>8, <3>2, HearingTable
  <2>9. CASE T = 32768
    <3>1. timeout = 6
      BY <2>9, TimeoutTable
    <3>2. offset = -20 /\ SymbNumTimeout(timeout) = 6
      BY <2>9, <3>1, OffsetTable, SymbolTable
    <3> HIDE DEF offset, timeout
    <3> QED BY <2>9, <3>2, HearingTable
  <2> HIDE DEF offset, timeout
  <2> QED BY <2>1, <2>2, <2>3, <2>4, <2>5, <2>6, <2>7, <2>8, <2>9
<1>5. T = 160 => offset \in -62..(-20)
  <2>1. T = 160 => timeout = 129
    BY TimeoutTable
  <2>2. T = 160 => offset = -62
    BY <2>1, OffsetTable
  <2> HIDE DEF offset
  <2> QED BY <2>2
<1> HIDE DEF timeout, offset, b
<1>6. offset \in -62..(-20)
  BY <1>2, <1>3, <1>4, <1>5
<1>7. ~Fsk(r, dr) => /\ SymbNumTimeout(timeout) \in Nat
                     /\ Hears(T, offset, SymbNumTimeout(timeout))
  BY <1>3, <1>4
<1>8. /\ SlotParameters(r, dr).datarate = dr /\ SlotParameters(r, dr).bandwidth = b
      /\ SlotParameters(r, dr).timeout = timeout /\ SlotParameters(r, dr).offset = offset
  BY <1>1
<1> QED BY <1>6, <1>7, <1>8 DEF T, b

(* The windows of a frame that runs.                                       *)
LEMMA WindowsAre ==
    ASSUME IInv, radio.status = "rx"
    PROVE  /\ frame # NoFrame /\ region \in Names /\ rxSlot \in Slots
           /\ windows[rxSlot].parameters.datarate \in RxDrs(region)
           /\ windows[rxSlot].parameters =
                 SlotParameters(region, windows[rxSlot].parameters.datarate)
           /\ \E delay1 \in Int :
                 /\ windows["WIN_1"].delay = delay1 + windows["WIN_1"].parameters.offset
                 /\ \E offset \in -62..(-20) : windows["WIN_2"].delay = delay1 + 1000 + offset
<1>1. frame # NoFrame /\ region \in Names /\ rxSlot \in Slots
  BY NodeListens
<1>2. ParamsSound(region, macParams)
  BY DEF IInv, NodeSound
<1>3. /\ frame.datarate \in UplinkDrs(region)
      /\ windows = WindowsOf(region, macParams, frame.kind = "data", frame.datarate)
  BY <1>1 DEF IInv, FrameDrawn
<1> DEFINE delay1 == IF frame.kind = "data" THEN macParams.receiveDelay1
                     ELSE DefaultJoinAcceptDelay1
           d1 == Rx1Datarate(region, macParams, frame.datarate)
           d2 == macParams.rx2Datarate
           p1 == SlotParameters(region, d1)
           p2 == SlotParameters(region, d2)
<1>4. d1 \in RxDrs(region) /\ d2 \in RxDrs(region) /\ delay1 \in Int
  <2>1. d1 \in RxDrs(region)
    BY <1>1, <1>2, <1>3, DrOffsetAllowed DEF ParamsSound, Rx1Datarate
  <2>2. d2 \in RxDrs(region) /\ delay1 \in Int
    BY <1>2 DEF ParamsSound, DefaultJoinAcceptDelay1
  <2> QED BY <2>1, <2>2
<1>5. windows["WIN_1"] = [parameters |-> p1, delay |-> delay1 + p1.offset]
  <2> HIDE DEF d1, d2, delay1
  <2> QED BY <1>3 DEF WindowsOf, Slots, d1, d2, delay1
<1>6. windows["WIN_2"] = [parameters |-> p2, delay |-> delay1 + 1000 + p2.offset]
  <2> HIDE DEF d1, d2, delay1
  <2> QED BY <1>3 DEF WindowsOf, Slots, d1, d2, delay1
<1>7. p1.datarate = d1 /\ p2.datarate = d2 /\ p2.offset \in -62..(-20)
  BY <1>1, <1>4, SlotTimed
<1> HIDE DEF delay1, d1, d2
<1>8. /\ windows[rxSlot].parameters.datarate \in RxDrs(region)
      /\ windows[rxSlot].parameters =
            SlotParameters(region, windows[rxSlot].parameters.datarate)
  <2>1. rxSlot = "WIN_1" \/ rxSlot = "WIN_2"
    BY <1>1 DEF Slots
  <2> QED BY <1>4, <1>5, <1>6, <1>7, <2>1
<1>9. \E offset \in -62..(-20) : windows["WIN_2"].delay = delay1 + 1000 + offset
  BY <1>6, <1>7
<1>10. windows["WIN_1"].delay = delay1 + windows["WIN_1"].parameters.offset
  BY <1>5
<1> QED BY <1>1, <1>4, <1>8, <1>9, <1>10

(* Windows timed: the radio listens wakeup time after the window is opened *)
(* and for the symbols it is given.  If the clocks are apart by as much as *)
(* SystemMaxRxError either way, it hears MinRxSymbols of the eight symbols *)
(* of a LoRa preamble, less the millisecond the timers round to; it then   *)
(* finds the header before the chip's own timer ends the reception; and a  *)
(* window 1 without a frame is over before window 2 opens.                 *)
THEOREM WindowsAlwaysTimed == Spec => []WindowsTimed
<1>1. IInv => WindowsTimed
  <2> SUFFICES ASSUME IInv, radio.status = "rx", radio.config.modem = "LORA"
               PROVE  WindowsTimed
    BY DEF WindowsTimed
  <2> DEFINE p == windows[rxSlot].parameters
             dr == p.datarate
             T == SymbolTime(region, dr)
             config == radio.config
  <2>1. /\ frame # NoFrame /\ region \in Names /\ rxSlot \in Slots /\ dr \in RxDrs(region)
        /\ p = SlotParameters(region, dr)
    BY WindowsAre
  <2>2. config = RegionRxConfig(region, nvm, ReceptionOf(rxSlot))
    BY DEF IInv, RadioSound
  <2>3. /\ ReceptionOf(rxSlot).datarate = dr /\ ReceptionOf(rxSlot).rxContinuous = FALSE
        /\ ReceptionOf(rxSlot).bandwidth = p.bandwidth
              /\ ReceptionOf(rxSlot).timeout = p.timeout
    BY DEF ReceptionOf
  <2>4. /\ config.modem = ModemOf(region, dr)
        /\ ~Fsk(region, dr) =>
              /\ config.datarate = Spreading(region, dr) /\ config.bandwidth = p.bandwidth
              /\ config.symbols = SymbNumTimeout(p.timeout) /\ config.timerMs = 896
    <3>1. dr \in UplinkDrs(region) \cup RxDrs(region)
      BY <2>1
    <3> DEFINE rx == ReceptionOf(rxSlot)
    <3> HIDE DEF config, p, dr, rx
    <3>2. rx.datarate = dr /\ rx.rxContinuous = FALSE
      BY <2>3 DEF rx
    <3>3. Receives(region, dr, nvm, rx)
      BY <2>1, <3>1, <3>2, ReceptionIs
    <3> QED BY <2>2, <2>3, <3>3 DEF rx, Receives
  <2>5. ~Fsk(region, dr)
    BY <2>4 DEF ModemOf
  <2>6. /\ p.bandwidth = BandwidthOf(region, dr) /\ p.offset \in -62..(-20)
        /\ SymbNumTimeout(p.timeout) \in Nat /\ Hears(T, p.offset, SymbNumTimeout(p.timeout))
    <3>1. /\ SlotParameters(region, dr).bandwidth = BandwidthOf(region, dr)
          /\ SlotParameters(region, dr).offset \in -62..(-20)
          /\ SymbNumTimeout(SlotParameters(region, dr).timeout) \in Nat
          /\ Hears(T, SlotParameters(region, dr).offset,
                   SymbNumTimeout(SlotParameters(region, dr).timeout))
      BY <2>1, <2>5, SlotTimed
    <3> QED BY <2>1, <3>1, Zenon
  <2>7. T = SymbolTimeLoRaUs(config.datarate, BandwidthInHz(config.bandwidth))
    BY <2>4, <2>5, <2>6 DEF SymbolTime
  <2>8. PICK delay1 \in Int :
        /\ windows["WIN_1"].delay = delay1 + windows["WIN_1"].parameters.offset
                              /\ \E offset \in -62..(-20) :
                                    windows["WIN_2"].delay = delay1 + 1000 + offset
    BY WindowsAre
  <2>9. PICK offset2 \in -62..(-20) : windows["WIN_2"].delay = delay1 + 1000 + offset2
    BY <2>8
  <2> DEFINE symbols == config.symbols
             opens == 1000 * (p.offset + WakeupTimeMs)
  <2>10. /\ \A error \in {-SystemMaxRxError, 0, SystemMaxRxError} :
               /\ Least(opens + symbols * T, 1000 * error + 8 * T) - Most(opens, 1000 * error)
                     >= MinRxSymbols * T - 1000
               /\ 1000 * error + (81 * T) \div 4 - opens < 1000 * config.timerMs
         /\ opens + symbols * T < 938000
    <3>1. Hears(T, p.offset, symbols) /\ config.timerMs = 896
      BY <2>4, <2>5, <2>6
    <3> HIDE DEF T, p, symbols, config
    <3> QED BY <3>1 DEF Hears
  <2>11. \A e : HeardUs(p, e) = Least(opens + symbols * T, e + 8 * T) - Most(opens, e)
    <3> HIDE DEF T, p
    <3> QED BY <2>7 DEF HeardUs
  <2>12. rxSlot = "WIN_1" =>
            1000 * (windows["WIN_1"].delay + WakeupTimeMs) + symbols * T
               < 1000 * windows["WIN_2"].delay
    <3> SUFFICES ASSUME rxSlot = "WIN_1"
                 PROVE  1000 * (windows["WIN_1"].delay + WakeupTimeMs) + symbols * T
                           < 1000 * windows["WIN_2"].delay
      OBVIOUS
    <3> DEFINE offset1 == p.offset
               open == symbols * T
               delayOf1 == windows["WIN_1"].delay
               delayOf2 == windows["WIN_2"].delay
    <3>1. delayOf1 = delay1 + offset1 /\ delayOf2 = delay1 + 1000 + offset2
      BY <2>8, <2>9
    <3>2. opens + open < 938000 /\ offset1 \in -62..(-20) /\ opens = 1000 * (offset1 + 53)
      BY <2>6, <2>10 DEF WakeupTimeMs
    <3>3. symbols \in Int /\ T \in Int
      <4>1. T \in Int
        BY <2>1, <2>5, SymbolTimes
      <4>2. symbols \in Int
        BY <2>4, <2>5, <2>6
      <4> QED BY <4>1, <4>2
    <3>4. open \in Int
      BY <3>3
    <3> HIDE DEF offset1, open, opens, delayOf1, delayOf2
    <3>5. 1000 * (delayOf1 + 53) + open < 1000 * delayOf2
      BY <2>8, <2>9, <3>1, <3>2, <3>4, SMT
    <3> QED BY <3>5 DEF WakeupTimeMs, open, delayOf1, delayOf2
  <2> HIDE DEF T, p, symbols, opens, config
  <2> QED BY <2>7, <2>10, <2>11, <2>12 DEF WindowsTimed, p, symbols, opens, config
<1> QED BY Invariance, <1>1, PTL

-----------------------------------------------------------------------------
(* How long frames are.  The time on air of every modulation, for as much  *)
(* as may be sent in it.                                                   *)
LongestOf(bandwidth, sf) ==
    CASE bandwidth = 0 -> IF sf >= 10 THEN 64 ELSE IF sf = 9 THEN 128 ELSE 255
      [] bandwidth = 1 -> 255
      [] bandwidth = 2 -> IF sf = 12 THEN 66 ELSE IF sf = 11 THEN 142 ELSE 255

Brief(ms) == ms \in Nat /\ ms <= 2900
AirTime(bandwidth, sf) ==
    \A n \in 0..LongestOf(bandwidth, sf) : Brief(TimeOnAirMs("LORA", bandwidth, sf, 1, 8, n))

(* From chips to milliseconds.                                            *)
Quotient(hz) ==
    \A x \in Nat : x <= 2900 * hz => DivCeil(x, hz) \in Nat /\ DivCeil(x, hz) <= 2900

(* It holds of the three bandwidths.                                       *)
LEMMA Quotients == Quotient(125000) /\ Quotient(250000) /\ Quotient(500000)
<1>1. Quotient(125000)
  BY SMT DEF DivCeil, Quotient
<1>2. Quotient(250000)
  BY SMT DEF DivCeil, Quotient
<1>3. Quotient(500000)
  BY SMT DEF DivCeil, Quotient
<1> QED BY <1>1, <1>2, <1>3, SMT

(* Every modulation that a region has for its uplinks or downlinks.        *)
LEMMA AirTimes ==
    /\ AirTime(0, 12)
    /\ AirTime(0, 11)
    /\ AirTime(0, 10)
    /\ AirTime(0, 9)
    /\ AirTime(0, 8)
    /\ AirTime(0, 7)
    /\ AirTime(1, 7)
    /\ AirTime(2, 12)
    /\ AirTime(2, 11)
    /\ AirTime(2, 10)
    /\ AirTime(2, 9)
    /\ AirTime(2, 8)
    /\ AirTime(2, 7)
<1>1. AirTime(0, 12)
  <2> SUFFICES ASSUME NEW n \in 0..LongestOf(0, 12)
               PROVE  Brief(TimeOnAirMs("LORA", 0, 12, 1, 8, n))
    BY Zenon DEF AirTime
  <2> DEFINE blocks == DivCeil(Most(8 * n - 4, 0), 40)
             numerator == LoRaTimeOnAirNumerator(0, 12, 1, 8, n)
  <2>1. n \in 0..64 /\ n % 256 = n
    BY SMT DEF LongestOf
  <2>2. blocks \in 0..13
    BY <2>1, SMT DEF DivCeil, Most
  <2>3. PayloadSymbols(0, 12, 1, n) = blocks * 5
    BY <2>1, SMT DEF PayloadSymbols, LowDatarateOptimize
  <2> HIDE DEF blocks
  <2>4. numerator = (20 * blocks + 81) * 1024
    BY <2>2, <2>3, SMT DEF LoRaTimeOnAirNumerator, Most
  <2>5. TimeOnAirMs("LORA", 0, 12, 1, 8, n) = DivCeil(1000 * numerator, 125000)
    BY <2>1, SMT DEF TimeOnAirMs, BandwidthInHz
  <2> HIDE DEF numerator
  <2> DEFINE x == 1000 * numerator
  <2>6. x \in Nat /\ x <= 2900 * 125000
    BY <2>2, <2>4, SMT
  <2> HIDE DEF x
  <2>7. DivCeil(x, 125000) \in Nat /\ DivCeil(x, 125000) <= 2900
    BY <2>6, Quotients, SMT DEF Quotient
  <2> QED BY <2>5, <2>7, SMT DEF x, Brief
<1>2. AirTime(0, 11)
  <2> SUFFICES ASSUME NEW n \in 0..LongestOf(0, 11)
               PROVE  Brief(TimeOnAirMs("LORA", 0, 11, 1, 8, n))
    BY Zenon DEF AirTime
  <2> DEFINE blocks == DivCeil(Most(8 * n, 0), 36)
             numerator == LoRaTimeOnAirNumerator(0, 11, 1, 8, n)
  <2>1. n \in 0..64 /\ n % 256 = n
    BY SMT DEF LongestOf
  <2>2. blocks \in 0..15
    BY <2>1, SMT DEF DivCeil, Most
  <2>3. PayloadSymbols(0, 11, 1, n) = blocks * 5
    BY <2>1, SMT DEF PayloadSymbols, LowDatarateOptimize
  <2> HIDE DEF blocks
  <2>4. numerator = (20 * blocks + 81) * 512
    BY <2>2, <2>3, SMT DEF LoRaTimeOnAirNumerator, Most
  <2>5. TimeOnAirMs("LORA", 0, 11, 1, 8, n) = DivCeil(1000 * numerator, 125000)
    BY <2>1, SMT DEF TimeOnAirMs, BandwidthInHz
  <2> HIDE DEF numerator
  <2> DEFINE x == 1000 * numerator
  <2>6. x \in Nat /\ x <= 2900 * 125000
    BY <2>2, <2>4, SMT
  <2> HIDE DEF x
  <2>7. DivCeil(x, 125000) \in Nat /\ DivCeil(x, 125000) <= 2900
    BY <2>6, Quotients, SMT DEF Quotient
  <2> QED BY <2>5, <2>7, SMT DEF x, Brief
<1>3. AirTime(0, 10)
  <2> SUFFICES ASSUME NEW n \in 0..LongestOf(0, 10)
               PROVE  Brief(TimeOnAirMs("LORA", 0, 10, 1, 8, n))
    BY Zenon DEF AirTime
  <2> DEFINE blocks == DivCeil(Most(8 * n + 4, 0), 40)
             numerator == LoRaTimeOnAirNumerator(0, 10, 1, 8, n)
  <2>1. n \in 0..64 /\ n % 256 = n
    BY SMT DEF LongestOf
  <2>2. blocks \in 0..13
    BY <2>1, SMT DEF DivCeil, Most
  <2>3. PayloadSymbols(0, 10, 1, n) = blocks * 5
    BY <2>1, SMT DEF PayloadSymbols, LowDatarateOptimize
  <2> HIDE DEF blocks
  <2>4. numerator = (20 * blocks + 81) * 256
    BY <2>2, <2>3, SMT DEF LoRaTimeOnAirNumerator, Most
  <2>5. TimeOnAirMs("LORA", 0, 10, 1, 8, n) = DivCeil(1000 * numerator, 125000)
    BY <2>1, SMT DEF TimeOnAirMs, BandwidthInHz
  <2> HIDE DEF numerator
  <2> DEFINE x == 1000 * numerator
  <2>6. x \in Nat /\ x <= 2900 * 125000
    BY <2>2, <2>4, SMT
  <2> HIDE DEF x
  <2>7. DivCeil(x, 125000) \in Nat /\ DivCeil(x, 125000) <= 2900
    BY <2>6, Quotients, SMT DEF Quotient
  <2> QED BY <2>5, <2>7, SMT DEF x, Brief
<1>4. AirTime(0, 9)
  <2> SUFFICES ASSUME NEW n \in 0..LongestOf(0, 9)
               PROVE  Brief(TimeOnAirMs("LORA", 0, 9, 1, 8, n))
    BY Zenon DEF AirTime
  <2> DEFINE blocks == DivCeil(Most(8 * n + 8, 0), 36)
             numerator == LoRaTimeOnAirNumerator(0, 9, 1, 8, n)
  <2>1. n \in 0..128 /\ n % 256 = n
    BY SMT DEF LongestOf
  <2>2. blocks \in 0..29
    BY <2>1, SMT DEF DivCeil, Most
  <2>3. PayloadSymbols(0, 9, 1, n) = blocks * 5
    BY <2>1, SMT DEF PayloadSymbols, LowDatarateOptimize
  <2> HIDE DEF blocks
  <2>4. numerator = (20 * blocks + 81) * 128
    BY <2>2, <2>3, SMT DEF LoRaTimeOnAirNumerator, Most
  <2>5. TimeOnAirMs("LORA", 0, 9, 1, 8, n) = DivCeil(1000 * numerator, 125000)
    BY <2>1, SMT DEF TimeOnAirMs, BandwidthInHz
  <2> HIDE DEF numerator
  <2> DEFINE x == 1000 * numerator
  <2>6. x \in Nat /\ x <= 2900 * 125000
    BY <2>2, <2>4, SMT
  <2> HIDE DEF x
  <2>7. DivCeil(x, 125000) \in Nat /\ DivCeil(x, 125000) <= 2900
    BY <2>6, Quotients, SMT DEF Quotient
  <2> QED BY <2>5, <2>7, SMT DEF x, Brief
<1>5. AirTime(0, 8)
  <2> SUFFICES ASSUME NEW n \in 0..LongestOf(0, 8)
               PROVE  Brief(TimeOnAirMs("LORA", 0, 8, 1, 8, n))
    BY Zenon DEF AirTime
  <2> DEFINE blocks == DivCeil(Most(8 * n + 12, 0), 32)
             numerator == LoRaTimeOnAirNumerator(0, 8, 1, 8, n)
  <2>1. n \in 0..255 /\ n % 256 = n
    BY SMT DEF LongestOf
  <2>2. blocks \in 0..65
    BY <2>1, SMT DEF DivCeil, Most
  <2>3. PayloadSymbols(0, 8, 1, n) = blocks * 5
    BY <2>1, SMT DEF PayloadSymbols, LowDatarateOptimize
  <2> HIDE DEF blocks
  <2>4. numerator = (20 * blocks + 81) * 64
    BY <2>2, <2>3, SMT DEF LoRaTimeOnAirNumerator, Most
  <2>5. TimeOnAirMs("LORA", 0, 8, 1, 8, n) = DivCeil(1000 * numerator, 125000)
    BY <2>1, SMT DEF TimeOnAirMs, BandwidthInHz
  <2> HIDE DEF numerator
  <2> DEFINE x == 1000 * numerator
  <2>6. x \in Nat /\ x <= 2900 * 125000
    BY <2>2, <2>4, SMT
  <2> HIDE DEF x
  <2>7. DivCeil(x, 125000) \in Nat /\ DivCeil(x, 125000) <= 2900
    BY <2>6, Quotients, SMT DEF Quotient
  <2> QED BY <2>5, <2>7, SMT DEF x, Brief
<1>6. AirTime(0, 7)
  <2> SUFFICES ASSUME NEW n \in 0..LongestOf(0, 7)
               PROVE  Brief(TimeOnAirMs("LORA", 0, 7, 1, 8, n))
    BY Zenon DEF AirTime
  <2> DEFINE blocks == DivCeil(Most(8 * n + 16, 0), 28)
             numerator == LoRaTimeOnAirNumerator(0, 7, 1, 8, n)
  <2>1. n \in 0..255 /\ n % 256 = n
    BY SMT DEF LongestOf
  <2>2. blocks \in 0..74
    BY <2>1, SMT DEF DivCeil, Most
  <2>3. PayloadSymbols(0, 7, 1, n) = blocks * 5
    BY <2>1, SMT DEF PayloadSymbols, LowDatarateOptimize
  <2> HIDE DEF blocks
  <2>4. numerator = (20 * blocks + 81) * 32
    BY <2>2, <2>3, SMT DEF LoRaTimeOnAirNumerator, Most
  <2>5. TimeOnAirMs("LORA", 0, 7, 1, 8, n) = DivCeil(1000 * numerator, 125000)
    BY <2>1, SMT DEF TimeOnAirMs, BandwidthInHz
  <2> HIDE DEF numerator
  <2> DEFINE x == 1000 * numerator
  <2>6. x \in Nat /\ x <= 2900 * 125000
    BY <2>2, <2>4, SMT
  <2> HIDE DEF x
  <2>7. DivCeil(x, 125000) \in Nat /\ DivCeil(x, 125000) <= 2900
    BY <2>6, Quotients, SMT DEF Quotient
  <2> QED BY <2>5, <2>7, SMT DEF x, Brief
<1>7. AirTime(1, 7)
  <2> SUFFICES ASSUME NEW n \in 0..LongestOf(1, 7)
               PROVE  Brief(TimeOnAirMs("LORA", 1, 7, 1, 8, n))
    BY Zenon DEF AirTime
  <2> DEFINE blocks == DivCeil(Most(8 * n + 16, 0), 28)
             numerator == LoRaTimeOnAirNumerator(1, 7, 1, 8, n)
  <2>1. n \in 0..255 /\ n % 256 = n
    BY SMT DEF LongestOf
  <2>2. blocks \in 0..74
    BY <2>1, SMT DEF DivCeil, Most
  <2>3. PayloadSymbols(1, 7, 1, n) = blocks * 5
    BY <2>1, SMT DEF PayloadSymbols, LowDatarateOptimize
  <2> HIDE DEF blocks
  <2>4. numerator = (20 * blocks + 81) * 32
    BY <2>2, <2>3, SMT DEF LoRaTimeOnAirNumerator, Most
  <2>5. TimeOnAirMs("LORA", 1, 7, 1, 8, n) = DivCeil(1000 * numerator, 250000)
    BY <2>1, SMT DEF TimeOnAirMs, BandwidthInHz
  <2> HIDE DEF numerator
  <2> DEFINE x == 1000 * numerator
  <2>6. x \in Nat /\ x <= 2900 * 250000
    BY <2>2, <2>4, SMT
  <2> HIDE DEF x
  <2>7. DivCeil(x, 250000) \in Nat /\ DivCeil(x, 250000) <= 2900
    BY <2>6, Quotients, SMT DEF Quotient
  <2> QED BY <2>5, <2>7, SMT DEF x, Brief
<1>8. AirTime(2, 12)
  <2> SUFFICES ASSUME NEW n \in 0..LongestOf(2, 12)
               PROVE  Brief(TimeOnAirMs("LORA", 2, 12, 1, 8, n))
    BY Zenon DEF AirTime
  <2> DEFINE blocks == DivCeil(Most(8 * n - 4, 0), 48)
             numerator == LoRaTimeOnAirNumerator(2, 12, 1, 8, n)
  <2>1. n \in 0..66 /\ n % 256 = n
    BY SMT DEF LongestOf
  <2>2. blocks \in 0..11
    BY <2>1, SMT DEF DivCeil, Most
  <2>3. PayloadSymbols(2, 12, 1, n) = blocks * 5
    BY <2>1, SMT DEF PayloadSymbols, LowDatarateOptimize
  <2> HIDE DEF blocks
  <2>4. numerator = (20 * blocks + 81) * 1024
    BY <2>2, <2>3, SMT DEF LoRaTimeOnAirNumerator, Most
  <2>5. TimeOnAirMs("LORA", 2, 12, 1, 8, n) = DivCeil(1000 * numerator, 500000)
    BY <2>1, SMT DEF TimeOnAirMs, BandwidthInHz
  <2> HIDE DEF numerator
  <2> DEFINE x == 1000 * numerator
  <2>6. x \in Nat /\ x <= 2900 * 500000
    BY <2>2, <2>4, SMT
  <2> HIDE DEF x
  <2>7. DivCeil(x, 500000) \in Nat /\ DivCeil(x, 500000) <= 2900
    BY <2>6, Quotients, SMT DEF Quotient
  <2> QED BY <2>5, <2>7, SMT DEF x, Brief
<1>9. AirTime(2, 11)
  <2> SUFFICES ASSUME NEW n \in 0..LongestOf(2, 11)
               PROVE  Brief(TimeOnAirMs("LORA", 2, 11, 1, 8, n))
    BY Zenon DEF AirTime
  <2> DEFINE blocks == DivCeil(Most(8 * n, 0), 44)
             numerator == LoRaTimeOnAirNumerator(2, 11, 1, 8, n)
  <2>1. n \in 0..142 /\ n % 256 = n
    BY SMT DEF LongestOf
  <2>2. blocks \in 0..26
    BY <2>1, SMT DEF DivCeil, Most
  <2>3. PayloadSymbols(2, 11, 1, n) = blocks * 5
    BY <2>1, SMT DEF PayloadSymbols, LowDatarateOptimize
  <2> HIDE DEF blocks
  <2>4. numerator = (20 * blocks + 81) * 512
    BY <2>2, <2>3, SMT DEF LoRaTimeOnAirNumerator, Most
  <2>5. TimeOnAirMs("LORA", 2, 11, 1, 8, n) = DivCeil(1000 * numerator, 500000)
    BY <2>1, SMT DEF TimeOnAirMs, BandwidthInHz
  <2> HIDE DEF numerator
  <2> DEFINE x == 1000 * numerator
  <2>6. x \in Nat /\ x <= 2900 * 500000
    BY <2>2, <2>4, SMT
  <2> HIDE DEF x
  <2>7. DivCeil(x, 500000) \in Nat /\ DivCeil(x, 500000) <= 2900
    BY <2>6, Quotients, SMT DEF Quotient
  <2> QED BY <2>5, <2>7, SMT DEF x, Brief
<1>10. AirTime(2, 10)
  <2> SUFFICES ASSUME NEW n \in 0..LongestOf(2, 10)
               PROVE  Brief(TimeOnAirMs("LORA", 2, 10, 1, 8, n))
    BY Zenon DEF AirTime
  <2> DEFINE blocks == DivCeil(Most(8 * n + 4, 0), 40)
             numerator == LoRaTimeOnAirNumerator(2, 10, 1, 8, n)
  <2>1. n \in 0..255 /\ n % 256 = n
    BY SMT DEF LongestOf
  <2>2. blocks \in 0..52
    BY <2>1, SMT DEF DivCeil, Most
  <2>3. PayloadSymbols(2, 10, 1, n) = blocks * 5
    BY <2>1, SMT DEF PayloadSymbols, LowDatarateOptimize
  <2> HIDE DEF blocks
  <2>4. numerator = (20 * blocks + 81) * 256
    BY <2>2, <2>3, SMT DEF LoRaTimeOnAirNumerator, Most
  <2>5. TimeOnAirMs("LORA", 2, 10, 1, 8, n) = DivCeil(1000 * numerator, 500000)
    BY <2>1, SMT DEF TimeOnAirMs, BandwidthInHz
  <2> HIDE DEF numerator
  <2> DEFINE x == 1000 * numerator
  <2>6. x \in Nat /\ x <= 2900 * 500000
    BY <2>2, <2>4, SMT
  <2> HIDE DEF x
  <2>7. DivCeil(x, 500000) \in Nat /\ DivCeil(x, 500000) <= 2900
    BY <2>6, Quotients, SMT DEF Quotient
  <2> QED BY <2>5, <2>7, SMT DEF x, Brief
<1>11. AirTime(2, 9)
  <2> SUFFICES ASSUME NEW n \in 0..LongestOf(2, 9)
               PROVE  Brief(TimeOnAirMs("LORA", 2, 9, 1, 8, n))
    BY Zenon DEF AirTime
  <2> DEFINE blocks == DivCeil(Most(8 * n + 8, 0), 36)
             numerator == LoRaTimeOnAirNumerator(2, 9, 1, 8, n)
  <2>1. n \in 0..255 /\ n % 256 = n
    BY SMT DEF LongestOf
  <2>2. blocks \in 0..57
    BY <2>1, SMT DEF DivCeil, Most
  <2>3. PayloadSymbols(2, 9, 1, n) = blocks * 5
    BY <2>1, SMT DEF PayloadSymbols, LowDatarateOptimize
  <2> HIDE DEF blocks
  <2>4. numerator = (20 * blocks + 81) * 128
    BY <2>2, <2>3, SMT DEF LoRaTimeOnAirNumerator, Most
  <2>5. TimeOnAirMs("LORA", 2, 9, 1, 8, n) = DivCeil(1000 * numerator, 500000)
    BY <2>1, SMT DEF TimeOnAirMs, BandwidthInHz
  <2> HIDE DEF numerator
  <2> DEFINE x == 1000 * numerator
  <2>6. x \in Nat /\ x <= 2900 * 500000
    BY <2>2, <2>4, SMT
  <2> HIDE DEF x
  <2>7. DivCeil(x, 500000) \in Nat /\ DivCeil(x, 500000) <= 2900
    BY <2>6, Quotients, SMT DEF Quotient
  <2> QED BY <2>5, <2>7, SMT DEF x, Brief
<1>12. AirTime(2, 8)
  <2> SUFFICES ASSUME NEW n \in 0..LongestOf(2, 8)
               PROVE  Brief(TimeOnAirMs("LORA", 2, 8, 1, 8, n))
    BY Zenon DEF AirTime
  <2> DEFINE blocks == DivCeil(Most(8 * n + 12, 0), 32)
             numerator == LoRaTimeOnAirNumerator(2, 8, 1, 8, n)
  <2>1. n \in 0..255 /\ n % 256 = n
    BY SMT DEF LongestOf
  <2>2. blocks \in 0..65
    BY <2>1, SMT DEF DivCeil, Most
  <2>3. PayloadSymbols(2, 8, 1, n) = blocks * 5
    BY <2>1, SMT DEF PayloadSymbols, LowDatarateOptimize
  <2> HIDE DEF blocks
  <2>4. numerator = (20 * blocks + 81) * 64
    BY <2>2, <2>3, SMT DEF LoRaTimeOnAirNumerator, Most
  <2>5. TimeOnAirMs("LORA", 2, 8, 1, 8, n) = DivCeil(1000 * numerator, 500000)
    BY <2>1, SMT DEF TimeOnAirMs, BandwidthInHz
  <2> HIDE DEF numerator
  <2> DEFINE x == 1000 * numerator
  <2>6. x \in Nat /\ x <= 2900 * 500000
    BY <2>2, <2>4, SMT
  <2> HIDE DEF x
  <2>7. DivCeil(x, 500000) \in Nat /\ DivCeil(x, 500000) <= 2900
    BY <2>6, Quotients, SMT DEF Quotient
  <2> QED BY <2>5, <2>7, SMT DEF x, Brief
<1>13. AirTime(2, 7)
  <2> SUFFICES ASSUME NEW n \in 0..LongestOf(2, 7)
               PROVE  Brief(TimeOnAirMs("LORA", 2, 7, 1, 8, n))
    BY Zenon DEF AirTime
  <2> DEFINE blocks == DivCeil(Most(8 * n + 16, 0), 28)
             numerator == LoRaTimeOnAirNumerator(2, 7, 1, 8, n)
  <2>1. n \in 0..255 /\ n % 256 = n
    BY SMT DEF LongestOf
  <2>2. blocks \in 0..74
    BY <2>1, SMT DEF DivCeil, Most
  <2>3. PayloadSymbols(2, 7, 1, n) = blocks * 5
    BY <2>1, SMT DEF PayloadSymbols, LowDatarateOptimize
  <2> HIDE DEF blocks
  <2>4. numerator = (20 * blocks + 81) * 32
    BY <2>2, <2>3, SMT DEF LoRaTimeOnAirNumerator, Most
  <2>5. TimeOnAirMs("LORA", 2, 7, 1, 8, n) = DivCeil(1000 * numerator, 500000)
    BY <2>1, SMT DEF TimeOnAirMs, BandwidthInHz
  <2> HIDE DEF numerator
  <2> DEFINE x == 1000 * numerator
  <2>6. x \in Nat /\ x <= 2900 * 500000
    BY <2>2, <2>4, SMT
  <2> HIDE DEF x
  <2>7. DivCeil(x, 500000) \in Nat /\ DivCeil(x, 500000) <= 2900
    BY <2>6, Quotients, SMT DEF Quotient
  <2> QED BY <2>5, <2>7, SMT DEF x, Brief
<1> QED BY <1>1, <1>2, <1>3, <1>4, <1>5, <1>6, <1>7, <1>8, <1>9, <1>10, <1>11, <1>12, <1>13

(* And FSK.                                                                *)
LEMMA FskAirTime ==
    ASSUME NEW n \in 0..255
    PROVE  Brief(TimeOnAirMs("FSK", 0, 50000, 1, 5, n))
<1>1. TimeOnAirMs("FSK", 0, 50000, 1, 5, n) =
         DivCeil(1000 * GfskTimeOnAirNumerator(5, n % 256), 50000)
  BY SMT DEF TimeOnAirMs
<1>2. n % 256 = n
  BY SMT
<1>3. GfskTimeOnAirNumerator(5, n) = 88 + 8 * n
  BY SMT DEF GfskTimeOnAirNumerator
<1>4. Brief(DivCeil(1000 * (88 + 8 * n), 50000))
  BY SMT DEF DivCeil, Brief
<1> QED BY <1>1, <1>2, <1>3, <1>4

(* Whatever is sent or received without dwell times is over in 2.9 s.      *)
LEMMA InTime ==
    ASSUME NEW r \in Names, NEW dr, dr \in UplinkDrs(r) \cup RxDrs(r),
           NEW n \in 0..(PayloadOf(r, dr) + 13)
    PROVE  Brief(RegionGetTimeOnAir(r, dr, n))
<1> DEFINE s == Spreading(r, dr)
           b == BandwidthOf(r, dr)
<1>1. RegionGetTimeOnAir(r, dr, n) =
         TimeOnAirMs(ModemOf(r, dr), b, RateOf(r, dr), 1, PreambleOf(r, dr), n)
  BY RadioRuns
<1> HIDE DEF s, b
<1>2. CASE Fsk(r, dr)
  <2>1. dr = 7 /\ r \in ListNames
    BY <1>2 DEF Fsk
  <2>2. PayloadOf(r, dr) = 242 /\ b = 0
    BY <2>1, SMT DEF PayloadOf, ListNames, BandwidthOf, b
  <2>3. n \in 0..255
    BY <2>2, SMT
  <2>4. /\ ModemOf(r, dr) = "FSK" /\ RateOf(r, dr) = 50000 /\ PreambleOf(r, dr) = 5
    BY <1>2 DEF ModemOf, RateOf, PreambleOf
  <2>5. Brief(TimeOnAirMs("FSK", 0, 50000, 1, 5, n))
    BY <2>3, FskAirTime
  <2>6. RegionGetTimeOnAir(r, dr, n) = TimeOnAirMs("FSK", 0, 50000, 1, 5, n)
    BY <1>1, <2>2, <2>4
  <2> QED BY <2>5, <2>6
<1>3. CASE ~Fsk(r, dr)
  <2>1. /\ ModemOf(r, dr) = "LORA" /\ RateOf(r, dr) = s /\ PreambleOf(r, dr) = 8
    BY <1>3 DEF ModemOf, RateOf, PreambleOf, s
  <2>2. CASE r = "US915"
    <3>1. dr \in (0..4) \cup (8..13)
      BY SMT, <2>2 DEF UplinkDrs, RxDrs
    <3>2. /\ dr < 4 => s = 10 - dr /\ b = 0
          /\ dr = 4 => s = 8 /\ b = 2
          /\ dr >= 8 => s = 20 - dr /\ b = 2
          /\ PayloadOf(r, dr)
                = (IF dr = 0 THEN 11 ELSE IF dr = 1 THEN 53 ELSE IF dr = 2 THEN 125
                                 ELSE IF dr = 8 THEN 53 ELSE IF dr = 9 THEN 129 ELSE 242)
      BY <2>2, <3>1, SMT DEF Spreading, BandwidthOf, WideDr, PayloadOf, ListNames, b, s
    <3>3. n \in 0..LongestOf(b, s) /\ AirTime(b, s)
      <4>1. n \in 0..LongestOf(b, s)
        BY <3>1, <3>2, SMT DEF LongestOf
      <4>2. AirTime(b, s)
        BY <3>1, <3>2, AirTimes, SMT
      <4> QED BY <4>1, <4>2
    <3>4. Brief(TimeOnAirMs("LORA", b, s, 1, 8, n))
      BY <3>3, Zenon DEF AirTime
    <3>5. RegionGetTimeOnAir(r, dr, n) = TimeOnAirMs("LORA", b, s, 1, 8, n)
      BY <1>1, <2>1
    <3> QED BY <3>4, <3>5
  <2>3. CASE r = "AU915"
    <3>1. dr \in (0..6) \cup (8..13)
      BY SMT, <2>3 DEF UplinkDrs, RxDrs
    <3>2. /\ dr < 6 => s = 12 - dr /\ b = 0
          /\ dr = 6 => s = 8 /\ b = 2
          /\ dr >= 8 => s = 20 - dr /\ b = 2
          /\ PayloadOf(r, dr) = (IF dr < 3 THEN 51 ELSE IF dr = 3 THEN 115
                                 ELSE IF dr = 8 THEN 53 ELSE IF dr = 9 THEN 129 ELSE 242)
      BY <2>3, <3>1, SMT DEF Spreading, BandwidthOf, WideDr, PayloadOf, ListNames, b, s
    <3>3. n \in 0..LongestOf(b, s) /\ AirTime(b, s)
      <4>1. n \in 0..LongestOf(b, s)
        BY <3>1, <3>2, SMT DEF LongestOf
      <4>2. AirTime(b, s)
        BY <3>1, <3>2, AirTimes, SMT
      <4> QED BY <4>1, <4>2
    <3>4. Brief(TimeOnAirMs("LORA", b, s, 1, 8, n))
      BY <3>3, Zenon DEF AirTime
    <3>5. RegionGetTimeOnAir(r, dr, n) = TimeOnAirMs("LORA", b, s, 1, 8, n)
      BY <1>1, <2>1
    <3> QED BY <3>4, <3>5
  <2>4. CASE r \notin {"US915", "AU915"}
    <3>1. dr \in 0..6
      BY SMT, <1>3, <2>4 DEF UplinkDrs, RxDrs, Fsk, ListNames, Names
    <3>2. /\ dr < 6 => s = 12 - dr /\ b = 0
          /\ dr = 6 => s = 7 /\ b = 1
          /\ PayloadOf(r, dr) = (IF dr < 3 THEN 51 ELSE IF dr = 3 THEN 115 ELSE 242)
      BY <2>4, <3>1, SMT DEF Spreading, BandwidthOf, WideDr, PayloadOf, ListNames, b, s
    <3>3. n \in 0..LongestOf(b, s) /\ AirTime(b, s)
      <4>1. n \in 0..LongestOf(b, s)
        BY <3>1, <3>2, SMT DEF LongestOf
      <4>2. AirTime(b, s)
        BY <3>1, <3>2, AirTimes, SMT
      <4> QED BY <4>1, <4>2
    <3>4. Brief(TimeOnAirMs("LORA", b, s, 1, 8, n))
      BY <3>3, Zenon DEF AirTime
    <3>5. RegionGetTimeOnAir(r, dr, n) = TimeOnAirMs("LORA", b, s, 1, 8, n)
      BY <1>1, <2>1
    <3> QED BY <3>4, <3>5
  <2> QED BY <2>2, <2>3, <2>4
<1> QED BY <1>2, <1>3

(* What a region lets the application send.                                *)
LEMMA PayloadIs ==
    ASSUME NEW r \in Names, r # "AS923", NEW dr, dr \in UplinkDrs(r) \cup RxDrs(r), NEW up,
           NEW down
    PROVE  /\ RegionGetPhyParam(r, dr, up, down).maxPayload \in 0..PayloadOf(r, dr)
           /\ RegionGetPhyParam(r, dr, 0, 0).maxPayload = PayloadOf(r, dr)
<1>1. CASE r = "AU915"
  <2> DEFINE longest == IF dr < 3 THEN 51 ELSE IF dr = 3 THEN 115 ELSE IF dr = 8 THEN 53
            ELSE IF dr = 9 THEN 129 ELSE 242
  <2>1. dr \in (0..6) \cup (8..13)
    BY SMT, <1>1 DEF UplinkDrs, RxDrs
  <2>2. PayloadOf(r, dr) = longest
    BY <1>1, <2>1, SMT DEF PayloadOf
  <2>3. AU915!MaxPayloadOfDatarate[dr] = longest
    BY <2>1, SMT DEF AU915!MaxPayloadOfDatarate, AU915!Table
  <2>4. AU915!MaxPayloadOfDatarateDwell1[dr] \in 0..longest
    BY <2>1, SMT DEF AU915!MaxPayloadOfDatarateDwell1, AU915!Table
  <2>5. /\ RegionGetPhyParam(r, dr, up, down).maxPayload =
              IF up = 0 THEN AU915!MaxPayloadOfDatarate[dr]
              ELSE AU915!MaxPayloadOfDatarateDwell1[dr]
        /\ RegionGetPhyParam(r, dr, 0, 0).maxPayload = AU915!MaxPayloadOfDatarate[dr]
    BY <1>1, SMT DEF RegionGetPhyParam, AU915!GetPhyParam
  <2>6. longest \in 0..longest
    BY SMT
  <2> HIDE DEF longest
  <2> QED BY <2>2, <2>3, <2>4, <2>5, <2>6
<1>2. CASE r = "CN470"
  <2> DEFINE longest == IF dr < 3 THEN 51 ELSE IF dr = 3 THEN 115 ELSE 242
  <2>1. dr \in 0..5
    BY SMT, <1>2 DEF UplinkDrs, RxDrs
  <2>2. PayloadOf(r, dr) = longest
    BY <1>2, <2>1, SMT DEF PayloadOf
  <2>3. CN470!MaxPayloadOfDatarate[dr] = longest
    BY <2>1, SMT DEF CN470!MaxPayloadOfDatarate, CN470!Table
  <2>4. /\ RegionGetPhyParam(r, dr, up, down).maxPayload = CN470!MaxPayloadOfDatarate[dr]
        /\ RegionGetPhyParam(r, dr, 0, 0).maxPayload = CN470!MaxPayloadOfDatarate[dr]
    BY <1>2, SMT DEF RegionGetPhyParam, CN470!GetPhyParam
  <2>5. longest \in 0..longest
    BY SMT
  <2> HIDE DEF longest
  <2> QED BY <2>2, <2>3, <2>4, <2>5
<1>3. CASE r = "CN779"
  <2> DEFINE longest == IF dr < 3 THEN 51 ELSE IF dr = 3 THEN 115 ELSE 242
  <2>1. dr \in 0..7
    BY SMT, <1>3 DEF UplinkDrs, RxDrs
  <2>2. PayloadOf(r, dr) = longest
    BY <1>3, <2>1, SMT DEF PayloadOf
  <2>3. CN779!MaxPayloadOfDatarate[dr] = longest
    BY <2>1, SMT DEF CN779!MaxPayloadOfDatarate, CN779!Table
  <2>4. /\ RegionGetPhyParam(r, dr, up, down).maxPayload = CN779!MaxPayloadOfDatarate[dr]
        /\ RegionGetPhyParam(r, dr, 0, 0).maxPayload = CN779!MaxPayloadOfDatarate[dr]
    BY <1>3, SMT DEF RegionGetPhyParam, CN779!GetPhyParam
  <2>5. longest \in 0..longest
    BY SMT
  <2> HIDE DEF longest
  <2> QED BY <2>2, <2>3, <2>4, <2>5
<1>4. CASE r = "EU433"
  <2> DEFINE longest == IF dr < 3 THEN 51 ELSE IF dr = 3 THEN 115 ELSE 242
  <2>1. dr \in 0..7
    BY SMT, <1>4 DEF UplinkDrs, RxDrs
  <2>2. PayloadOf(r, dr) = longest
    BY <1>4, <2>1, SMT DEF PayloadOf
  <2>3. EU433!MaxPayloadOfDatarate[dr] = longest
    BY <2>1, SMT DEF EU433!MaxPayloadOfDatarate, EU433!Table
  <2>4. /\ RegionGetPhyParam(r, dr, up, down).maxPayload = EU433!MaxPayloadOfDatarate[dr]
        /\ RegionGetPhyParam(r, dr, 0, 0).maxPayload = EU433!MaxPayloadOfDatarate[dr]
    BY <1>4, SMT DEF RegionGetPhyParam, EU433!GetPhyParam
  <2>5. longest \in 0..longest
    BY SMT
  <2> HIDE DEF longest
  <2> QED BY <2>2, <2>3, <2>4, <2>5
<1>5. CASE r = "EU868"
  <2> DEFINE longest == IF dr < 3 THEN 51 ELSE IF dr = 3 THEN 115 ELSE 242
  <2>1. dr \in 0..7
    BY SMT, <1>5 DEF UplinkDrs, RxDrs
  <2>2. PayloadOf(r, dr) = longest
    BY <1>5, <2>1, SMT DEF PayloadOf
  <2>3. EU868!MaxPayloadOfDatarate[dr] = longest
    BY <2>1, SMT DEF EU868!MaxPayloadOfDatarate, EU868!Table
  <2>4. /\ RegionGetPhyParam(r, dr, up, down).maxPayload = EU868!MaxPayloadOfDatarate[dr]
        /\ RegionGetPhyParam(r, dr, 0, 0).maxPayload = EU868!MaxPayloadOfDatarate[dr]
    BY <1>5, SMT DEF RegionGetPhyParam, EU868!GetPhyParam
  <2>5. longest \in 0..longest
    BY SMT
  <2> HIDE DEF longest
  <2> QED BY <2>2, <2>3, <2>4, <2>5
<1>6. CASE r = "IN865"
  <2> DEFINE longest == IF dr < 3 THEN 51 ELSE IF dr = 3 THEN 115 ELSE 242
  <2>1. dr \in 0..7
    BY SMT, <1>6 DEF UplinkDrs, RxDrs
  <2>2. PayloadOf(r, dr) = longest
    BY <1>6, <2>1, SMT DEF PayloadOf
  <2>3. IN865!MaxPayloadOfDatarate[dr] = longest
    BY <2>1, SMT DEF IN865!MaxPayloadOfDatarate, IN865!Table
  <2>4. /\ RegionGetPhyParam(r, dr, up, down).maxPayload = IN865!MaxPayloadOfDatarate[dr]
        /\ RegionGetPhyParam(r, dr, 0, 0).maxPayload = IN865!MaxPayloadOfDatarate[dr]
    BY <1>6, SMT DEF RegionGetPhyParam, IN865!GetPhyParam
  <2>5. longest \in 0..longest
    BY SMT
  <2> HIDE DEF longest
  <2> QED BY <2>2, <2>3, <2>4, <2>5
<1>7. CASE r = "KR920"
  <2> DEFINE longest == IF dr < 3 THEN 51 ELSE IF dr = 3 THEN 115 ELSE 242
  <2>1. dr \in 0..5
    BY SMT, <1>7 DEF UplinkDrs, RxDrs
  <2>2. PayloadOf(r, dr) = longest
    BY <1>7, <2>1, SMT DEF PayloadOf
  <2>3. KR920!MaxPayloadOfDatarate[dr] = longest
    BY <2>1, SMT DEF KR920!MaxPayloadOfDatarate, KR920!Table
  <2>4. /\ RegionGetPhyParam(r, dr, up, down).maxPayload = KR920!MaxPayloadOfDatarate[dr]
        /\ RegionGetPhyParam(r, dr, 0, 0).maxPayload = KR920!MaxPayloadOfDatarate[dr]
    BY <1>7, SMT DEF RegionGetPhyParam, KR920!GetPhyParam
  <2>5. longest \in 0..longest
    BY SMT
  <2> HIDE DEF longest
  <2> QED BY <2>2, <2>3, <2>4, <2>5
<1>8. CASE r = "RU864"
  <2> DEFINE longest == IF dr < 3 THEN 51 ELSE IF dr = 3 THEN 115 ELSE 242
  <2>1. dr \in 0..7
    BY SMT, <1>8 DEF UplinkDrs, RxDrs
  <2>2. PayloadOf(r, dr) = longest
    BY <1>8, <2>1, SMT DEF PayloadOf
  <2>3. RU864!MaxPayloadOfDatarate[dr] = longest
    BY <2>1, SMT DEF RU864!MaxPayloadOfDatarate, RU864!Table
  <2>4. /\ RegionGetPhyParam(r, dr, up, down).maxPayload = RU864!MaxPayloadOfDatarate[dr]
        /\ RegionGetPhyParam(r, dr, 0, 0).maxPayload = RU864!MaxPayloadOfDatarate[dr]
    BY <1>8, SMT DEF RegionGetPhyParam, RU864!GetPhyParam
  <2>5. longest \in 0..longest
    BY SMT
  <2> HIDE DEF longest
  <2> QED BY <2>2, <2>3, <2>4, <2>5
<1>9. CASE r = "US915"
  <2> DEFINE longest == IF dr = 0 THEN 11 ELSE IF dr = 1 THEN 53 ELSE IF dr = 2 THEN 125
            ELSE IF dr = 8 THEN 53 ELSE IF dr = 9 THEN 129 ELSE 242
  <2>1. dr \in (0..4) \cup (8..13)
    BY SMT, <1>9 DEF UplinkDrs, RxDrs
  <2>2. PayloadOf(r, dr) = longest
    BY <1>9, <2>1, SMT DEF PayloadOf
  <2>3. US915!MaxPayloadOfDatarate[dr] = longest
    BY <2>1, SMT DEF US915!MaxPayloadOfDatarate, US915!Table
  <2>4. /\ RegionGetPhyParam(r, dr, up, down).maxPayload = US915!MaxPayloadOfDatarate[dr]
        /\ RegionGetPhyParam(r, dr, 0, 0).maxPayload = US915!MaxPayloadOfDatarate[dr]
    BY <1>9, SMT DEF RegionGetPhyParam, US915!GetPhyParam
  <2>5. longest \in 0..longest
    BY SMT
  <2> HIDE DEF longest
  <2> QED BY <2>2, <2>3, <2>4, <2>5
<1> QED BY <1>1, <1>2, <1>3, <1>4, <1>5, <1>6, <1>7, <1>8, <1>9 DEF Names

(* How long a reception may take.                                          *)
LEMMA RxWindowLimit ==
    ASSUME NEW r \in Names
    PROVE  RegionPhyDefaults(r).maxRxWindow \in {3000, 4000}
<1>1. CASE r = "AS923"
  <2>1. RegionPhyDefaults(r).maxRxWindow = 3000
    BY <1>1, SMT DEF RegionPhyDefaults, AS923!PhyDefaults
  <2> QED BY <2>1
<1>2. CASE r = "AU915"
  <2>1. RegionPhyDefaults(r).maxRxWindow = 3000
    BY <1>2, SMT DEF RegionPhyDefaults, AU915!PhyDefaults
  <2> QED BY <2>1
<1>3. CASE r = "CN470"
  <2>1. RegionPhyDefaults(r).maxRxWindow = 3000
    BY <1>3, SMT DEF RegionPhyDefaults, CN470!PhyDefaults
  <2> QED BY <2>1
<1>4. CASE r = "CN779"
  <2>1. RegionPhyDefaults(r).maxRxWindow = 3000
    BY <1>4, SMT DEF RegionPhyDefaults, CN779!PhyDefaults
  <2> QED BY <2>1
<1>5. CASE r = "EU433"
  <2>1. RegionPhyDefaults(r).maxRxWindow = 3000
    BY <1>5, SMT DEF RegionPhyDefaults, EU433!PhyDefaults
  <2> QED BY <2>1
<1>6. CASE r = "EU868"
  <2>1. RegionPhyDefaults(r).maxRxWindow = 3000
    BY <1>6, SMT DEF RegionPhyDefaults, EU868!PhyDefaults
  <2> QED BY <2>1
<1>7. CASE r = "IN865"
  <2>1. RegionPhyDefaults(r).maxRxWindow = 3000
    BY <1>7, SMT DEF RegionPhyDefaults, IN865!PhyDefaults
  <2> QED BY <2>1
<1>8. CASE r = "KR920"
  <2>1. RegionPhyDefaults(r).maxRxWindow = 4000
    BY <1>8, SMT DEF RegionPhyDefaults, KR920!PhyDefaults
  <2> QED BY <2>1
<1>9. CASE r = "RU864"
  <2>1. RegionPhyDefaults(r).maxRxWindow = 3000
    BY <1>9, SMT DEF RegionPhyDefaults, RU864!PhyDefaults
  <2> QED BY <2>1
<1>10. CASE r = "US915"
  <2>1. RegionPhyDefaults(r).maxRxWindow = 3000
    BY <1>10, SMT DEF RegionPhyDefaults, US915!PhyDefaults
  <2> QED BY <2>1
<1> QED BY <1>1, <1>2, <1>3, <1>4, <1>5, <1>6, <1>7, <1>8, <1>9, <1>10 DEF Names

-----------------------------------------------------------------------------
(* What the radio was told of a frame that runs.                           *)
Sized ==
    region # "AS923" =>
        /\ frame # NoFrame =>
              /\ frame.size \in 0..(PayloadOf(region, frame.datarate) + 13)
              /\ frame.timeOnAir = RegionGetTimeOnAir(region, frame.datarate, frame.size)
        /\ radio.status = "tx" => radio.config.maxPayload = frame.size % 256

(* ScheduleTx: what it makes of the length.                                *)
Prepared(datarate, size) ==
    /\ frame'.size = size /\ frame'.datarate = datarate
    /\ frame'.timeOnAir = RegionGetTimeOnAir(region, datarate, size)
    /\ radio'.config.maxPayload = size % 256
    /\ datarate \in UplinkDrs(region)

(* A frame that is scheduled is as long as was asked for.                  *)
LEMMA ScheduledSize ==
    ASSUME region \in Names, NEW channels, PlanSound(region, channels), NEW params,
           NEW isJoined, NEW kind, NEW channel, NEW datarate, NEW size, NEW said, NEW trial,
           ScheduleTx(channels, params, isJoined, kind, channel, datarate, size, said, trial)
    PROVE  Prepared(datarate, size)
<1> DEFINE asked1 == [channel |-> channel, datarate |-> datarate, txPower |-> 0,
                      maxEirp |-> params.maxEirp, antennaGain |-> Phy.antennaGain,
                      pktLen |-> size]
           tx == RegionTxConfig(region, channels, asked1)
           on == tx.radio.frequency
           time == tx.timeOnAir
           config == tx.radio
<1>1. /\ channel \in RegionNextChannel(region, channels, isJoined, datarate)
      /\ radio' = [status |-> "tx", config |-> config]
      /\ frame' = [kind |-> kind, channel |-> channel, datarate |-> datarate, size |-> size,
                   timeOnAir |-> time, frequency |-> on, said |-> said, trial |-> trial,
                   heard |-> FALSE]
  BY Zenon DEF ScheduleTx
<1>2. asked1.datarate = datarate /\ asked1.pktLen = size
  BY SMT
<1> HIDE DEF asked1
<1>3. time = RegionGetTimeOnAir(region, datarate, size) /\ config.maxPayload = size % 256
  <2> DEFINE f == UplinkFrequency(region, channels, asked1.channel)
  <2>1. PICK one :
           tx = [radio |-> WithMaxPayload(WithFrequency(one, f), asked1.pktLen),
                 timeOnAir |-> RegionGetTimeOnAir(region, asked1.datarate, asked1.pktLen)]
    BY TxConfigIs
  <2> HIDE DEF f, tx
  <2>2. /\ tx.radio = WithMaxPayload(WithFrequency(one, f), asked1.pktLen)
        /\ tx.timeOnAir = RegionGetTimeOnAir(region, asked1.datarate, asked1.pktLen)
    BY <2>1, SMT
  <2>3. WithMaxPayload(WithFrequency(one, f), asked1.pktLen).maxPayload = asked1.pktLen % 256
    BY WithMaxPayloadIs
  <2> QED BY <1>2, <2>2, <2>3
<1>4. datarate \in UplinkDrs(region)
  BY <1>1, PlanOffers
<1> HIDE DEF on, time, config
<1>5. /\ frame'.size = size /\ frame'.datarate = datarate /\ frame'.timeOnAir = time
      /\ radio'.config = config
  BY <1>1, SMT
<1> QED BY <1>3, <1>4, <1>5 DEF Prepared

(* No step changes the length of a frame without telling the radio.        *)
LEMMA SizedStep ==
    ASSUME IInv, IInv', Sized, [Next]_vars
    PROVE  Sized'
<1>0. region \in Names /\ PlanSound(region, nvm)
  BY RegionsAssumption DEF IInv, NodeSound
<1>1. ASSUME NEW c, NEW dr, Send(c, dr) PROVE Sized'
  <2> DEFINE payload == RegionGetPhyParam(region, dr, macParams.uplinkDwellTime,
                                          macParams.downlinkDwellTime).maxPayload
  <2>1. ScheduleTx(nvm, macParams, TRUE, "data", c, dr, payload + PayloadOverhead, answers, 1)
    BY <1>1, Zenon DEF Send
  <2>2. region' = region
    BY <1>1, Zenon DEF Send
  <2>3. Prepared(dr, payload + PayloadOverhead)
    <3> HIDE DEF payload
    <3> QED BY <1>0, <2>1, ScheduledSize
  <2>4. region # "AS923" => payload \in 0..PayloadOf(region, dr)
    BY <1>0, <2>3, PayloadIs DEF Prepared
  <2> HIDE DEF payload
  <2>5. region # "AS923" => PayloadOf(region, dr) \in Nat
    BY SMT DEF PayloadOf
  <2>6. region # "AS923" => payload + PayloadOverhead \in 0..(PayloadOf(region, dr) + 13)
    BY <2>4, <2>5, SMT DEF PayloadOverhead
  <2> QED BY <2>2, <2>3, <2>6 DEF Sized, Prepared
<1>2. ASSUME NEW c, NEW dr, JoinRequest(c, dr) PROVE Sized'
  <2> DEFINE params == MacParamsDefaults(region, macParams.receiveDelay1)
             channels == RegionInitDefaults(region, "RESET_TO_DEFAULT_CHANNELS", nvm)
  <2>1. ScheduleTx(channels, params, FALSE, "join", c, dr, 23, {}, 1)
    BY <1>2, Zenon DEF JoinRequest
  <2>2. region' = region
    BY <1>2, Zenon DEF JoinRequest
  <2>3. PlanSound(region, channels)
    BY <1>0, PlanResets
  <2> HIDE DEF params, channels
  <2>4. Prepared(dr, 23)
    BY <1>0, <2>1, <2>3, ScheduledSize
  <2>5. 23 \in 0..(PayloadOf(region, dr) + 13)
    BY SMT DEF PayloadOf
  <2> QED BY <2>2, <2>4, <2>5 DEF Sized, Prepared
<1>3. ASSUME NEW c, Repeat(c) PROVE Sized'
  <2>1. ScheduleTx(nvm, macParams, TRUE, "data", c, frame.datarate, frame.size, frame.said, 2)
    BY <1>3, Zenon DEF Repeat
  <2>2. region' = region /\ frame # NoFrame
    BY <1>3, Zenon DEF Repeat, MacDone, nodeVars
  <2>3. Prepared(frame.datarate, frame.size)
    BY <1>0, <2>1, ScheduledSize
  <2> QED BY <2>2, <2>3 DEF Sized, Prepared
<1>4. CASE Over
  <2>1. region' = region /\ frame' = NoFrame /\ radio' = Asleep
    BY <1>4, Zenon DEF Over, MacDone, nodeVars
  <2> QED BY <2>1 DEF Sized, Asleep
<1>5. CASE TxDone
  <2>1. /\ region' = region /\ radio' = Asleep /\ radio.status = "tx"
        /\ \E heard \in BOOLEAN : frame' = [frame EXCEPT !.heard = heard]
    BY <1>5, Zenon DEF TxDone, nodeVars
  <2>2. frame # NoFrame /\ FrameWhole(frame)
    <3>1. frame # NoFrame
      BY <2>1 DEF IInv, RadioSound, Asleep
    <3> QED BY <3>1 DEF IInv, FrameDrawn
  <2>3. frame'.size = frame.size /\ frame'.datarate = frame.datarate
        /\ frame'.timeOnAir = frame.timeOnAir
    BY <2>1, <2>2, SMT DEF FrameWhole
  <2> QED BY <2>1, <2>2, <2>3 DEF Sized, Asleep
<1>6. CASE OnRxWindow1TimerEvent
  <2>1. region' = region /\ frame' = frame /\ radio'.status = "rx"
    BY <1>6, SMT DEF OnRxWindow1TimerEvent, RxWindowSetup, nodeVars
  <2> QED BY <2>1 DEF Sized
<1>7. CASE OnRxWindow2TimerEvent
  <2>1. region' = region /\ frame' = frame /\ (radio' = radio \/ radio'.status = "rx")
    BY <1>7, SMT DEF OnRxWindow2TimerEvent, RxWindowSetup, nodeVars
  <2> QED BY <2>1 DEF Sized
<1>8. CASE Downlink \/ JoinAccept
  <2>1. region' = region /\ frame' = NoFrame /\ radio' = Asleep
    BY <1>8, Zenon DEF Downlink, JoinAccept, EndsExchange, nodeVars
  <2> QED BY <2>1 DEF Sized, Asleep
<1>9. CASE RxTimeout
  <2>1. region' = region /\ frame' = frame /\ radio' = Asleep
    BY <1>9, Zenon DEF RxTimeout, nodeVars
  <2> QED BY <2>1 DEF Sized, Asleep
<1>10. CASE UNCHANGED vars
  BY <1>10, Zenon DEF Sized, vars, nodeVars, macVars
<1> QED
  BY <1>1, <1>2, <1>3, <1>4, <1>5, <1>6, <1>7, <1>8, <1>9, <1>10, Zenon DEF Next

(* Longest frame: where the tables hold the payload without the header     *)
(* (AS923's hold it with the header), the longest frame of a data rate     *)
(* fits into what the radio was told to send or to receive, an uplink is   *)
(* over before the timer of the transmission, and a downlink before the    *)
(* reception is given up, however far the clocks are apart.                *)
THEOREM LongestFramesFit == Spec => []LongestFrame
<1>1. Init => IInv
  BY Starts
<1>2. Init => Sized
  BY DEF Init, Sized, Asleep
<1>3. IInv /\ Sized /\ [Next]_vars => IInv' /\ Sized'
  BY Preserved, SizedStep
<1>4. IInv /\ Sized => LongestFrame
  <2> SUFFICES ASSUME IInv, Sized, region # "AS923"
               PROVE  LongestFrame
    BY DEF LongestFrame
  <2>0. region \in Names
    BY RegionsAssumption DEF IInv, NodeSound
  <2>1. radio.status = "tx" => radio.config.maxPayload = frame.size
        /\ frame.timeOnAir < TxTimeoutMs
    <3> SUFFICES ASSUME radio.status = "tx"
                 PROVE  radio.config.maxPayload = frame.size /\ frame.timeOnAir < TxTimeoutMs
      OBVIOUS
    <3> DEFINE dr == frame.datarate
               n == frame.size
    <3>1. frame # NoFrame
      BY DEF IInv, RadioSound, Asleep
    <3>2. dr \in UplinkDrs(region)
      BY <3>1 DEF IInv, FrameDrawn
    <3>3. /\ n \in 0..(PayloadOf(region, dr) + 13) /\ radio.config.maxPayload = n % 256
          /\ frame.timeOnAir = RegionGetTimeOnAir(region, dr, n)
      BY <3>1 DEF Sized
    <3> HIDE DEF dr, n
    <3>4. Brief(RegionGetTimeOnAir(region, dr, n))
      BY <2>0, <3>2, <3>3, InTime
    <3>5. n % 256 = n
      BY <3>3, SMT DEF PayloadOf
    <3>6. frame.timeOnAir < TxTimeoutMs
      BY <3>3, <3>4, SMT DEF TxTimeoutMs, Brief
    <3> QED BY <3>3, <3>5, <3>6 DEF n
  <2>2. ASSUME radio.status = "rx"
        PROVE  LET dr == windows[rxSlot].parameters.datarate
                   size == RegionGetPhyParam(region, dr, 0, 0).maxPayload + PayloadOverhead
               IN  /\ size <= radio.config.maxPayload
                   /\ SystemMaxRxError + RegionGetTimeOnAir(region, dr, size)
                          - windows[rxSlot].parameters.offset < Phy.maxRxWindow
    <3> DEFINE dr == windows[rxSlot].parameters.datarate
               size == RegionGetPhyParam(region, dr, 0, 0).maxPayload + PayloadOverhead
               offset == windows[rxSlot].parameters.offset
               time == RegionGetTimeOnAir(region, dr, size)
               max == radio.config.maxPayload
               limit == Phy.maxRxWindow
    <3>1. /\ dr \in RxDrs(region) /\ windows[rxSlot].parameters = SlotParameters(region, dr)
      BY <2>2, WindowsAre
    <3>2. offset \in -62..(-20)
      <4> HIDE DEF dr
      <4>1. SlotParameters(region, dr).offset \in -62..(-20)
        BY <2>0, <3>1, SlotTimed
      <4> QED BY <3>1, <4>1
    <3>3. dr \in UplinkDrs(region) \cup RxDrs(region)
      BY <3>1
    <3>4. max = (PayloadOf(region, dr) + 13) % 256
      <4> DEFINE rx == ReceptionOf(rxSlot)
      <4>1. rx.datarate = dr /\ rx.rxContinuous = FALSE
        BY DEF ReceptionOf
      <4>2. radio.config = RegionRxConfig(region, nvm, rx)
        BY <2>2 DEF IInv, RadioSound
      <4> HIDE DEF rx, dr
      <4>3. Receives(region, dr, nvm, rx)
        BY <2>0, <3>3, <4>1, ReceptionIs
      <4> QED BY <4>2, <4>3 DEF Receives
    <3>5. limit \in {3000, 4000}
      BY <2>0, RxWindowLimit DEF Phy
    <3> HIDE DEF dr, max, offset, limit
    <3>6. RegionGetPhyParam(region, dr, 0, 0).maxPayload = PayloadOf(region, dr)
      BY <2>0, <3>3, PayloadIs
    <3>7. size = PayloadOf(region, dr) + 13
      BY <3>6, Zenon DEF PayloadOverhead
    <3>8. PayloadOf(region, dr) \in 0..242
      BY SMT DEF PayloadOf
    <3> HIDE DEF size
    <3>9. Brief(time)
      <4>1. size \in 0..(PayloadOf(region, dr) + 13)
        BY <3>7, <3>8, SMT
      <4> QED BY <2>0, <3>3, <4>1, InTime
    <3>10. size <= max
      BY <3>4, <3>7, <3>8, SMT
    <3> HIDE DEF time
    <3>11. SystemMaxRxError + time - offset < limit
      BY <3>2, <3>5, <3>9, SMT DEF SystemMaxRxError, Brief
    <3> QED BY <3>10, <3>11 DEF dr, max, offset, limit, size, time
  <2> QED BY <2>1, <2>2 DEF LongestFrame
<1>5. Spec => [](IInv /\ Sized)
  BY <1>1, <1>2, <1>3, PTL DEF Spec
<1> QED BY <1>4, <1>5, PTL
=============================================================================
