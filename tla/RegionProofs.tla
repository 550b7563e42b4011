---------------------------- MODULE RegionProofs ----------------------------
(***************************************************************************)
(* What the regions' files promise the MAC, for every region and every     *)
(* input: the receive window is open long enough (RegionPhy), and whatever *)
(* commands, joins, settings and back-offs do to the channel plan, it      *)
(* stays consistent, frames go out on legal channels and hops are even     *)
(* (ChannelPlan).  The inductive invariant is PlanSound of the plan,       *)
(* NodeSound of the node and, for hops, HopsSound of the observer; each    *)
(* operation on the plan has a lemma, each action one more.                *)
(***************************************************************************)
EXTENDS ChannelPlan, RegionPhy, TLAPS

-----------------------------------------------------------------------------
(* DIV_CEIL rounds up, in either direction by less than the divisor.       *)
LEMMA DivCeilBounds ==
    ASSUME NEW n \in Int, NEW d \in Nat \ {0}
    PROVE  /\ DivCeil(n, d) \in Int
           /\ d * DivCeil(n, d) >= n
           /\ d * DivCeil(n, d) < n + d
<1>1. ASSUME NEW a \in Int PROVE a \div d \in Int /\ d * (a \div d) <= a /\ a < d * (a \div d) + d
  BY SMT
<1>2. CASE n > 0
  <2>1. /\ (n + d - 1) \div d \in Int
        /\ d * ((n + d - 1) \div d) <= n + d - 1
        /\ n + d - 1 < d * ((n + d - 1) \div d) + d
    BY <1>1
  <2>2. DivCeil(n, d) = (n + d - 1) \div d
    BY <1>2 DEF DivCeil
  <2> QED BY <2>1, <2>2
<1>3. CASE ~(n > 0)
  <2>1. (-n) \div d \in Int /\ d * ((-n) \div d) <= -n /\ -n < d * ((-n) \div d) + d
    BY <1>1
  <2>2. DivCeil(n, d) = -((-n) \div d)
    BY <1>3 DEF DivCeil
  <2>3. d * (-((-n) \div d)) = -(d * ((-n) \div d))
    BY <2>1
  <2> QED BY <2>1, <2>2, <2>3
<1> QED BY <1>2, <1>3

(* SX126xSetLoRaSymbNumTimeout never gives the chip fewer symbols than it  *)
(* was asked for, as long as they fit its register.                        *)
LEMMA SymbolsGiven ==
    ASSUME NEW t \in 0..248
    PROVE  SymbNumTimeout(t) \in Nat /\ SymbNumTimeout(t) >= t
<1>1. t % 256 = t
  OBVIOUS
<1>2. Least(t % 256, 248) = t
  BY <1>1 DEF Least
<1> DEFINE mant == (t + 1) \div 2
<1>3. mant \in Nat /\ 2 * mant >= t
  OBVIOUS
<1>4. SymbNumTimeout(t) = IF mant <= 31 THEN 2 * mant ELSE 8 * ((mant + 3) \div 4)
  BY <1>2 DEF SymbNumTimeout
<1>5. 8 * ((mant + 3) \div 4) >= 2 * mant /\ (mant + 3) \div 4 \in Nat
  BY <1>3
<1> QED BY <1>3, <1>4, <1>5

(* The time a window has to be open: the symbols wanted, and twice the     *)
(* error of the clock, beyond the eight symbols of the preamble.           *)
Wanted(T, n, e) == (2 * n - 8) * T + 2 * (e * 1000)

(* The timeout covers it.                                                  *)
LEMMA TimeoutCovers ==
    ASSUME NEW T \in Nat \ {0}, NEW n \in Nat, NEW e \in Nat
    PROVE  /\ WindowTimeout(T, n, e) \in Int
           /\ WindowTimeout(T, n, e) >= n
           /\ WindowTimeout(T, n, e) * T >= Wanted(T, n, e)
<1> DEFINE wanted == Wanted(T, n, e)
<1>1. wanted \in Int
  BY DEF Wanted
<1>2. DivCeil(wanted, T) \in Int /\ T * DivCeil(wanted, T) >= wanted
  BY <1>1, DivCeilBounds
<1> HIDE DEF wanted
<1>3. WindowTimeout(T, n, e) = IF DivCeil(wanted, T) >= n THEN DivCeil(wanted, T) ELSE n
  BY DEF WindowTimeout, Most, wanted, Wanted
<1>4. CASE DivCeil(wanted, T) >= n
  BY <1>2, <1>3, <1>4 DEF wanted
<1>5. CASE ~(DivCeil(wanted, T) >= n)
  <2>1. n * T >= T * DivCeil(wanted, T)
    BY <1>2, <1>5
  <2>2. n * T >= wanted /\ n \in Int
    BY <1>1, <1>2, <2>1
  <2> QED BY <1>3, <1>5, <2>2 DEF wanted
<1> QED BY <1>4, <1>5

(* A window hears n of the eight symbols of a LoRa preamble, less the      *)
(* millisecond the timers round to (RegionCommonComputeRxWindowParameters  *)
(* and SX126xSetLoRaSymbNumTimeout): for every symbol time T and clock     *)
(* error up to e, whenever the symbols fit the chip's register.  The       *)
(* preamble begins late by error; the radio listens from opens to closes.  *)
THEOREM WindowHears ==
    ASSUME NEW T \in Nat \ {0}, NEW n \in 0..8, NEW e \in Nat,
           NEW error \in Int, -(e * 1000) <= error, error <= e * 1000,
           WindowTimeout(T, n, e) <= 248
    PROVE  LET window == WindowParameters(T, n, e)
               opens == 1000 * (window.offset + WakeupTimeMs)
               closes == opens + SymbNumTimeout(window.timeout) * T
           IN  Least(closes, error + 8 * T) - Most(opens, error) >= n * T - 1000
<1>0. /\ WindowTimeout(T, n, e) \in Int
      /\ WindowTimeout(T, n, e) >= n
      /\ WindowTimeout(T, n, e) * T >= Wanted(T, n, e)
  <2>1. n \in Nat
    OBVIOUS
  <2> QED BY <2>1, TimeoutCovers
<1> DEFINE t == WindowTimeout(T, n, e)
           offset == WindowOffsetMs(T, t)
           opens == 1000 * (offset + WakeupTimeMs)
           s == SymbNumTimeout(t)
           closes == opens + s * T
           half == DivCeil(t * T, 2)
<1>1. t \in 0..248 /\ t >= n /\ t * T >= (2 * n - 8) * T + 2 * (e * 1000)
  BY <1>0 DEF Wanted
<1>2. s \in Nat /\ s >= t
  BY <1>1, SymbolsGiven
<1> HIDE DEF t, s
<1>3. s * T >= t * T /\ t * T >= n * T /\ t * T \in Nat /\ s * T \in Nat
  BY <1>1, <1>2
<1>4. half \in Int /\ 2 * half >= t * T /\ 2 * half < t * T + 2
  <2>1. t * T \in Int /\ 2 \in Nat \ {0}
    BY <1>3
  <2> QED BY <2>1, DivCeilBounds, Zenon
<1> HIDE DEF half
<1> DEFINE start == 4 * T - half - 53000
<1>5. start \in Int
  BY <1>4
<1>6. offset = DivCeil(start, 1000)
  BY DEF WindowOffsetMs, WakeupTimeMs, half
<1> HIDE DEF start
<1>7. offset \in Int /\ 1000 * offset >= start /\ 1000 * offset < start + 1000
  BY <1>5, <1>6, DivCeilBounds
<1> HIDE DEF offset
<1>8. opens \in Int /\ opens >= 4 * T - half /\ opens < 4 * T - half + 1000
  BY <1>4, <1>7 DEF start, WakeupTimeMs
<1> HIDE DEF opens
<1>9. /\ closes - opens >= n * T - 1000
      /\ closes - error >= n * T - 1000
      /\ error + 8 * T - opens >= n * T - 1000
      /\ error + 8 * T - error >= n * T - 1000
      /\ closes \in Int
  <2>1. closes = opens + s * T /\ closes \in Int
    BY <1>3, <1>8
  <2>2. n * T \in Nat /\ n * T <= 8 * T /\ (2 * n - 8) * T = 2 * (n * T) - 8 * T
    OBVIOUS
  <2>3. closes - opens >= n * T
    BY <2>1, <1>3, <1>8, <2>2
  <2>4. 2 * (closes - error) >= 2 * (n * T) - 2000
    BY <2>1, <2>2, <1>1, <1>3, <1>4, <1>8
  <2>5. 2 * (error + 8 * T - opens) >= 2 * (n * T) - 2000
    BY <2>1, <2>2, <1>1, <1>3, <1>4, <1>8
  <2> QED BY <2>1, <2>2, <2>3, <2>4, <2>5, <1>8
<1>10. Least(closes, error + 8 * T) - Most(opens, error) >= n * T - 1000
  BY <1>8, <1>9 DEF Least, Most
<1> QED BY <1>10 DEF WindowParameters, t, s, offset, opens

-----------------------------------------------------------------------------
(* The type of RegionNvmDataGroup1_t and RegionNvmDataGroup2_t.            *)
NvmType ==
    [drs : [ChannelIds(region) -> SUBSET Datarates(region)],
     rx1 : SUBSET ChannelIds(region),
     mask : SUBSET ChannelIds(region),
     defaultMask : SUBSET ChannelIds(region),
     remaining : SUBSET ChannelIds(region),
     group : Int]

(* A plan that no operation leaves: PlanConsistent of its channels, and    *)
(* what keeps it so, the default masks of the region and that only a hop   *)
(* plan has rounds.                                                        *)
PlanSound(n) ==
    /\ n \in NvmType
    /\ \A c \in DefaultChannels(region) : n.drs[c] = DefaultDrs(region, c)
    /\ n.rx1 \subseteq Defined(n)
    /\ n.remaining \subseteq n.mask
    /\ region.plan # "hop" => n.remaining = {}

(* The same of the rest of the node; a frame whose repetition is delayed   *)
(* is no join request.                                                     *)
NodeSound ==
    /\ region \in Regions
    /\ uplinkDwellTime \in 0..1
    /\ datarate \in MinDr..region.maxDr
    /\ txPower \in 0..region.minTxPower
    /\ adrAckCounter \in Nat /\ nbTrans \in Nat \ {0} /\ tries \in Nat
    /\ joinTrials \in 0..(TrialsModulus - 1)
    /\ mac \in {"idle", "windows", "unanswered", "delayed"}
    /\ kind \in {"join", "unconfirmed", "confirmed", "none"}
    /\ mac = "delayed" => kind # "join"
    /\ channel \in ChannelIds(region)

-----------------------------------------------------------------------------
(* What the assumption on the regions gives of one.                        *)
LEMMA RegionPlan ==
    ASSUME NEW r \in Regions
    PROVE  /\ r.plan \in {"list", "hop", "mask"}
           /\ r.plan = "list" => r.channels \in Nat /\ r.defaults \in 1..r.channels
           /\ r.plan # "list" => r.banks \in Nat \ {0} /\ r.bankSize \in Nat \ {0}
           /\ r.channelDrs \subseteq Datarates(r) /\ 0 \in r.channelDrs
           /\ r.maxDr \in Nat /\ r.minTxPower \in Nat
  BY RegionsAssumption DEF WellFormed, Datarates

(* The data rates a region names are data rates it may send at.            *)
LEMMA RegionDatarates ==
    ASSUME NEW r \in Regions, NEW dwell \in 0..1
    PROVE  /\ MinTxDr(r, dwell) \in 0..r.maxDr /\ r.maxDr \in Nat
           /\ r.dwell \in 0..1
           /\ r.joinDr \in MinTxDr(r, r.dwell)..r.maxDr
           /\ r.defaultDr \in MinTxDr(r, r.dwell)..r.maxDr
           /\ r.plan = "hop" => /\ r.wideDr \in MinTxDr(r, r.dwell)..r.maxDr
                                /\ r.wideDr \in Nat /\ r.wideDr \notin r.channelDrs
<1>1. r.maxDr \in Nat /\ r.dwell \in 0..1 /\ r.dwellDr \in 0..r.maxDr
  BY RegionsAssumption DEF WellFormed
<1>2. {r.joinDr, r.defaultDr} \subseteq MinTxDr(r, r.dwell)..r.maxDr
  BY RegionsAssumption DEF WellFormed
<1>3. r.plan = "hop" => r.wideDr \in MinTxDr(r, r.dwell)..r.maxDr /\ r.wideDr \notin r.channelDrs
  BY RegionsAssumption DEF WellFormed
<1>4. MinTxDr(r, dwell) \in 0..r.maxDr /\ MinTxDr(r, r.dwell) \in 0..r.maxDr
  BY <1>1 DEF MinTxDr
<1> QED BY <1>1, <1>2, <1>3, <1>4

(* Channel 0 is one of every plan; 500 kHz channels are none of the others.*)
LEMMA RegionChannels ==
    ASSUME NEW r \in Regions
    PROVE  /\ 0 \in DefaultChannels(r)
           /\ DefaultChannels(r) \subseteq ChannelIds(r)
           /\ r.plan # "list" => DefaultChannels(r) = ChannelIds(r)
           /\ Narrow(r) \subseteq ChannelIds(r) /\ Wide(r) \subseteq ChannelIds(r)
           /\ Narrow(r) \cap Wide(r) = {}
           /\ r.plan # "list" => ChannelIds(r) = Narrow(r) \cup Wide(r)
           /\ r.plan # "hop" => Wide(r) = {}
<1>1. CASE r.plan = "list"
  <2>1. r.channels \in Nat /\ r.defaults \in 1..r.channels
    BY <1>1, RegionPlan
  <2>2. DefaultChannels(r) = 0..(r.defaults - 1) /\ ChannelIds(r) = 0..(r.channels - 1)
        /\ Narrow(r) = {} /\ Wide(r) = {}
    BY <1>1 DEF DefaultChannels, ChannelIds, Narrow, Wide
  <2> QED BY <1>1, <2>1, <2>2
<1>2. CASE r.plan # "list"
  <2>1. r.banks \in Nat \ {0} /\ r.bankSize \in Nat \ {0}
    BY <1>2, RegionPlan
  <2>2. NbNarrow(r) \in Nat /\ NbNarrow(r) > 0
    BY <2>1 DEF NbNarrow
  <2>3. /\ DefaultChannels(r) = ChannelIds(r) /\ ChannelIds(r) = Narrow(r) \cup Wide(r)
        /\ Narrow(r) = 0..(NbNarrow(r) - 1)
    BY <1>2 DEF DefaultChannels, ChannelIds, Narrow
  <2>4. Narrow(r) \cap Wide(r) = {}
    BY <2>1, <2>2, <2>3 DEF Wide
  <2>5. 0 \in Narrow(r)
    BY <2>2, <2>3
  <2>6. r.plan # "hop" => Wide(r) = {}
    BY DEF Wide
  <2> QED BY <1>2, <2>3, <2>4, <2>5, <2>6
<1> QED BY <1>1, <1>2

(* A default channel has the data rates of its kind.                       *)
LEMMA DefaultDatarates ==
    ASSUME NEW r \in Regions, NEW c \in DefaultChannels(r)
    PROVE  /\ DefaultDrs(r, c) = IF c \in Wide(r) THEN {r.wideDr} ELSE r.channelDrs
           /\ DefaultDrs(r, c) # {} /\ DefaultDrs(r, c) \subseteq Datarates(r)
<1>1. DefaultDrs(r, c) = IF c \in Wide(r) THEN {r.wideDr} ELSE r.channelDrs
  BY DEF DefaultDrs
<1>2. c \in Wide(r) => r.plan = "hop"
  BY RegionChannels
<1>3. r.plan = "hop" => r.wideDr \in 0..r.maxDr
  <2>1. 0 \in 0..1
    OBVIOUS
  <2>2. r.dwell \in 0..1
    BY <2>1, RegionDatarates
  <2> QED BY <2>1, <2>2, RegionDatarates
<1> QED BY <1>1, <1>2, <1>3, RegionPlan DEF Datarates

(* The channels of a sub-band are of the region.                           *)
LEMMA SubBandChannels ==
    ASSUME NEW r \in Regions, r.plan # "list", NEW b \in 0..(r.banks - 1)
    PROVE  SubBand(r, b) \subseteq ChannelIds(r)
<1>1. r.banks \in Nat \ {0} /\ r.bankSize \in Nat \ {0}
  BY RegionPlan
<1>2. b * r.bankSize \in Nat /\ b * r.bankSize + r.bankSize <= NbNarrow(r) /\ NbNarrow(r) \in Nat
  <2>1. ASSUME NEW m \in Nat, NEW k \in Nat, NEW i \in 0..(m - 1)
        PROVE  i * k \in Nat /\ i * k + k <= m * k /\ m * k \in Nat
    OBVIOUS
  <2> QED BY <1>1, <2>1 DEF NbNarrow
<1>3. Bank(r, b) \subseteq Narrow(r)
  BY <1>1, <1>2 DEF Bank, Narrow
<1>4. WideOf(r, b) \subseteq Wide(r)
  BY <1>1, <1>2 DEF WideOf, Wide
<1> QED BY <1>3, <1>4, RegionChannels DEF SubBand

-----------------------------------------------------------------------------
(* The operations on the plan keep it sound.                               *)
LEMMA DefaultsSound ==
    ASSUME region \in Regions
    PROVE  PlanSound(Defaults(region))
<1> DEFINE d == Defaults(region)
<1>1. /\ d.drs = [c \in ChannelIds(region) |-> DefaultDrs(region, c)]
      /\ d.rx1 = {} /\ d.mask = DefaultChannels(region)
      /\ d.remaining = IF region.plan = "hop" THEN DefaultChannels(region) ELSE {}
  BY DEF Defaults
<1>2. DefaultChannels(region) \subseteq ChannelIds(region)
  BY RegionChannels
<1>3. \A c \in ChannelIds(region) : DefaultDrs(region, c) \subseteq Datarates(region)
  <2>1. ASSUME NEW c \in ChannelIds(region), c \notin DefaultChannels(region)
        PROVE  DefaultDrs(region, c) = {}
    BY <2>1, RegionChannels DEF DefaultDrs
  <2> QED BY <2>1, DefaultDatarates
<1>4. d \in NvmType
  BY <1>2, <1>3 DEF Defaults, NvmType
<1> QED BY <1>1, <1>2, <1>4 DEF PlanSound

(* A mask of channels of the region replaces the present one.              *)
LEMMA WithMaskSound ==
    ASSUME region \in Regions, NEW n, PlanSound(n), NEW mask \in SUBSET ChannelIds(region)
    PROVE  PlanSound(WithMask(n, mask)) /\ WithMask(n, mask).mask = mask
  BY DEF PlanSound, NvmType, WithMask, Defined

(* INIT_TYPE_ACTIVATE_DEFAULT_CHANNELS.                                    *)
LEMMA ActivatedSound ==
    ASSUME region \in Regions, NEW n, PlanSound(n)
    PROVE  PlanSound(Activated(n))
<1>1. n.defaultMask \in SUBSET ChannelIds(region)
  BY DEF PlanSound, NvmType
<1>2. CASE region.plan = "list"
  BY <1>2 DEF Activated, PlanSound, NvmType, Defined
<1>3. CASE region.plan # "list"
  BY <1>1, <1>3, WithMaskSound DEF Activated
<1> QED BY <1>2, <1>3

(* INIT_TYPE_RESET_TO_DEFAULT_CHANNELS.                                    *)
LEMMA ResetSound ==
    ASSUME region \in Regions, NEW n, PlanSound(n)
    PROVE  PlanSound(ResetToDefaults(n))
<1>1. n.defaultMask \in SUBSET ChannelIds(region)
  BY DEF PlanSound, NvmType
<1>2. PlanSound(WithMask(n, n.defaultMask))
  BY <1>1, WithMaskSound
<1> HIDE DEF WithMask
<1> QED BY <1>2 DEF ResetToDefaults, PlanSound, NvmType, Defined

(* Region<name>ChannelAdd leaves the default channels alone, and the       *)
(* channel it adds is defined.                                             *)
LEMMA AddedSound ==
    ASSUME region \in Regions, NEW n, PlanSound(n), NEW c, NEW drs, CanAdd(c, drs)
    PROVE  PlanSound(Added(n, c, drs))
<1>1. /\ region.plan = "list" /\ c \in ChannelIds(region) /\ c \notin DefaultChannels(region)
      /\ drs # {} /\ drs \in SUBSET Datarates(region)
  BY RegionPlan DEF CanAdd, ChannelIds, DefaultChannels
<1> DEFINE a == Added(n, c, drs)
<1>2. /\ a.drs = [n.drs EXCEPT ![c] = drs] /\ a.mask = n.mask \cup {c} /\ a.rx1 = n.rx1 \ {c}
      /\ a.remaining = n.remaining
  BY DEF Added, PlanSound, NvmType
<1>3. a \in NvmType
  BY <1>1 DEF Added, PlanSound, NvmType
<1>4. \A d \in ChannelIds(region) : a.drs[d] = IF d = c THEN drs ELSE n.drs[d]
  BY <1>1, <1>2 DEF PlanSound, NvmType
<1>5. DefaultChannels(region) \subseteq ChannelIds(region)
  BY RegionChannels
<1> HIDE DEF a
<1>6. \A d \in DefaultChannels(region) : a.drs[d] = DefaultDrs(region, d)
  BY <1>1, <1>4, <1>5 DEF PlanSound
<1>7. a.rx1 \subseteq Defined(a)
  BY <1>1, <1>2, <1>4 DEF PlanSound, Defined
<1>8. a.remaining \subseteq a.mask /\ (region.plan # "hop" => a.remaining = {})
  BY <1>2 DEF PlanSound
<1> QED BY <1>3, <1>6, <1>7, <1>8 DEF PlanSound, a

(* Region<name>ChannelsRemove, of channels that are no default ones.       *)
LEMMA RemovedSound ==
    ASSUME region \in Regions, NEW n, PlanSound(n), NEW cs, region.plan = "list",
           cs \cap DefaultChannels(region) = {}
    PROVE  PlanSound(Removed(n, cs))
<1> DEFINE m == Removed(n, cs)
<1>2. /\ m.drs = [d \in ChannelIds(region) |-> IF d \in cs THEN {} ELSE n.drs[d]]
      /\ m.mask = n.mask \ cs /\ m.rx1 = n.rx1 \ cs
      /\ m.remaining = n.remaining
  BY DEF Removed, PlanSound, NvmType
<1>3. m \in NvmType
  BY DEF Removed, PlanSound, NvmType
<1>4. \A d \in ChannelIds(region) : m.drs[d] = IF d \in cs THEN {} ELSE n.drs[d]
  BY <1>2
<1>5. DefaultChannels(region) \subseteq ChannelIds(region)
  BY RegionChannels
<1> HIDE DEF m
<1>6. \A d \in DefaultChannels(region) : m.drs[d] = DefaultDrs(region, d)
  BY <1>4, <1>5 DEF PlanSound
<1>7. m.rx1 \subseteq Defined(m)
  BY <1>2, <1>4 DEF PlanSound, Defined
<1>8. m.remaining = {}
  BY <1>2 DEF PlanSound
<1> QED BY <1>3, <1>6, <1>7, <1>8 DEF PlanSound, m

(* Region<name>ApplyCFList: the channels of a list plan it gives no        *)
(* frequency end up undefined, disabled and without a downlink frequency.  *)
LEMMA CFListSound ==
    ASSUME region \in Regions, NEW n, PlanSound(n), NEW list,
           region.plan # "list" => list \subseteq ChannelIds(region)
    PROVE  PlanSound(CFListApplied(n, list))
<1>1. CASE region.plan = "list"
  <2> DEFINE others == region.defaults..(region.channels - 1)
             added == {c \in others :
                         c - region.defaults \in list /\ c < region.defaults + region.cfList}
             m == Removed(n, others)
             a == CFListApplied(n, list)
  <2>1. others \cap DefaultChannels(region) = {} /\ others \subseteq ChannelIds(region)
    BY <1>1, RegionPlan DEF DefaultChannels, ChannelIds
  <2>2. PlanSound(m)
    BY <1>1, <2>1, RemovedSound
  <2>3. a = [m EXCEPT !.drs = [c \in DOMAIN @ |-> IF c \in added THEN region.channelDrs ELSE @[c]],
                      !.mask = @ \cup added]
    BY <1>1 DEF CFListApplied
  <2>4. added \subseteq others
    OBVIOUS
  <2> HIDE DEF others, added, m, a
  <2>5. /\ a.drs = [c \in ChannelIds(region) |-> IF c \in added THEN region.channelDrs
                                                 ELSE m.drs[c]]
        /\ a.mask = m.mask \cup added /\ a.rx1 = m.rx1 /\ a.remaining = m.remaining
    BY <2>2, <2>3 DEF PlanSound, NvmType
  <2>6. region.channelDrs \in SUBSET Datarates(region) /\ region.channelDrs # {}
    BY RegionPlan
  <2>7. a \in NvmType
    BY <2>1, <2>2, <2>3, <2>4, <2>6 DEF PlanSound, NvmType
  <2>8. \A d \in ChannelIds(region) :
           a.drs[d] = IF d \in added THEN region.channelDrs ELSE m.drs[d]
    BY <2>5
  <2>9. DefaultChannels(region) \subseteq ChannelIds(region)
    BY RegionChannels
  <2>10. \A d \in DefaultChannels(region) : a.drs[d] = DefaultDrs(region, d)
    BY <2>1, <2>2, <2>4, <2>8, <2>9 DEF PlanSound
  <2>11. a.rx1 \subseteq Defined(a)
    BY <2>2, <2>5, <2>6, <2>8 DEF PlanSound, Defined
  <2>12. a.remaining = {}
    BY <1>1, <2>2, <2>5 DEF PlanSound
  <2> QED BY <2>7, <2>10, <2>11, <2>12 DEF PlanSound, a
<1>2. CASE region.plan # "list"
  BY <1>2, WithMaskSound DEF CFListApplied
<1> QED BY <1>1, <1>2

(* Whatever the requests of a block make of the mask, it is one of         *)
(* channels of the region, and the round keeps to it.                      *)
LEMMA LinkAdrMaskedSound ==
    ASSUME region \in Regions, NEW n, PlanSound(n), NEW block
    PROVE  /\ PlanSound(LinkAdrMasked(n, block))
           /\ LinkAdrMasked(n, block).mask = BlockMask(n, block)
           /\ LinkAdrMasked(n, block).drs = n.drs
           /\ LinkAdrMasked(n, block).remaining =
                (n.remaining \cap BlockMask(n, block) \cap Narrow(region))
                \cup (BlockMask(n, block) \cap Wide(region))
<1>1. BlockMask(n, block) \in SUBSET ChannelIds(region)
  BY DEF BlockMask
<1>2. region.plan # "hop" => Wide(region) = {}
  BY RegionChannels
<1> QED BY <1>1, <1>2 DEF LinkAdrMasked, PlanSound, NvmType, Defined

-----------------------------------------------------------------------------
(* A choice of a channel keeps the plan sound, and what it chooses is an   *)
(* enabled channel of its data rate, before the join a default one.        *)
LEMMA ReplenishedSound ==
    ASSUME region \in Regions, NEW n, PlanSound(n), NEW dr
    PROVE  PlanSound(Replenished(n, dr)) /\ Replenished(n, dr).drs = n.drs
<1>1. CASE region.plan = "hop"
  <2> DEFINE m == Replenished(n, dr)
  <2>1. /\ n.mask \subseteq ChannelIds(region) /\ n.remaining \subseteq n.mask
        /\ n.group \in Int
    BY DEF PlanSound, NvmType
  <2>2. PICK rest \in SUBSET n.mask, g \in Int :
           m = [n EXCEPT !.remaining = rest, !.group = g]
    <3> DEFINE narrow == n.remaining \cap Narrow(region)
               wide == n.remaining \cap Wide(region)
               rest == (IF narrow = {} THEN n.mask \cap Narrow(region) ELSE narrow)
                       \cup (IF wide = {} /\ dr >= region.wideDr
                             THEN n.mask \cap Wide(region) ELSE wide)
               g == IF narrow = {} THEN 0 ELSE n.group
    <3>1. rest \in SUBSET n.mask /\ g \in Int
      BY <2>1
    <3>2. m = [n EXCEPT !.remaining = rest, !.group = g]
      BY <1>1 DEF Replenished
    <3> QED BY <3>1, <3>2
  <2> HIDE DEF m
  <2>3. PlanSound(m) /\ m.drs = n.drs
    BY <1>1, <2>1, <2>2 DEF PlanSound, NvmType, Defined
  <2> QED BY <2>3 DEF m
<1>2. CASE region.plan # "hop"
  BY <1>2, RegionChannels DEF Replenished, PlanSound, NvmType, Defined
<1> QED BY <1>1, <1>2

(* A list plan that finds no channel adds the default ones.                *)
LEMMA NotFoundSound ==
    ASSUME region \in Regions, NEW n, PlanSound(n)
    PROVE  PlanSound(NotFound(n))
  BY RegionChannels DEF NotFound, PlanSound, NvmType, Defined

(* What Region<name>NextChannel promises of an outcome.                    *)
ChoiceSound(o, dr, isJoined) ==
    /\ PlanSound(o.nvm)
    /\ o.status = "OK" => /\ o.channel \in o.nvm.mask
                          /\ dr \in o.nvm.drs[o.channel]
                          /\ isJoined \/ o.channel \in DefaultChannels(region)

(* A channel chosen from the candidates, in every way a plan chooses.      *)
LEMMA ChosenSound ==
    ASSUME region \in Regions, NEW n, PlanSound(n), NEW dr, NEW isJoined \in BOOLEAN,
           NEW o \in Chosen(n, dr, isJoined)
    PROVE  ChoiceSound(o, dr, isJoined) /\ o.status = "OK"
<1> DEFINE candidates == Candidates(n, dr, isJoined)
           without(c) == [n EXCEPT !.remaining = @ \ {c}]
<1>1. PICK c \in candidates, g \in Int \cup {n.group} :
         \/ o = Outcome("OK", n, c)
         \/ o = Outcome("OK", [without(c) EXCEPT !.group = g], c)
  <2>0. \A c : without(c) = [without(c) EXCEPT !.group = n.group]
    BY DEF PlanSound, NvmType
  <2>1. CASE region.plan # "hop"
    <3>1. Chosen(n, dr, isJoined) = {Outcome("OK", n, c) : c \in candidates}
      BY <2>1 DEF Chosen
    <3> QED BY <3>1
  <2>2. CASE region.plan = "hop" /\ isJoined
    BY <2>0, <2>2 DEF Chosen
  <2>3. CASE region.plan = "hop" /\ ~isJoined /\ dr = region.joinDr
    <3>1. PICK x \in {y \in [bank : JoinGroup(n), channel : candidates] :
                         y.channel \in Bank(region, y.bank)} :
             o = Outcome("OK", [without(x.channel) EXCEPT !.group = (x.bank + 1) % region.banks],
                         x.channel)
      BY <2>3 DEF Chosen
    <3>2. x.bank \in 0..(region.banks - 1) /\ x.channel \in candidates
      BY DEF JoinGroup
    <3>3. (x.bank + 1) % region.banks \in Int
      BY <2>3, <3>2, RegionPlan
    <3> QED BY <3>1, <3>2, <3>3
  <2>4. CASE region.plan = "hop" /\ ~isJoined /\ dr # region.joinDr
    BY <2>0, <2>4 DEF Chosen
  <2> QED BY <2>1, <2>2, <2>3, <2>4
<1>2. /\ c \in n.mask /\ dr \in n.drs[c]
      /\ isJoined \/ c \in DefaultChannels(region)
      /\ n.group \in Int
  BY DEF Candidates, Supports, PlanSound, NvmType
<1>3. PlanSound([without(c) EXCEPT !.group = g])
  BY <1>2 DEF PlanSound, NvmType, Defined
<1>4. CASE o = Outcome("OK", n, c)
  BY <1>2, <1>4 DEF ChoiceSound, Outcome
<1>5. CASE o = Outcome("OK", [without(c) EXCEPT !.group = g], c)
  <2> DEFINE m == [without(c) EXCEPT !.group = g]
  <2>1. m.mask = n.mask /\ m.drs = n.drs
    BY DEF PlanSound, NvmType
  <2>2. PlanSound(m)
    BY <1>3
  <2> HIDE DEF m
  <2>3. o.status = "OK" /\ o.nvm = m /\ o.channel = c
    BY <1>5 DEF Outcome, m
  <2> QED BY <1>2, <2>1, <2>2, <2>3 DEF ChoiceSound
<1> QED BY <1>1, <1>4, <1>5

(* Every outcome of Region<name>NextChannel keeps its promise.             *)
LEMMA NextChannelSound ==
    ASSUME region \in Regions, NEW n0, PlanSound(n0), NEW dr, NEW isJoined \in BOOLEAN,
           NEW o \in NextChannel(n0, dr, isJoined)
    PROVE  ChoiceSound(o, dr, isJoined)
<1> DEFINE n == Replenished(n0, dr)
<1>1. PlanSound(n)
  BY ReplenishedSound
<1> HIDE DEF n
<1>2. CASE o \in Chosen(n, dr, isJoined)
  BY <1>1, <1>2, ChosenSound
<1>3. CASE o = Outcome("RESTRICTED", n, 0) \/ o = Outcome("NO_FREE_CHANNEL", n, 0)
  BY <1>1, <1>3 DEF ChoiceSound, Outcome
<1>4. CASE o = Outcome("NO_CHANNEL", NotFound(n), 0)
  BY <1>1, <1>4, NotFoundSound DEF ChoiceSound, Outcome
<1> QED BY <1>2, <1>3, <1>4 DEF NextChannel, n

(* The data rates the back-off may choose are of the region.               *)
LEMMA LowerDatarates ==
    ASSUME region \in Regions, uplinkDwellTime \in 0..1, NEW n, NEW dr \in MinDr..region.maxDr,
           NEW next \in NextLowerTxDr(n, dr)
    PROVE  next \in MinDr..region.maxDr
<1>1. MinDr \in 0..region.maxDr /\ region.maxDr \in Nat
  BY RegionDatarates DEF MinDr
<1> QED BY <1>1 DEF NextLowerTxDr

(* The data rate CalcNextV10X chooses is one of the region's.              *)
LEMMA NextDatarates ==
    ASSUME region \in Regions, uplinkDwellTime \in 0..1, NEW dr \in MinDr..region.maxDr,
           NEW next \in NextDr(dr)
    PROVE  next \in MinDr..region.maxDr
<1>1. MinDr \in 0..region.maxDr /\ region.maxDr \in Nat
  BY RegionDatarates DEF MinDr
<1>2. Larger(dr, MinDr) = dr
  BY <1>1 DEF Larger
<1> QED BY <1>2, LowerDatarates DEF NextDr

(* The next state has the plan a handler leaves.                           *)
LEMMA PlanKept ==
    ASSUME region' = region, NEW n, PlanSound(n), nvm' = n
    PROVE  PlanSound(nvm)'
  BY DEF PlanSound, NvmType, Defined

-----------------------------------------------------------------------------
(* What LegalChannel says of a step.                                       *)
Legal ==
    Transmits => /\ channel' \in nvm'.mask
                 /\ datarate' \in nvm'.drs[channel']
                 /\ datarate' >= MinDr'
                 /\ kind' = "join" => channel' \in DefaultChannels(region)

(* What a step that changes none of the rest leaves of the node.           *)
StepSound ==
    /\ PlanSound(nvm)'
    /\ datarate' \in MinDr'..region'.maxDr
    /\ txPower' \in 0..region'.minTxPower
    /\ adrAckCounter' \in Nat /\ tries' \in Nat
    /\ mac' \in {"idle", "windows", "unanswered", "delayed"}
    /\ kind' \in {"join", "unconfirmed", "confirmed", "none"}
    /\ mac' = "delayed" => kind' # "join"
    /\ channel' \in ChannelIds(region')
    /\ Legal

(* SendFrameOnChannel and what does not come to it, for a first frame.     *)
LEMMA SendStep ==
    ASSUME PlanSound(nvm), NodeSound, region' = region, uplinkDwellTime' = uplinkDwellTime,
           mac = "idle", NEW k \in {"unconfirmed", "confirmed"}, NEW dr \in MinDr..region.maxDr,
           Send(k, dr)
    PROVE  StepSound
<1> DEFINE from(next) == IF ActivatesDefaults(dr, next) THEN Activated(nvm) ELSE nvm
           fine(next, o) ==
              /\ o.status = "OK"
              /\ datarate' = next
              /\ txPower' = NextTxPower(dr)
              /\ adrAckCounter' = NextAdrAckCounter(dr)
              /\ Sends(k, o.channel, 1)
           refused == datarate' = dr /\ UNCHANGED <<txPower, adrAckCounter, exchVars>>
<1>0. PICK next \in NextDr(dr) :
         \E o \in NextChannel(from(next), next, TRUE) : PlanChooses(o) /\ (fine(next, o) \/ refused)
  BY DEF Send
<1>1. PICK o \in NextChannel(from(next), next, TRUE) :
         PlanChooses(o) /\ (fine(next, o) \/ refused)
  BY <1>0
<1>2. next \in MinDr..region.maxDr
  BY NextDatarates DEF NodeSound
<1>3. PlanSound(from(next))
  BY ActivatedSound DEF NodeSound
<1>4. ChoiceSound(o, next, TRUE)
  BY <1>3, NextChannelSound DEF NodeSound
<1>5. PlanSound(nvm)' /\ nvm' = o.nvm
  BY <1>1, <1>4, PlanKept DEF ChoiceSound, PlanChooses
<1>6. MinDr' = MinDr
  BY DEF MinDr
<1>7. MinDr \in Nat /\ region.maxDr \in Nat /\ region.minTxPower \in Nat
  BY RegionDatarates, RegionPlan DEF MinDr, NodeSound
<1>8. CASE fine(next, o)
  <2>1. /\ o.channel \in o.nvm.mask /\ next \in o.nvm.drs[o.channel]
        /\ o.nvm.mask \subseteq ChannelIds(region)
    BY <1>4, <1>8 DEF ChoiceSound, PlanSound, NvmType
  <2>2. txPower' \in 0..region.minTxPower /\ adrAckCounter' \in Nat
    BY <1>7, <1>8 DEF NextTxPower, NextAdrAckCounter, NodeSound
  <2>3. mac' = "windows" /\ kind' = k /\ channel' = o.channel /\ tries' = 1
    BY <1>8 DEF Sends
  <2>4. Legal
    BY <1>2, <1>5, <1>6, <1>7, <1>8, <2>1, <2>3 DEF Legal
  <2> QED BY <1>2, <1>5, <1>6, <1>8, <2>1, <2>2, <2>3, <2>4 DEF StepSound
<1>9. CASE refused
  <2>1. Legal
    BY <1>9 DEF Legal, Transmits, exchVars
  <2> QED BY <1>5, <1>6, <1>9, <2>1 DEF StepSound, NodeSound, exchVars
<1> QED BY <1>1, <1>8, <1>9

(* A repetition, and the end of the exchange that has none left.           *)
LEMMA RepeatStep ==
    ASSUME PlanSound(nvm), NodeSound, region' = region, uplinkDwellTime' = uplinkDwellTime,
           txPower' = txPower, kind # "join", NEW dr \in MinDr..region.maxDr, Repeat(dr)
    PROVE  StepSound
<1>1. PICK o \in NextChannel(nvm, dr, TRUE), fits \in BOOLEAN :
        /\ PlanChooses(o)
        /\ datarate' = dr
        /\ \/ /\ o.status = "OK" /\ fits
              /\ Sends(kind, o.channel, tries + 1)
              /\ UNCHANGED adrAckCounter
           \/ /\ o.status = "RESTRICTED"
              /\ mac' = "delayed"
              /\ UNCHANGED <<kind, tries, channel, adrAckCounter>>
           \/ /\ o.status \in {"NO_CHANNEL", "NO_FREE_CHANNEL"} \/ (o.status = "OK" /\ ~fits)
              /\ Over
              /\ SilenceCounted
  BY DEF Repeat
<1>2. ChoiceSound(o, dr, TRUE)
  BY NextChannelSound DEF NodeSound
<1>3. PlanSound(nvm)' /\ nvm' = o.nvm
  BY <1>1, <1>2, PlanKept DEF ChoiceSound, PlanChooses
<1>4. MinDr' = MinDr /\ MinDr \in Nat /\ region.maxDr \in Nat
  BY RegionDatarates, RegionPlan DEF MinDr, NodeSound
<1>5. CASE /\ o.status = "OK" /\ Sends(kind, o.channel, tries + 1)
           /\ UNCHANGED adrAckCounter
  <2>1. /\ o.channel \in o.nvm.mask /\ dr \in o.nvm.drs[o.channel]
        /\ o.nvm.mask \subseteq ChannelIds(region)
    BY <1>2, <1>5 DEF ChoiceSound, PlanSound, NvmType
  <2>2. mac' = "windows" /\ kind' = kind /\ channel' = o.channel /\ tries' = tries + 1
    BY <1>5 DEF Sends
  <2>3. Legal
    BY <1>1, <1>3, <1>4, <2>1, <2>2 DEF Legal
  <2> QED BY <1>1, <1>3, <1>4, <1>5, <2>1, <2>2, <2>3 DEF StepSound, NodeSound
<1>6. CASE mac' = "delayed" /\ UNCHANGED <<kind, tries, channel, adrAckCounter>>
  <2>1. Legal
    BY <1>6 DEF Legal, Transmits
  <2> QED BY <1>1, <1>3, <1>4, <1>6, <2>1 DEF StepSound, NodeSound
<1>7. CASE Over /\ SilenceCounted
  <2>1. Legal /\ 0 \in ChannelIds(region)
    BY <1>7, RegionChannels DEF Legal, Transmits, Over, NodeSound
  <2>2. adrAckCounter' \in Nat
    BY <1>7 DEF SilenceCounted, NodeSound
  <2> QED BY <1>1, <1>3, <1>4, <1>7, <2>1, <2>2 DEF StepSound, NodeSound, Over
<1> QED BY <1>1, <1>5, <1>6, <1>7

-----------------------------------------------------------------------------
(* One lemma per action.                                                   *)

(* LoRaMacMcpsRequest.                                                     *)
LEMMA McpsRequestStep ==
    ASSUME PlanSound(nvm), NodeSound, NEW k \in {"unconfirmed", "confirmed"}, McpsRequest(k)
    PROVE  PlanSound(nvm)' /\ NodeSound' /\ Legal
<1>1. /\ mac = "idle"
      /\ UNCHANGED <<region, joinTrials, joined, nbTrans, adrOn, uplinkDwellTime, changes>>
  BY DEF McpsRequest
<1>2. PICK dr \in MinDr..region.maxDr : Send(k, dr)
  <2>1. CASE adrOn
    BY <2>1 DEF McpsRequest, NodeSound
  <2>2. CASE ~adrOn
    <3>1. PICK asked \in AppDatarates :
             /\ VerifyTxDr(region, uplinkDwellTime, Larger(asked, MinDr))
             /\ Send(k, Larger(asked, MinDr))
      BY <2>2 DEF McpsRequest
    <3>2. Larger(asked, MinDr) \in MinDr..region.maxDr
      BY <3>1 DEF VerifyTxDr, MinDr
    <3> QED BY <3>1, <3>2
  <2> QED BY <2>1, <2>2
<1>3. StepSound
  BY <1>1, <1>2, SendStep
<1> QED BY <1>1, <1>3 DEF StepSound, NodeSound

(* The windows of an exchange that end in silence.                         *)
LEMMA SilenceStep ==
    ASSUME PlanSound(nvm), NodeSound, Silence
    PROVE  PlanSound(nvm)' /\ NodeSound' /\ Legal
<1>1. UNCHANGED <<region, joinTrials, joined, txPower, nbTrans, adrOn, uplinkDwellTime, changes>>
  BY DEF Silence
<1>2. StepSound
  <2>1. CASE RepeatUnconfirmed
    BY <1>1, <2>1, RepeatStep DEF RepeatUnconfirmed, NodeSound
  <2>2. CASE RetryConfirmed
    <3>1. PICK dr \in IF (tries + 1) % 2 = 1 THEN NextLowerTxDr(nvm, datarate) ELSE {datarate} :
             Repeat(dr)
      BY <2>2 DEF RetryConfirmed
    <3>2. dr \in MinDr..region.maxDr
      BY <3>1, LowerDatarates DEF NodeSound
    <3>3. kind # "join"
      BY <2>2 DEF RetryConfirmed
    <3> QED BY <1>1, <3>1, <3>2, <3>3, RepeatStep
  <2>3. CASE GiveUp
    <3>1. PICK n : PlanSound(n) /\ PlanBecomes(n)
      BY <2>3, ActivatedSound DEF GiveUp, NodeSound
    <3>2. PlanSound(nvm)'
      BY <1>1, <3>1, PlanKept DEF PlanBecomes
    <3>3. Legal /\ 0 \in ChannelIds(region)
      BY <2>3, RegionChannels DEF GiveUp, Over, Legal, Transmits, NodeSound
    <3>4. Over /\ datarate' = datarate /\ adrAckCounter' \in Nat /\ MinDr' = MinDr
      BY <1>1, <2>3 DEF GiveUp, SilenceCounted, NodeSound, MinDr
    <3> QED BY <1>1, <3>2, <3>3, <3>4 DEF StepSound, NodeSound, Over
  <2> QED BY <2>1, <2>2, <2>3 DEF Silence
<1> QED BY <1>1, <1>2 DEF StepSound, NodeSound

(* A repetition whose time on air the duty cycle had put off.              *)
LEMMA TxDelayedStep ==
    ASSUME PlanSound(nvm), NodeSound, OnTxDelayedTimerEvent
    PROVE  PlanSound(nvm)' /\ NodeSound' /\ Legal
<1>1. UNCHANGED <<region, joinTrials, joined, txPower, nbTrans, adrOn, uplinkDwellTime, changes>>
  BY DEF OnTxDelayedTimerEvent
<1>2. StepSound
  BY <1>1, RepeatStep DEF OnTxDelayedTimerEvent, NodeSound
<1> QED BY <1>1, <1>2 DEF StepSound, NodeSound

(* A join request resets the plan and takes a default channel.             *)
LEMMA JoinRequestStep ==
    ASSUME PlanSound(nvm), NodeSound, JoinRequest
    PROVE  PlanSound(nvm)' /\ NodeSound' /\ Legal
<1>1. /\ mac = "idle" /\ adrAckCounter' = 0 /\ txPower' = 0
      /\ uplinkDwellTime' = region.dwell
      /\ UNCHANGED <<region, nbTrans, adrOn>>
  BY DEF JoinRequest
<1> DEFINE trials == (joinTrials + 1) % TrialsModulus
           fine(o) == /\ joinTrials' = trials
                      /\ datarate' = AlternateDr(trials)
                      /\ Sends("join", o.channel, 1)
           refused == datarate' = AlternateDr(joinTrials) /\ UNCHANGED <<joinTrials, exchVars>>
<1>2. PICK o \in NextChannel(ResetToDefaults(nvm), AlternateDr(trials), FALSE) :
         PlanChooses(o) /\ IF o.status = "OK" THEN fine(o) ELSE refused
  BY DEF JoinRequest
<1>3. ChoiceSound(o, AlternateDr(trials), FALSE)
  BY ResetSound, NextChannelSound DEF NodeSound
<1>4. PlanSound(nvm)' /\ nvm' = o.nvm
  BY <1>1, <1>2, <1>3, PlanKept DEF ChoiceSound, PlanChooses
<1>5. \A t : AlternateDr(t) \in MinDr'..region.maxDr
  BY <1>1, RegionDatarates DEF AlternateDr, NodeSound, MinDr
<1>6. region.maxDr \in Nat /\ region.dwell \in 0..1 /\ MinDr' \in Nat /\ region.minTxPower \in Nat
  BY <1>1, RegionDatarates, RegionPlan DEF NodeSound, MinDr
<1>7. CASE o.status = "OK" /\ fine(o)
  <2>1. /\ o.channel \in o.nvm.mask /\ AlternateDr(trials) \in o.nvm.drs[o.channel]
        /\ o.nvm.mask \subseteq ChannelIds(region) /\ o.channel \in DefaultChannels(region)
    BY <1>3, <1>7 DEF ChoiceSound, PlanSound, NvmType
  <2>2. mac' = "windows" /\ kind' = "join" /\ channel' = o.channel /\ tries' = 1
    BY <1>7 DEF Sends
  <2>3. datarate' = AlternateDr(trials) /\ joinTrials' = trials
    BY <1>7
  <2>4. trials \in 0..(TrialsModulus - 1)
    BY InputsAssumption DEF NodeSound
  <2> HIDE DEF trials
  <2>5. Legal
    BY <1>4, <1>5, <1>6, <2>1, <2>2, <2>3 DEF Legal
  <2>6. NodeSound'
    BY <1>1, <1>5, <1>6, <2>1, <2>2, <2>3, <2>4 DEF NodeSound
  <2> QED BY <1>4, <2>5, <2>6
<1>8. CASE refused
  <2>1. datarate' \in MinDr'..region.maxDr
    BY <1>5, <1>8
  <2>2. Legal
    BY <1>8 DEF Legal, Transmits, exchVars
  <2>3. NodeSound'
    BY <1>1, <1>6, <1>8, <2>1 DEF NodeSound, exchVars
  <2> QED BY <1>4, <2>2, <2>3
<1> QED BY <1>2, <1>7, <1>8

(* A join accept with its CFList.                                          *)
LEMMA JoinAcceptStep ==
    ASSUME PlanSound(nvm), NodeSound, NEW list \in CFLists[region.plan], JoinAccept(list)
    PROVE  PlanSound(nvm)' /\ NodeSound' /\ Legal
<1>1. Over /\ UNCHANGED <<region, joinTrials, adrVars, changes>>
  BY DEF JoinAccept
<1>2. PlanSound(CFListApplied(nvm, list))
  BY InputsAssumption, CFListSound DEF NodeSound
<1>3. PlanSound(nvm)'
  BY <1>1, <1>2, PlanKept DEF JoinAccept, PlanBecomes
<1>4. Legal /\ 0 \in ChannelIds(region)
  BY <1>1, RegionChannels DEF Over, Legal, Transmits, NodeSound
<1>5. MinDr' = MinDr
  BY <1>1 DEF MinDr, adrVars
<1> QED BY <1>1, <1>3, <1>4, <1>5 DEF NodeSound, Over, adrVars

(* The windows of a join request end.                                      *)
LEMMA JoinFailsStep ==
    ASSUME PlanSound(nvm), NodeSound, JoinFails
    PROVE  PlanSound(nvm)' /\ NodeSound' /\ Legal
<1>1. Over /\ UNCHANGED <<region, nvm, joinTrials, adrVars>>
  BY DEF JoinFails
<1>3. PlanSound(nvm)'
  BY <1>1, PlanKept
<1>4. Legal /\ 0 \in ChannelIds(region)
  BY <1>1, RegionChannels DEF Over, Legal, Transmits, NodeSound
<1>5. MinDr' = MinDr
  BY <1>1 DEF MinDr, adrVars
<1> QED BY <1>1, <1>3, <1>4, <1>5 DEF NodeSound, Over, adrVars

(* What a MAC command leaves.                                              *)
CommandSound ==
    /\ PlanSound(nvm)'
    /\ uplinkDwellTime' \in 0..1
    /\ datarate' \in MinDr'..region.maxDr
    /\ txPower' \in 0..region.minTxPower
    /\ nbTrans' \in Nat \ {0}

(* A block of LinkAdrReq; a refused one changes nothing.                   *)
LEMMA LinkAdrReqStep ==
    ASSUME PlanSound(nvm), NodeSound, region' = region,
           NEW block \in LinkAdrBlocks[region.plan], LinkAdrReq(block)
    PROVE  CommandSound
<1> DEFINE req == Last(block)
<1>1. uplinkDwellTime' = uplinkDwellTime /\ MinDr' = MinDr
  BY DEF LinkAdrReq, MinDr
<1>2. CASE LinkAdrAccepted(nvm, block)
  <2>1. /\ nvm' = LinkAdrMasked(nvm, block)
        /\ datarate' = LinkAdrDatarate(req) /\ txPower' = LinkAdrTxPower(req)
        /\ nbTrans' = LinkAdrNbRep(req)
    BY <1>2 DEF LinkAdrReq, PlanBecomes
  <2>2. PlanSound(nvm)'
    BY <2>1, LinkAdrMaskedSound, PlanKept DEF NodeSound
  <2>3. LinkAdrDatarate(req) \in MinDr..region.maxDr /\ LinkAdrTxPower(req) <= region.minTxPower
    BY <1>2 DEF LinkAdrAccepted, ChanVerifyDr
  <2>4. req.power \in Nat /\ req.nbRep \in Nat
    BY InputsAssumption DEF NodeSound
  <2>5. LinkAdrTxPower(req) \in 0..region.minTxPower /\ LinkAdrNbRep(req) \in Nat \ {0}
    <3> HIDE DEF req
    <3> QED BY <2>3, <2>4, RegionPlan DEF LinkAdrTxPower, LinkAdrNbRep, NodeSound
  <2> QED BY <1>1, <2>1, <2>2, <2>3, <2>5 DEF CommandSound, NodeSound
<1>3. CASE ~LinkAdrAccepted(nvm, block)
  <2>1. UNCHANGED <<nvm, datarate, txPower, nbTrans>>
    BY <1>3 DEF LinkAdrReq
  <2> QED BY <1>1, <2>1, PlanKept DEF CommandSound, NodeSound
<1> QED BY <1>2, <1>3

(* NewChannelReq adds a channel, removes one or does neither.              *)
LEMMA NewChannelReqStep ==
    ASSUME PlanSound(nvm), NodeSound, region' = region, NEW c, NEW drs, NewChannelReq(c, drs)
    PROVE  CommandSound
<1>1. UNCHANGED <<datarate, txPower, nbTrans, uplinkDwellTime>> /\ MinDr' = MinDr
  BY DEF NewChannelReq, MinDr
<1> DEFINE removes == drs = {} /\ region.plan = "list" /\ c >= region.defaults
<1>2. PlanSound(nvm)'
  <2>1. CASE CanAdd(c, drs)
    <3>1. ~removes
      BY <2>1 DEF CanAdd
    <3>2. nvm' = Added(nvm, c, drs)
      BY <2>1, <3>1 DEF NewChannelReq, PlanBecomes
    <3> QED BY <2>1, <3>2, AddedSound, PlanKept DEF NodeSound
  <2>2. CASE removes
    <3>1. ~CanAdd(c, drs)
      BY <2>2 DEF CanAdd
    <3>2. nvm' = Removed(nvm, {c})
      BY <2>2, <3>1 DEF NewChannelReq, PlanBecomes
    <3>3. {c} \cap DefaultChannels(region) = {}
      BY <2>2, RegionPlan DEF DefaultChannels, NodeSound
    <3> QED BY <2>2, <3>2, <3>3, RemovedSound, PlanKept DEF NodeSound
  <2>3. CASE ~CanAdd(c, drs) /\ ~removes
    <3>1. nvm' = nvm
      BY <2>3 DEF NewChannelReq
    <3> QED BY <3>1, PlanKept
  <2> QED BY <2>1, <2>2, <2>3
<1> QED BY <1>1, <1>2 DEF CommandSound, NodeSound

(* DlChannelReq, of a defined channel.                                     *)
LEMMA DlChannelReqStep ==
    ASSUME PlanSound(nvm), NodeSound, region' = region, NEW c, DlChannelReq(c)
    PROVE  CommandSound
<1>1. UNCHANGED <<datarate, txPower, nbTrans, uplinkDwellTime>> /\ MinDr' = MinDr
  BY DEF DlChannelReq, MinDr
<1> DEFINE n == [nvm EXCEPT !.rx1 = @ \cup {c}]
<1>2. c \in Defined(nvm) => PlanSound(n)
  BY DEF PlanSound, NvmType, Defined
<1>3. nvm' = nvm \/ (c \in Defined(nvm) /\ nvm' = n)
  BY DEF DlChannelReq, PlanBecomes
<1> HIDE DEF n
<1>4. PlanSound(nvm)'
  BY <1>2, <1>3, PlanKept
<1> QED BY <1>1, <1>4 DEF CommandSound, NodeSound

(* TxParamSetupReq raises a data rate the dwell time forbids.              *)
LEMMA TxParamSetupReqStep ==
    ASSUME PlanSound(nvm), NodeSound, region' = region, NEW dwell \in 0..1, TxParamSetupReq(dwell)
    PROVE  CommandSound
<1>1. UNCHANGED <<nvm, txPower, nbTrans>>
  BY DEF TxParamSetupReq
<1>2. MinTxDr(region, dwell) \in 0..region.maxDr /\ MinDr \in 0..region.maxDr
      /\ region.maxDr \in Nat
  BY RegionDatarates DEF MinDr, NodeSound
<1>3. uplinkDwellTime' \in 0..1 /\ datarate' \in MinDr'..region.maxDr
  <2>1. CASE region.txParamSetup
    BY <1>2, <2>1 DEF TxParamSetupReq, Larger, MinDr, NodeSound
  <2>2. CASE ~region.txParamSetup
    BY <2>2 DEF TxParamSetupReq, MinDr, NodeSound
  <2> QED BY <2>1, <2>2
<1> QED BY <1>1, <1>3, PlanKept DEF CommandSound, NodeSound

(* A data frame with at most one command.                                  *)
LEMMA DownlinkStep ==
    ASSUME PlanSound(nvm), NodeSound, Downlink
    PROVE  PlanSound(nvm)' /\ NodeSound' /\ Legal
<1>1. mac = "windows" /\ adrAckCounter' = 0 /\ UNCHANGED <<region, joinTrials, joined, adrOn>>
  BY DEF Downlink
<1>2. CommandSound
  <2>1. CASE NoCommand
    BY <1>1, <2>1, PlanKept DEF NoCommand, CommandSound, NodeSound, MinDr
  <2> QED BY <1>1, <2>1, LinkAdrReqStep, NewChannelReqStep, DlChannelReqStep,
             TxParamSetupReqStep DEF Downlink
<1>3. Over \/ (mac' = "unanswered" /\ UNCHANGED <<kind, tries, channel>>)
  BY DEF Downlink
<1>4. Legal /\ 0 \in ChannelIds(region)
  BY <1>3, RegionChannels DEF Over, Legal, Transmits, NodeSound
<1> QED BY <1>1, <1>2, <1>3, <1>4 DEF CommandSound, NodeSound, Over

(* The application's settings.                                             *)
LEMMA MibSetRequestConfirmStep ==
    ASSUME PlanSound(nvm), NodeSound, MibSetRequestConfirm
    PROVE  PlanSound(nvm)' /\ NodeSound' /\ Legal
<1>1. UNCHANGED <<region, joinTrials, joined, txPower, nbTrans, adrAckCounter, uplinkDwellTime,
                  exchVars>>
  BY DEF MibSetRequestConfirm
<1>2. MinDr' = MinDr
  BY <1>1 DEF MinDr
<1>3. PlanSound(nvm)' /\ datarate' \in MinDr..region.maxDr
  <2>1. ASSUME NEW mask \in AppMasks[region.plan], SetMask(mask)
        PROVE  PlanSound(nvm)' /\ datarate' \in MinDr..region.maxDr
    <3>1. mask \in SUBSET ChannelIds(region)
      BY InputsAssumption DEF NodeSound
    <3> DEFINE n == [nvm EXCEPT !.defaultMask = mask]
    <3>2. PlanSound(n)
      BY <3>1 DEF PlanSound, NvmType, Defined
    <3>3. PlanSound(WithMask(nvm, mask))
      BY <3>1, WithMaskSound DEF NodeSound
    <3>4. (nvm' = n \/ nvm' = WithMask(nvm, mask)) /\ datarate' = datarate
      BY <2>1 DEF SetMask, PlanBecomes
    <3> HIDE DEF n
    <3> QED BY <1>1, <3>2, <3>3, <3>4, PlanKept DEF NodeSound
  <2>2. ASSUME NEW dr \in AppDatarates, SetDatarate(dr)
        PROVE  PlanSound(nvm)' /\ datarate' \in MinDr..region.maxDr
    <3>1. dr \in MinDr..region.maxDr /\ datarate' = dr /\ nvm' = nvm
      BY <2>2 DEF SetDatarate, VerifyTxDr, MinDr
    <3> QED BY <1>1, <3>1, PlanKept
  <2>3. CASE SetAdr
    BY <1>1, <2>3, PlanKept DEF SetAdr, NodeSound
  <2> QED BY <2>1, <2>2, <2>3 DEF MibSetRequestConfirm
<1>4. Legal
  BY <1>1 DEF Legal, Transmits, exchVars
<1> QED BY <1>1, <1>2, <1>3, <1>4 DEF NodeSound, exchVars

(* setSubBand and delChannel.                                              *)
LEMMA NodeSettingsStep ==
    ASSUME PlanSound(nvm), NodeSound, NodeSettings
    PROVE  PlanSound(nvm)' /\ NodeSound' /\ Legal
<1>1. UNCHANGED <<region, joinTrials, joined, adrVars, exchVars>>
  BY DEF NodeSettings
<1>2. MinDr' = MinDr
  BY <1>1 DEF MinDr, adrVars
<1>3. PlanSound(nvm)'
  <2>1. ASSUME region.plan # "list", NEW b \in (0..(region.banks - 1)) \cap (0..7), SetSubBand(b)
        PROVE  PlanSound(nvm)'
    <3> DEFINE band == SubBand(region, b)
               rest == IF region.plan = "hop" THEN band ELSE nvm.remaining
               n == [nvm EXCEPT !.mask = band, !.defaultMask = band, !.remaining = rest]
    <3>1. band \in SUBSET ChannelIds(region)
      BY <2>1, SubBandChannels DEF NodeSound
    <3>2. nvm' = n
      BY <2>1 DEF SetSubBand
    <3> HIDE DEF band
    <3>3. PlanSound(n)
      BY <3>1 DEF PlanSound, NvmType, Defined
    <3> HIDE DEF n
    <3> QED BY <1>1, <3>2, <3>3, PlanKept
  <2>2. ASSUME NEW c, DelChannel(c)
        PROVE  PlanSound(nvm)'
    <3>1. nvm' = Removed(nvm, {c}) /\ region.plan = "list" /\ {c} \cap DefaultChannels(region) = {}
      BY <2>2 DEF DelChannel, PlanBecomes
    <3> QED BY <1>1, <3>1, RemovedSound, PlanKept DEF NodeSound
  <2> QED BY <2>1, <2>2 DEF NodeSettings
<1>4. Legal
  BY <1>1 DEF Legal, Transmits, exchVars
<1> QED BY <1>1, <1>2, <1>3, <1>4 DEF NodeSound, exchVars, adrVars

-----------------------------------------------------------------------------
(* LoRaMacInitialization.                                                  *)
LEMMA PlanInit ==
    ASSUME Init
    PROVE  PlanSound(nvm) /\ NodeSound
<1>1. region \in Regions /\ nvm = Defaults(region)
  BY DEF Init
<1>2. PlanSound(nvm)
  BY <1>1, DefaultsSound
<1>3. /\ region.dwell \in 0..1 /\ region.defaultDr \in MinTxDr(region, region.dwell)..region.maxDr
      /\ region.minTxPower \in Nat
  BY <1>1, RegionDatarates, RegionPlan
<1>4. 0 \in ChannelIds(region)
  BY <1>1, RegionChannels
<1>5. 0 \in 0..(TrialsModulus - 1)
  BY InputsAssumption
<1>6. datarate \in MinDr..region.maxDr /\ uplinkDwellTime \in 0..1
  BY <1>3 DEF Init, MinDr
<1>7. NodeSound
  BY <1>1, <1>3, <1>4, <1>5, <1>6 DEF Init, NodeSound
<1> QED BY <1>2, <1>7

(* Every step keeps the plan and the node sound, and sends legally.        *)
LEMMA PlanNext ==
    ASSUME PlanSound(nvm), NodeSound, [Next]_vars
    PROVE  PlanSound(nvm)' /\ NodeSound' /\ Legal
<1>1. CASE UNCHANGED vars
  <2>1. UNCHANGED <<region, nvm, joinTrials, joined, adrVars, exchVars>>
    BY <1>1 DEF vars
  <2>2. PlanSound(nvm)'
    BY <2>1, PlanKept
  <2>3. Legal
    BY <2>1 DEF Legal, Transmits, exchVars
  <2> QED BY <2>1, <2>2, <2>3 DEF NodeSound, MinDr, adrVars, exchVars
<1> QED BY <1>1, McpsRequestStep, SilenceStep, TxDelayedStep, DownlinkStep, JoinRequestStep,
           JoinAcceptStep, JoinFailsStep, MibSetRequestConfirmStep, NodeSettingsStep DEF Next

(* The inductive invariant of the channel plan.                            *)
LEMMA PlanInvariance == Spec => [](PlanSound(nvm) /\ NodeSound)
  BY PlanInit, PlanNext, PTL DEF Spec

(* In every region the assumptions admit, and under any mixture of         *)
(* commands, joins, settings and back-offs, the plan is consistent: the    *)
(* default channels keep their data rates, only defined channels have a    *)
(* downlink frequency, no round keeps a disabled channel and the data rate *)
(* is one the region and the dwell time allow.                             *)
THEOREM PlanAlwaysConsistent == Spec => []PlanConsistent
<1>1. PlanSound(nvm) /\ NodeSound => PlanConsistent
  BY DEF PlanSound, NvmType, NodeSound, PlanConsistent
<1> QED BY <1>1, PlanInvariance, PTL

(* Every frame, first or repeated, goes out on an enabled channel that has *)
(* its data rate, a join request on a default channel: what                *)
(* SendFrameOnChannel takes from Region<name>NextChannel.                  *)
THEOREM FramesOnLegalChannels == Spec => LegalChannel
<1>1. PlanSound(nvm) /\ NodeSound /\ [Next]_vars =>
         [Transmits => /\ channel' \in nvm'.mask
                       /\ datarate' \in nvm'.drs[channel']
                       /\ datarate' >= MinDr'
                       /\ kind' = "join" => channel' \in DefaultChannels(region)]_vars
  BY PlanNext DEF Legal
<1> QED BY <1>1, PlanInvariance, PTL DEF Spec, LegalChannel

-----------------------------------------------------------------------------
(* The check of the mask and the check of the data rate, each made on its  *)
(* own, leave a channel in all three kinds of plan: a list plan that       *)
(* enables all defined channels has its default ones, a hop plan that has  *)
(* used up its 125 kHz channels starts a round.                            *)
LEMMA BlockUsable ==
    ASSUME PlanSound(nvm), NodeSound, NEW block \in LinkAdrBlocks[region.plan],
           LinkAdrAccepted(nvm, block)
    PROVE  Usable(LinkAdrMasked(nvm, block), LinkAdrDatarate(Last(block)))
<1> DEFINE req == Last(block)
           mask == BlockMask(nvm, block)
           dr == LinkAdrDatarate(req)
           n == LinkAdrMasked(nvm, block)
           m == Replenished(n, dr)
<1>1. ChannelMaskOK(nvm, mask, req) /\ ChanVerifyDr(nvm, mask, dr)
  BY DEF LinkAdrAccepted
<1>2. /\ PlanSound(n) /\ n.mask = mask /\ n.drs = nvm.drs
      /\ n.remaining = (nvm.remaining \cap mask \cap Narrow(region)) \cup (mask \cap Wide(region))
  BY LinkAdrMaskedSound DEF NodeSound
<1>3. PlanSound(m) /\ m.drs = nvm.drs
  BY <1>2, ReplenishedSound DEF NodeSound
<1>4. mask \subseteq ChannelIds(region)
  BY DEF BlockMask
<1>5. PICK c \in mask : Supports(nvm, c, dr) \/ (nvm.drs[c] = {} /\ dr = 0)
  BY <1>1 DEF ChanVerifyDr
<1>6. CASE region.plan # "hop"
  <2>1. m.mask = mask
    BY <1>2, <1>5, <1>6 DEF Replenished
  <2>2. PICK d \in mask : dr \in nvm.drs[d]
    <3>1. CASE region.plan = "mask"
      <4>1. nvm.drs[c] # {}
        BY <1>4, <1>5, <3>1, RegionChannels, DefaultDatarates DEF PlanSound, NodeSound
      <4> QED BY <1>5, <4>1 DEF Supports
    <3>2. CASE region.plan = "list" /\ req.ctrl # 6
      <4>1. nvm.drs[c] # {}
        <5>1. mask \subseteq Defined(nvm)
          BY <1>1, <3>2 DEF ChannelMaskOK
        <5> QED BY <1>5, <5>1 DEF Defined
      <4> QED BY <1>5, <4>1 DEF Supports
    <3>3. CASE region.plan = "list" /\ req.ctrl = 6
      <4>1. Defined(nvm) \subseteq mask
        BY <3>3 DEF BlockMask, ListMaskAfter, Defined
      <4>2. 0 \in DefaultChannels(region) /\ 0 \in ChannelIds(region) /\ 0 \notin Wide(region)
        BY <3>3, RegionChannels DEF NodeSound
      <4>3. nvm.drs[0] = region.channelDrs
        BY <4>2, DefaultDatarates DEF PlanSound, NodeSound
      <4>4. 0 \in nvm.drs[0]
        BY <4>3, RegionPlan DEF NodeSound
      <4>5. 0 \in mask
        BY <4>1, <4>2, <4>4 DEF Defined
      <4> QED BY <1>5, <4>4, <4>5 DEF Supports
    <3> QED BY <1>6, <3>1, <3>2, <3>3, RegionPlan DEF NodeSound
  <2>3. d \in Candidates(m, dr, TRUE)
    BY <1>3, <1>6, <2>1, <2>2 DEF Candidates, Supports
  <2> QED BY <2>3 DEF Usable
<1>7. CASE region.plan = "hop"
  <2> DEFINE narrow == n.remaining \cap Narrow(region)
             wide == n.remaining \cap Wide(region)
  <2>1. m.remaining = (IF narrow = {} THEN mask \cap Narrow(region) ELSE narrow)
                      \cup (IF wide = {} /\ dr >= region.wideDr
                            THEN mask \cap Wide(region) ELSE wide)
    BY <1>2, <1>7 DEF Replenished, PlanSound, NvmType
  <2>2. /\ ChannelIds(region) = Narrow(region) \cup Wide(region)
        /\ Narrow(region) \cap Wide(region) = {}
        /\ DefaultChannels(region) = ChannelIds(region)
    BY <1>7, RegionChannels DEF NodeSound
  <2>3. /\ \A d \in Narrow(region) : nvm.drs[d] = region.channelDrs
        /\ \A d \in Wide(region) : nvm.drs[d] = {region.wideDr}
    BY <2>2, DefaultDatarates DEF PlanSound, NodeSound
  <2>4. 0 \in region.channelDrs
    BY RegionPlan DEF NodeSound
  <2>5. dr \in nvm.drs[c]
    BY <1>4, <1>5, <2>2, <2>3, <2>4 DEF Supports
  <2>6. PICK d \in m.remaining : dr \in nvm.drs[d]
    <3>1. CASE c \in Wide(region)
      <4>1. c \in wide
        BY <1>2, <1>5, <3>1
      <4> HIDE DEF narrow, wide
      <4>2. c \in m.remaining
        BY <2>1, <4>1
      <4> QED BY <2>5, <4>2
    <3>2. CASE c \in Narrow(region)
      <4>1. dr \in region.channelDrs
        BY <2>3, <2>5, <3>2
      <4>2. PICK d \in Narrow(region) : d \in m.remaining
        <5>1. CASE narrow = {}
          BY <1>5, <2>1, <3>2, <5>1
        <5>2. CASE narrow # {}
          BY <2>1, <5>2
        <5> QED BY <5>1, <5>2
      <4> QED BY <2>3, <4>1, <4>2
    <3> QED BY <1>4, <1>5, <2>2, <3>1, <3>2
  <2>7. d \in Candidates(m, dr, TRUE)
    BY <1>3, <1>7, <2>6 DEF Candidates, Supports
  <2> QED BY <2>7 DEF Usable
<1> QED BY <1>6, <1>7

(* After a block of LinkAdrReq that Region<name>LinkAdrReq accepts, the    *)
(* next frame finds a channel for the data rate it leaves.                 *)
THEOREM AcceptedBlocksUsable == Spec => []LinkAdrUsable
<1>1. PlanSound(nvm) /\ NodeSound => LinkAdrUsable
  BY BlockUsable DEF LinkAdrUsable
<1> QED BY <1>1, PlanInvariance, PTL

-----------------------------------------------------------------------------
(* How often the enabled channels E were chosen while R remain of the      *)
(* round: those that remain lag one behind or, in the first round after a  *)
(* change, in which an earlier round is used up, the channels chosen since *)
(* lead by one.  Some channel is always at 0, or the rounds would have     *)
(* been forgotten.                                                         *)
Level(E, R, p) ==
    /\ \/ \A c \in E : p[c] \in IF c \in R THEN {0} ELSE {0, 1}
       \/ \A c \in E : p[c] \in IF c \in R THEN {0, 1} ELSE {1, 2}
    /\ E = {} \/ \E c \in E : p[c] = 0

(* A round that is used up starts again.                                   *)
LEMMA RoundStarts ==
    ASSUME NEW E, NEW R, NEW p, Level(E, R, p), NEW S,
           S \cap E = R \cap E \/ (R \cap E = {} /\ E \subseteq S)
    PROVE  Level(E, S, p)
<1>1. CASE S \cap E = R \cap E
  BY <1>1 DEF Level
<1>2. CASE R \cap E = {} /\ E \subseteq S
  BY <1>2 DEF Level
<1> QED BY <1>1, <1>2

(* A choice from what remains, and the round that is complete with it.     *)
LEMMA RoundGoesOn ==
    ASSUME NEW E, NEW R, NEW p, Level(E, R, p), NEW cs, cs \cap E \subseteq R,
           \A c, d \in cs : c = d,
           NEW counted, \A c \in E : counted[c] = p[c] + (IF c \in cs THEN 1 ELSE 0),
           NEW q, \A c \in E : q[c] = counted[c] - (IF \A d \in E : counted[d] > 0 THEN 1 ELSE 0)
    PROVE  Level(E, R \ cs, q)
<1>1. CASE E = {}
  BY <1>1 DEF Level
<1>2. CASE E # {}
  <2>1. PICK z \in E : p[z] = 0
    BY <1>2 DEF Level
  <2>2. CASE \A d \in E : counted[d] > 0
    <3>1. \A c \in E : q[c] = counted[c] - 1
      BY <2>2
    <3>2. z \in cs /\ counted[z] = 1 /\ q[z] = 0
      BY <2>1, <2>2, <3>1
    <3>3. \A c \in E : c # z => counted[c] = p[c] /\ p[c] > 0
      <4>1. ASSUME NEW c \in E, c # z, p[c] \in Int
            PROVE  counted[c] = p[c] /\ p[c] > 0
        BY <2>2, <3>2, <4>1
      <4> QED BY <4>1 DEF Level
    <3>4. \A c \in E : q[c] \in IF c \in R \ cs THEN {0} ELSE {0, 1}
      BY <3>1, <3>2, <3>3 DEF Level
    <3> QED BY <3>2, <3>4 DEF Level
  <2>3. CASE ~(\A d \in E : counted[d] > 0)
    <3>1. \A c \in E : p[c] \in {0, 1, 2}
      BY DEF Level
    <3>2. \A c \in E : q[c] = counted[c] /\ counted[c] \in Nat
      BY <2>3, <3>1
    <3>3. \E c \in E : q[c] = 0
      BY <2>3, <3>2
    <3>4. CASE \A c \in E : p[c] \in IF c \in R THEN {0} ELSE {0, 1}
      <4>1. \A c \in E : q[c] \in IF c \in R \ cs THEN {0} ELSE {0, 1}
        BY <3>2, <3>4
      <4> QED BY <3>3, <4>1 DEF Level
    <3>5. CASE \A c \in E : p[c] \in IF c \in R THEN {0, 1} ELSE {1, 2}
      <4>1. \A c \in E : q[c] \in IF c \in R \ cs THEN {0, 1} ELSE {1, 2}
        BY <3>2, <3>5
      <4> QED BY <3>3, <4>1 DEF Level
    <3> QED BY <3>4, <3>5 DEF Level
  <2> QED BY <2>2, <2>3
<1> QED BY <1>1, <1>2

(* The inductive invariant of the observer picks.                          *)
HopsSound ==
    /\ picks \in [Hops -> Nat]
    /\ Level(nvm.mask \cap Hops, nvm.remaining, picks)

(* What the observer makes of a step that leaves the plan n, R of the      *)
(* round before the choice cs; a changed mask starts it anew.              *)
LEMMA PickedLevel ==
    ASSUME picks \in [Hops -> Nat], NEW n, NEW R, NEW cs, \A c, d \in cs : c = d,
           cs \cap n.mask \cap Hops \subseteq R,
           n.mask \cap Hops = nvm.mask \cap Hops => Level(n.mask \cap Hops, R, picks)
    PROVE  Picked(n, cs) \in [Hops -> Nat] /\ Level(n.mask \cap Hops, R \ cs, Picked(n, cs))
<1> DEFINE E == n.mask \cap Hops
           base == [c \in Hops |-> IF E = nvm.mask \cap Hops THEN picks[c] ELSE 0]
           counted == [c \in Hops |-> (IF E = nvm.mask \cap Hops THEN picks[c] ELSE 0)
                                      + (IF c \in cs THEN 1 ELSE 0)]
           round == IF \A c \in E : counted[c] > 0 THEN 1 ELSE 0
           q == [c \in Hops |-> IF c \in E THEN counted[c] - round ELSE 0]
<1>1. Picked(n, cs) = q
  BY DEF Picked
<1>2. E \subseteq Hops
  OBVIOUS
<1>3. \A c \in Hops : counted[c] \in Nat /\ counted[c] = base[c] + (IF c \in cs THEN 1 ELSE 0)
  OBVIOUS
<1>4. Level(E, R, base)
  <2>1. CASE E = nvm.mask \cap Hops
    <3>1. base = picks
      BY <2>1
    <3> QED BY <2>1, <3>1
  <2>2. CASE E # nvm.mask \cap Hops
    <3>1. \A c \in E : base[c] = 0
      BY <2>2
    <3> HIDE DEF base, E
    <3> QED BY <3>1 DEF Level
  <2> QED BY <2>1, <2>2
<1> HIDE DEF counted, base
<1>5. \A c \in E : q[c] = counted[c] - (IF \A d \in E : counted[d] > 0 THEN 1 ELSE 0)
  OBVIOUS
<1>6. q \in [Hops -> Nat]
  <2>1. ASSUME NEW c \in Hops
        PROVE  (IF c \in E THEN counted[c] - round ELSE 0) \in Nat
    BY <1>3
  <2> QED BY <2>1
<1> HIDE DEF q, E
<1>7. Level(E, R \ cs, q)
  <2>1. cs \cap E \subseteq R
    BY DEF E
  <2>2. \A c \in E : counted[c] = base[c] + (IF c \in cs THEN 1 ELSE 0)
    BY <1>2, <1>3
  <2> QED BY <1>4, <1>5, <2>1, <2>2, RoundGoesOn
<1> QED BY <1>1, <1>6, <1>7 DEF E

(* A choice in a hop plan takes a channel from the round.                  *)
LEMMA ChosenTakes ==
    ASSUME region \in Regions, region.plan = "hop", NEW n, PlanSound(n), NEW dr,
           NEW isJoined \in BOOLEAN, NEW o \in Chosen(n, dr, isJoined)
    PROVE  /\ o.nvm.mask = n.mask /\ o.status = "OK"
           /\ o.nvm.remaining = n.remaining \ {o.channel} /\ o.channel \in n.remaining
<1> DEFINE candidates == Candidates(n, dr, isJoined)
           without(c) == [n EXCEPT !.remaining = @ \ {c}]
<1>1. candidates \subseteq n.remaining
  BY DEF Candidates
<1>2. \A c : without(c).mask = n.mask /\ without(c).remaining = n.remaining \ {c}
  BY DEF PlanSound, NvmType
<1>3. \A c, g : /\ [without(c) EXCEPT !.group = g].mask = n.mask
                /\ [without(c) EXCEPT !.group = g].remaining = n.remaining \ {c}
  BY DEF PlanSound, NvmType
<1>4. CASE isJoined \/ dr # region.joinDr
  <2>1. PICK c \in candidates : o = Outcome("OK", without(c), c)
    BY <1>4 DEF Chosen
  <2> HIDE DEF without
  <2> QED BY <1>1, <1>2, <2>1 DEF Outcome
<1>5. CASE ~isJoined /\ dr = region.joinDr
  <2>1. PICK x \in {y \in [bank : JoinGroup(n), channel : candidates] :
                       y.channel \in Bank(region, y.bank)} :
           o = Outcome("OK", [without(x.channel) EXCEPT !.group = (x.bank + 1) % region.banks],
                       x.channel)
    BY <1>5 DEF Chosen
  <2>2. x.channel \in candidates
    OBVIOUS
  <2> HIDE DEF without
  <2> QED BY <1>1, <1>3, <2>1, <2>2 DEF Outcome
<1> QED BY <1>4, <1>5

(* What a step that hands the plan over as n keeps of the round.           *)
KeepsRound(n) ==
    /\ PlanSound(n)
    /\ n.mask \cap Hops = nvm.mask \cap Hops => n.remaining \cap Hops = nvm.remaining \cap Hops

(* A step that changes the plan and chooses nothing.                       *)
LEMMA BecomesKeepsHops ==
    ASSUME PlanSound(nvm), HopsSound, region' = region, NEW n, KeepsRound(n), PlanBecomes(n)
    PROVE  HopsSound'
<1>1. nvm' = n /\ picks' = Picked(n, {}) /\ Hops' = Hops
  BY DEF PlanBecomes, Hops
<1>2. n.mask \cap Hops = nvm.mask \cap Hops => Level(n.mask \cap Hops, n.remaining, picks)
  <2>1. ASSUME n.mask \cap Hops = nvm.mask \cap Hops
        PROVE  Level(n.mask \cap Hops, n.remaining, picks)
    <3> DEFINE E == nvm.mask \cap Hops
    <3>1. n.remaining \cap E = nvm.remaining \cap E
      BY <2>1 DEF KeepsRound
    <3>2. Level(E, nvm.remaining, picks)
      BY DEF HopsSound
    <3> HIDE DEF E
    <3>3. Level(E, n.remaining, picks)
      BY <3>1, <3>2, RoundStarts
    <3> QED BY <2>1, <3>3 DEF E
  <2> QED BY <2>1
<1>3. /\ Picked(n, {}) \in [Hops -> Nat]
      /\ Level(n.mask \cap Hops, n.remaining \ {}, Picked(n, {}))
  <2> DEFINE cs == {}
  <2>1. (\A c, d \in cs : c = d) /\ cs \cap n.mask \cap Hops \subseteq n.remaining
    OBVIOUS
  <2> HIDE DEF cs
  <2>2. Picked(n, cs) \in [Hops -> Nat] /\ Level(n.mask \cap Hops, n.remaining \ cs, Picked(n, cs))
    BY <1>2, <2>1, PickedLevel DEF HopsSound
  <2> QED BY <2>2 DEF cs
<1>4. n.remaining \ {} = n.remaining
  OBVIOUS
<1> QED BY <1>1, <1>3, <1>4 DEF HopsSound

(* A step that chooses a channel, or fails to, from a plan n0.             *)
LEMMA ChoosesKeepsHops ==
    ASSUME region \in Regions, PlanSound(nvm), HopsSound, region' = region,
           NEW n0, KeepsRound(n0), NEW dr, NEW isJoined \in BOOLEAN,
           NEW o \in NextChannel(n0, dr, isJoined), PlanChooses(o)
    PROVE  HopsSound'
<1> DEFINE n == Replenished(n0, dr)
           E == o.nvm.mask \cap Hops
           cs == IF o.status = "OK" THEN {o.channel} ELSE {}
<1>1. nvm' = o.nvm /\ picks' = Picked(o.nvm, cs) /\ Hops' = Hops
  BY DEF PlanChooses, Hops
<1>2. CASE region.plan # "hop"
  <2>1. Hops = {}
    BY <1>2 DEF Hops
  <2>2. E = nvm.mask \cap Hops => Level(E, nvm.remaining, picks)
    BY DEF HopsSound
  <2>3. (\A c, d \in cs : c = d) /\ cs \cap o.nvm.mask \cap Hops \subseteq nvm.remaining
    BY <2>1
  <2> HIDE DEF cs
  <2>4. Picked(o.nvm, cs) \in [Hops -> Nat]
    BY <2>2, <2>3, PickedLevel DEF HopsSound
  <2>5. Level({}, nvm'.remaining, picks')
    BY DEF Level
  <2> QED BY <1>1, <2>1, <2>4, <2>5 DEF HopsSound
<1>3. CASE region.plan = "hop"
  <2>1. Hops = Narrow(region) /\ n.mask = n0.mask /\ n.mask \subseteq ChannelIds(region)
    BY <1>3 DEF Hops, Replenished, KeepsRound, PlanSound, NvmType
  <2>2. n.remaining \cap Hops = IF n0.remaining \cap Hops = {} THEN n0.mask \cap Hops
                                ELSE n0.remaining \cap Hops
    <3> DEFINE narrow == n0.remaining \cap Narrow(region)
               wide == n0.remaining \cap Wide(region)
    <3>1. n.remaining = (IF narrow = {} THEN n0.mask \cap Narrow(region) ELSE narrow)
                        \cup (IF wide = {} /\ dr >= region.wideDr
                              THEN n0.mask \cap Wide(region) ELSE wide)
      BY <1>3 DEF Replenished, KeepsRound, PlanSound, NvmType
    <3>2. Narrow(region) \cap Wide(region) = {}
      BY RegionChannels
    <3> QED BY <2>1, <3>1, <3>2
  <2> HIDE DEF n
  <2>3. /\ o.nvm.mask = n.mask
        /\ \/ o.nvm.remaining = n.remaining /\ o.status # "OK"
           \/ o.nvm.remaining = n.remaining \ {o.channel} /\ o.status = "OK"
              /\ o.channel \in n.remaining
    <3>1. PlanSound(n)
      BY ReplenishedSound DEF KeepsRound, n
    <3>2. CASE o \in Chosen(n, dr, isJoined)
      BY <1>3, <3>1, <3>2, ChosenTakes
    <3>3. CASE o \in {Outcome("RESTRICTED", n, 0), Outcome("NO_FREE_CHANNEL", n, 0),
                      Outcome("NO_CHANNEL", NotFound(n), 0)}
      BY <1>3, <3>3 DEF Outcome, NotFound
    <3> QED BY <3>2, <3>3 DEF NextChannel, n
  <2>4. E = nvm.mask \cap Hops => Level(E, n.remaining, picks)
    <3>1. ASSUME E = nvm.mask \cap Hops
          PROVE  Level(E, n.remaining, picks)
      <4>1. Level(E, nvm.remaining, picks)
        BY <3>1 DEF HopsSound
      <4>2. n0.mask \cap Hops = E /\ n0.remaining \cap Hops = nvm.remaining \cap Hops
        BY <2>1, <2>3, <3>1 DEF KeepsRound
      <4>3. \/ n.remaining \cap E = nvm.remaining \cap E
            \/ nvm.remaining \cap E = {} /\ E \subseteq n.remaining
        BY <2>2, <4>2
      <4> QED
        <5> HIDE DEF E
        <5> QED BY <4>1, <4>3, RoundStarts
    <3> QED BY <3>1
  <2>5. (\A c, d \in cs : c = d) /\ cs \cap o.nvm.mask \cap Hops \subseteq n.remaining
        /\ o.nvm.remaining = n.remaining \ cs
    BY <2>3
  <2>6. Picked(o.nvm, cs) \in [Hops -> Nat] /\ Level(E, n.remaining \ cs, Picked(o.nvm, cs))
    <3> HIDE DEF cs
    <3> QED BY <2>4, <2>5, PickedLevel DEF HopsSound
  <2> HIDE DEF cs
  <2> QED BY <1>1, <2>5, <2>6 DEF HopsSound
<1> QED BY <1>2, <1>3

(* Masks put in place keep the round of the channels they keep.            *)
LEMMA SamePlanKeepsRound ==
    ASSUME region \in Regions, PlanSound(nvm)
    PROVE  /\ KeepsRound(nvm) /\ KeepsRound(Activated(nvm)) /\ KeepsRound(ResetToDefaults(nvm))
           /\ \A mask \in SUBSET ChannelIds(region) : KeepsRound(WithMask(nvm, mask))
<1>1. \A mask : WithMask(nvm, mask).mask = mask
                /\ WithMask(nvm, mask).remaining = nvm.remaining \cap mask
  BY DEF WithMask, PlanSound, NvmType
<1>2. \A mask \in SUBSET ChannelIds(region) : KeepsRound(WithMask(nvm, mask))
  BY <1>1, WithMaskSound DEF KeepsRound, PlanSound
<1>3. KeepsRound(nvm)
  BY DEF KeepsRound
<1>4. nvm.defaultMask \in SUBSET ChannelIds(region)
  BY DEF PlanSound, NvmType
<1>5. KeepsRound(Activated(nvm))
  <2>1. CASE region.plan = "list"
    BY <2>1, ActivatedSound DEF KeepsRound, Hops
  <2>2. CASE region.plan # "list"
    BY <2>2, <1>2, <1>4 DEF Activated
  <2> QED BY <2>1, <2>2
<1>6. KeepsRound(ResetToDefaults(nvm))
  <2> DEFINE m == WithMask(nvm, nvm.defaultMask)
             n == ResetToDefaults(nvm)
  <2>1. KeepsRound(m)
    BY <1>2, <1>4
  <2> HIDE DEF m
  <2>2. n = [m EXCEPT !.rx1 = @ \ DefaultChannels(region)]
    BY DEF ResetToDefaults, m
  <2>3. n.mask = m.mask /\ n.remaining = m.remaining
    BY <2>1, <2>2 DEF KeepsRound, PlanSound, NvmType
  <2> HIDE DEF n
  <2>4. PlanSound(n)
    BY ResetSound DEF n
  <2>5. KeepsRound(n)
    BY <2>1, <2>3, <2>4 DEF KeepsRound
  <2> QED BY <2>5 DEF n
<1> QED BY <1>2, <1>3, <1>5, <1>6

(* A plan without hops has no rounds.                                      *)
LEMMA ListKeepsRound ==
    ASSUME region.plan # "hop", NEW n, PlanSound(n)
    PROVE  KeepsRound(n)
  BY DEF KeepsRound, Hops

(* A step that leaves the plan alone.                                      *)
LEMMA HopsUnchanged ==
    ASSUME HopsSound, UNCHANGED <<region, nvm, picks>>
    PROVE  HopsSound'
<1>1. Hops' = Hops
  BY DEF Hops
<1> QED BY <1>1 DEF HopsSound

(* A repetition chooses from the present plan.                             *)
LEMMA RepeatKeepsHops ==
    ASSUME PlanSound(nvm), NodeSound, HopsSound, region' = region, NEW dr, Repeat(dr)
    PROVE  HopsSound'
<1>1. PICK o \in NextChannel(nvm, dr, TRUE) : PlanChooses(o)
  BY DEF Repeat
<1> QED BY <1>1, SamePlanKeepsRound, ChoosesKeepsHops DEF NodeSound

(* So does a first frame, which may activate the default channels.         *)
LEMMA SendKeepsHops ==
    ASSUME PlanSound(nvm), NodeSound, HopsSound, region' = region, NEW k, NEW dr, Send(k, dr)
    PROVE  HopsSound'
<1> DEFINE from(next) == IF ActivatesDefaults(dr, next) THEN Activated(nvm) ELSE nvm
<1>1. PICK next \in NextDr(dr) : \E o \in NextChannel(from(next), next, TRUE) : PlanChooses(o)
  BY DEF Send
<1>2. PICK o \in NextChannel(from(next), next, TRUE) : PlanChooses(o)
  BY <1>1
<1>3. KeepsRound(from(next))
  BY SamePlanKeepsRound DEF NodeSound
<1> HIDE DEF from
<1> QED BY <1>2, <1>3, ChoosesKeepsHops DEF NodeSound

(* No channel has been chosen yet.                                         *)
LEMMA HopsInit ==
    ASSUME Init
    PROVE  HopsSound
<1>1. picks = [c \in Hops |-> 0]
  BY DEF Init, Hops
<1>2. \A c \in Hops : picks[c] = 0
  BY <1>1
<1> DEFINE E == nvm.mask \cap Hops
<1>3. \A c \in E : picks[c] = 0
  BY <1>2
<1> HIDE DEF E
<1>4. Level(E, nvm.remaining, picks)
  BY <1>3 DEF Level
<1> QED BY <1>1, <1>4 DEF HopsSound, E

(* Every step keeps the channels level.                                    *)
LEMMA HopsNext ==
    ASSUME PlanSound(nvm), NodeSound, HopsSound, [Next]_vars
    PROVE  HopsSound'
<1>0. region \in Regions
  BY DEF NodeSound
<1>1. ASSUME NEW k \in {"unconfirmed", "confirmed"}, McpsRequest(k)
      PROVE  HopsSound'
  <2>1. PICK dr : Send(k, dr)
    BY <1>1 DEF McpsRequest
  <2> QED BY <1>1, <2>1, SendKeepsHops DEF McpsRequest
<1>2. CASE Silence
  <2>1. CASE RepeatUnconfirmed \/ RetryConfirmed
    <3>1. PICK dr : Repeat(dr)
      BY <2>1 DEF RepeatUnconfirmed, RetryConfirmed
    <3> QED BY <1>2, <3>1, RepeatKeepsHops DEF Silence
  <2>2. CASE GiveUp
    <3>1. PICK n : KeepsRound(n) /\ PlanBecomes(n)
      BY <1>0, <2>2, SamePlanKeepsRound DEF GiveUp
    <3> QED BY <1>2, <3>1, BecomesKeepsHops DEF Silence
  <2> QED BY <1>2, <2>1, <2>2 DEF Silence
<1>3. CASE OnTxDelayedTimerEvent
  BY <1>3, RepeatKeepsHops DEF OnTxDelayedTimerEvent
<1>4. CASE Downlink
  <2>0. region' = region
    BY <1>4 DEF Downlink
  <2>1. ASSUME NEW block \in LinkAdrBlocks[region.plan], LinkAdrReq(block)
        PROVE  HopsSound'
    <3> DEFINE n == LinkAdrMasked(nvm, block)
               mask == BlockMask(nvm, block)
    <3>1. /\ n.mask = mask /\ PlanSound(n)
          /\ n.remaining = (nvm.remaining \cap mask \cap Narrow(region))
                           \cup (mask \cap Wide(region))
      BY <1>0, LinkAdrMaskedSound
    <3> HIDE DEF n, mask
    <3>2. Narrow(region) \cap Wide(region) = {} /\ nvm.remaining \subseteq nvm.mask
      BY <1>0, RegionChannels DEF PlanSound
    <3>3. KeepsRound(n)
      BY <3>1, <3>2 DEF KeepsRound, Hops
    <3>4. PlanBecomes(n) \/ UNCHANGED <<nvm, picks>>
      BY <2>1 DEF LinkAdrReq, n
    <3> QED BY <2>0, <3>3, <3>4, BecomesKeepsHops, HopsUnchanged
  <2>2. ASSUME NEW c, NEW drs, NewChannelReq(c, drs)
        PROVE  HopsSound'
    <3> DEFINE removes == drs = {} /\ region.plan = "list" /\ c >= region.defaults
    <3>1. CASE CanAdd(c, drs)
      <4>1. PlanBecomes(Added(nvm, c, drs)) /\ region.plan # "hop"
        BY <2>2, <3>1 DEF NewChannelReq, CanAdd
      <4> QED BY <1>0, <2>0, <3>1, <4>1, AddedSound, ListKeepsRound, BecomesKeepsHops
    <3>2. CASE removes
      <4>1. ~CanAdd(c, drs)
        BY <3>2 DEF CanAdd
      <4>2. PlanBecomes(Removed(nvm, {c}))
        BY <2>2, <3>2, <4>1 DEF NewChannelReq
      <4>3. {c} \cap DefaultChannels(region) = {}
        BY <1>0, <3>2, RegionPlan DEF DefaultChannels
      <4> QED BY <1>0, <2>0, <3>2, <4>2, <4>3, RemovedSound, ListKeepsRound, BecomesKeepsHops
    <3>3. CASE ~CanAdd(c, drs) /\ ~removes
      BY <2>0, <2>2, <3>3, HopsUnchanged DEF NewChannelReq
    <3> QED BY <3>1, <3>2, <3>3
  <2>3. ASSUME NEW c, DlChannelReq(c)
        PROVE  HopsSound'
    <3> DEFINE n == [nvm EXCEPT !.rx1 = @ \cup {c}]
    <3>1. c \in Defined(nvm) => PlanSound(n)
      BY DEF PlanSound, NvmType, Defined
    <3>2. \/ UNCHANGED <<nvm, picks>>
          \/ region.plan # "hop" /\ c \in Defined(nvm) /\ PlanBecomes(n)
      BY <2>3 DEF DlChannelReq
    <3> HIDE DEF n
    <3> QED BY <2>0, <3>1, <3>2, ListKeepsRound, BecomesKeepsHops, HopsUnchanged
  <2>4. ASSUME NEW dwell, TxParamSetupReq(dwell)
        PROVE  HopsSound'
    BY <2>0, <2>4, HopsUnchanged DEF TxParamSetupReq
  <2>5. CASE NoCommand
    BY <2>0, <2>5, HopsUnchanged DEF NoCommand
  <2> QED BY <1>4, <2>1, <2>2, <2>3, <2>4, <2>5 DEF Downlink
<1>5. CASE JoinRequest
  <2>1. PICK dr : \E o \in NextChannel(ResetToDefaults(nvm), dr, FALSE) : PlanChooses(o)
    BY <1>5 DEF JoinRequest
  <2>2. KeepsRound(ResetToDefaults(nvm)) /\ region' = region
    BY <1>0, <1>5, SamePlanKeepsRound DEF JoinRequest
  <2> QED BY <1>0, <2>1, <2>2, ChoosesKeepsHops
<1>6. ASSUME NEW list \in CFLists[region.plan], JoinAccept(list)
      PROVE  HopsSound'
  <2>0. region' = region /\ PlanBecomes(CFListApplied(nvm, list))
    BY <1>6 DEF JoinAccept
  <2>1. region.plan # "list" => list \in SUBSET ChannelIds(region)
    BY <1>0, InputsAssumption
  <2>2. KeepsRound(CFListApplied(nvm, list))
    <3>1. CASE region.plan = "list"
      BY <1>0, <3>1, CFListSound, ListKeepsRound
    <3>2. CASE region.plan # "list"
      BY <1>0, <2>1, <3>2, SamePlanKeepsRound DEF CFListApplied
    <3> QED BY <3>1, <3>2
  <2> QED BY <2>0, <2>2, BecomesKeepsHops
<1>7. CASE JoinFails
  BY <1>7, HopsUnchanged DEF JoinFails
<1>8. CASE MibSetRequestConfirm
  <2>0. region' = region
    BY <1>8 DEF MibSetRequestConfirm
  <2>1. ASSUME NEW mask \in AppMasks[region.plan], SetMask(mask)
        PROVE  HopsSound'
    <3>1. mask \in SUBSET ChannelIds(region)
      BY <1>0, InputsAssumption
    <3> DEFINE n == [nvm EXCEPT !.defaultMask = mask]
    <3>2. PlanSound(n) /\ n.remaining = nvm.remaining
      BY <3>1 DEF PlanSound, NvmType, Defined
    <3>3. PlanBecomes(WithMask(nvm, mask)) \/ PlanBecomes(n)
      BY <2>1 DEF SetMask
    <3> HIDE DEF n
    <3>4. KeepsRound(n) /\ KeepsRound(WithMask(nvm, mask))
      BY <1>0, <3>1, <3>2, SamePlanKeepsRound DEF KeepsRound
    <3> QED BY <2>0, <3>3, <3>4, BecomesKeepsHops
  <2>2. ASSUME NEW dr, SetDatarate(dr)
        PROVE  HopsSound'
    BY <2>0, <2>2, HopsUnchanged DEF SetDatarate
  <2>3. CASE SetAdr
    BY <2>0, <2>3, HopsUnchanged DEF SetAdr
  <2> QED BY <1>8, <2>1, <2>2, <2>3 DEF MibSetRequestConfirm
<1>9. CASE NodeSettings
  <2>0. region' = region /\ Hops' = Hops
    BY <1>9 DEF NodeSettings, Hops
  <2>1. ASSUME NEW b, SetSubBand(b)
        PROVE  HopsSound'
    <3>1. picks' = [c \in Hops |-> 0]
      BY <2>1 DEF SetSubBand
    <3> DEFINE E == nvm'.mask \cap Hops
    <3>2. \A c \in E : picks'[c] = 0
      BY <3>1
    <3> HIDE DEF E
    <3>3. Level(E, nvm'.remaining, picks')
      BY <3>2 DEF Level
    <3> QED BY <2>0, <3>1, <3>3 DEF HopsSound, E
  <2>2. ASSUME NEW c, DelChannel(c)
        PROVE  HopsSound'
    <3>1. PlanBecomes(Removed(nvm, {c})) /\ region.plan = "list"
          /\ {c} \cap DefaultChannels(region) = {}
      BY <2>2 DEF DelChannel
    <3> QED BY <1>0, <2>0, <3>1, RemovedSound, ListKeepsRound, BecomesKeepsHops
  <2> QED BY <1>9, <2>1, <2>2 DEF NodeSettings
<1>10. CASE UNCHANGED vars
  BY <1>10, HopsUnchanged DEF vars
<1> QED BY <1>1, <1>2, <1>3, <1>4, <1>5, <1>6, <1>7, <1>8, <1>9, <1>10 DEF Next

(* However many banks a hop plan has, as long as the enabled channels stay *)
(* the same none is chosen three times more than another                   *)
(* (RegionUS915NextChannel, RegionAU915NextChannel).                       *)
THEOREM HopsAlwaysEven == Spec => []HopsEvenly
<1>1. HopsSound => HopsEvenly
  BY DEF HopsSound, HopsEvenly, Level
<1>2. Init => PlanSound(nvm) /\ NodeSound /\ HopsSound
  BY PlanInit, HopsInit
<1>3. PlanSound(nvm) /\ NodeSound /\ HopsSound /\ [Next]_vars
      => (PlanSound(nvm) /\ NodeSound /\ HopsSound)'
  BY PlanNext, HopsNext
<1> QED BY <1>1, <1>2, <1>3, PTL DEF Spec
=============================================================================
