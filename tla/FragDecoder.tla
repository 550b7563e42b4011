---------------------------- MODULE FragDecoder -----------------------------
(***************************************************************************)
(* The decoder of fragmented files (packages/FragDecoder.c) and the        *)
(* session that feeds it (packages/LmhpFragmentation.c).  A file is cut    *)
(* into FragNb fragments, sent as they are and followed by coded ones, the *)
(* exclusive or of the fragments a parity row names.  The decoder keeps    *)
(* what arrives in the file itself: a missing fragment's place holds a     *)
(* coded one reduced to missing fragments, until there are as many as      *)
(* fragments are missing and back substitution clears them.                *)
(*                                                                         *)
(* Data is abstracted to the set of the fragments it is the exclusive or   *)
(* of, so that XorDataLine and XorParityLine are symmetric difference.     *)
(* The handler runs to its end undisturbed; the two loops of it that       *)
(* depend on their own results are steps under pc.  Fragments get lost,    *)
(* doubled and reordered on their way.  There is one session: the code     *)
(* keeps four, which share this one decoder.  Where the code writes beyond *)
(* an array, pc is "overflow" and the model stops: nothing holds from then *)
(* on.                                                                     *)
(***************************************************************************)
EXTENDS Integers, FiniteSets

CONSTANTS
    FragNb,                 \* fragments of the file
    FRAG_MAX_REDUNDANCY,    \* missing fragments the decoder is built for
    ByteBits,               \* bits of a byte, 8 in the code
    MaxCoded,               \* bound on the coded fragments
    MaxSessions             \* bound on the sessions set up

ASSUME FragDecoderAssumption ==
    /\ FragNb \in Nat \ {0} /\ FRAG_MAX_REDUNDANCY \in Nat
    /\ ByteBits \in Nat \ {0}
    /\ MaxCoded \in Nat /\ MaxSessions \in Nat

VARIABLES
    file,       \* the file's rows, each as a set of fragments
    missing,    \* FragNbMissingIndex
    lost,       \* FragNbLost
    lastRx,     \* FragNbLastRx
    m2b,        \* MatrixM2B, row by row, as sets of columns
    s,          \* S, the rows of the matrix in use
    lines,      \* M2BLine
    isActive,   \* IsActive of the session
    status,     \* FragDecoderPorcessStatus of the session
    pc,         \* where FragDecoderProcess is
    rawData,    \* the coded fragment as far as it is reduced
    vector,     \* dataTempVector
    row,        \* the row back substitution is at
    heard,      \* observer: the fragments that arrived while the session went on
    late,       \* observer: those FragDecoderProcess dropped without having them
    sessions

decoderVars == <<file, missing, lost, lastRx, m2b, s, lines>>
loopVars    == <<rawData, vector, row>>
vars        == <<decoderVars, loopVars, isActive, status, pc, heard, late, sessions>>

Rows     == 0..(FragNb - 1)
Coded    == (FragNb + 1)..(FragNb + MaxCoded)
ERASED   == FragNb                   \* the 0xFF FragDecoderInit fills with
FINISHED == 0
ONGOING  == -1
NOT_STARTED == -2

(* The bits of dataTempVector and of S.  MatrixM2B has as many for each of *)
(* FRAG_MAX_REDUNDANCY rows, and holds the triangle of any vector.         *)
VectorBits == ByteBits * (FRAG_MAX_REDUNDANCY \div ByteBits + 1)
ASSUME MatrixAssumption == VectorBits + 1 <= 2 * FRAG_MAX_REDUNDANCY

Xor(a, b) == (a \ b) \cup (b \ a)
XorOfRows(rows) == {f \in 0..FragNb : Cardinality({i \in rows : f \in file[i]}) % 2 = 1}

(* FragPrbs23 and FragGetParityMatrixRow: the fragments coded fragment n   *)
(* is the exclusive or of.  Draws bounds the values drawn.                 *)
Draws == 4 * FragNb
FragPrbs23(x) == x \div 2 + (IF x % 2 # (x \div 32) % 2 THEN 4194304 ELSE 0)
IsPowerOfTwo(x) == \E e \in 0..x : x = 2^e
Modulus == IF IsPowerOfTwo(FragNb) THEN FragNb + 1 ELSE FragNb
FragGetParityMatrixRow(n) ==
    LET x[k \in 0..Draws] == IF k = 0 THEN 1 + 1001 * n ELSE FragPrbs23(x[k - 1])
        drawn == [k \in 1..Draws |-> x[k] % Modulus]
    IN  {r \in Rows : \E k \in 1..Draws :
            /\ drawn[k] = r
            /\ Cardinality({l \in 1..k : drawn[l] < FragNb}) <= FragNb \div 2}
ParityMatrix == [n \in 1..MaxCoded |-> FragGetParityMatrixRow(n)]
Parity(c) == ParityMatrix[c - FragNb]

BitArrayFindFirstOne(v) == CHOOSE k \in v : \A l \in v : k <= l
FragFindMissingIndex(x) ==
    CHOOSE i \in Rows : missing[i] = x + 1 /\ \A j \in Rows : missing[j] = x + 1 => i <= j
FragExtractLineFromBinaryMatrix(k) == {l \in k..(lost - 1) : l \in m2b[k]}

Init ==
    /\ file = [i \in Rows |-> {}] /\ missing = [i \in Rows |-> 0]
    /\ lost = 0 /\ lastRx = 0
    /\ m2b = [k \in Rows |-> {}] /\ s = {} /\ lines = 0
    /\ isActive = FALSE /\ status = FINISHED
    /\ pc = "idle" /\ rawData = {} /\ vector = {} /\ row = 0
    /\ heard = {} /\ late = {} /\ sessions = 0

-----------------------------------------------------------------------------
FragDecoderInit ==
    /\ file' = [i \in Rows |-> {ERASED}] /\ missing' = [i \in Rows |-> 1]
    /\ lost' = 0 /\ lastRx' = 0
    /\ m2b' = [k \in Rows |-> Rows] /\ s' = {} /\ lines' = 0

(* FRAG_SESSION_SETUP_REQ, which the server may repeat, and                *)
(* FRAG_SESSION_DELETE_REQ, which leaves decoder and status alone.         *)
FragSessionSetup ==
    /\ pc = "idle" /\ sessions < MaxSessions
    /\ sessions' = sessions + 1
    /\ FragDecoderInit
    /\ isActive' = TRUE /\ status' = ONGOING
    /\ heard' = {} /\ late' = {}
    /\ UNCHANGED <<pc, loopVars>>

FragSessionDelete ==
    /\ pc = "idle" /\ isActive
    /\ isActive' = FALSE
    /\ UNCHANGED <<decoderVars, loopVars, status, pc, heard, late, sessions>>

-----------------------------------------------------------------------------
(* FragFindMissingFrags: fragments between the last one and this one are   *)
(* missing and get the next numbers.                                       *)
Gap(c) == {i \in Rows : lastRx <= i /\ i < c - 1}
Numbered(c, before) ==
    [i \in Rows |-> IF i \in Gap(c) THEN lost + i - lastRx + 1 ELSE before[i]]
LostBy(c) == lost + Cardinality(Gap(c))
LastRxBy(c) ==
    IF lastRx < FragNb /\ c - 1 < FragNb THEN c ELSE FragNb + 1

(* FragDecoderProcess, up to its loops.                                    *)
Dropped(c) == c < lastRx /\ UNCHANGED <<decoderVars, loopVars, status, pc>>

Uncoded(c) ==
    /\ c >= lastRx /\ c <= FragNb
    /\ file' = [file EXCEPT ![c - 1] = {c - 1}]
    /\ missing' = Numbered(c, [missing EXCEPT ![c - 1] = 0])
    /\ lost' = LostBy(c) /\ lastRx' = LastRxBy(c)
    /\ UNCHANGED <<m2b, s, lines, loopVars, status, pc>>

TooManyLost(c) ==
    /\ c >= lastRx /\ c > FragNb
    /\ lost > FRAG_MAX_REDUNDANCY
    /\ status' = FINISHED
    /\ UNCHANGED <<decoderVars, loopVars, pc>>

(* Losses at the end of the file are counted only now, and not compared    *)
(* with anything: more of them than the vector has bits are written, and   *)
(* read, beyond its end.                                                   *)
Overflow(c) ==
    /\ c >= lastRx /\ c > FragNb
    /\ lost <= FRAG_MAX_REDUNDANCY /\ LostBy(c) > VectorBits
    /\ pc' = "overflow"
    /\ UNCHANGED <<decoderVars, loopVars, status>>

Redundant(c) ==
    /\ c >= lastRx /\ c > FragNb
    /\ lost <= FRAG_MAX_REDUNDANCY /\ LostBy(c) <= VectorBits
    /\ missing' = Numbered(c, missing)
    /\ lost' = LostBy(c) /\ lastRx' = LastRxBy(c)
    /\ LET known   == {i \in Parity(c) : missing'[i] = 0}
           unknown == {missing'[i] - 1 : i \in Parity(c) \ known}
       IN  IF lost' = 0
           THEN status' = FINISHED /\ UNCHANGED <<pc, rawData, vector>>
           ELSE /\ rawData' = Xor(Parity(c), XorOfRows(known))
                /\ vector' = unknown
                /\ pc' = IF unknown = {} THEN "idle" ELSE "eliminate"
                /\ UNCHANGED status
    /\ UNCHANGED <<file, m2b, s, lines, row>>

FragDecoderProcess(c) ==
    Dropped(c) \/ Uncoded(c) \/ TooManyLost(c) \/ Overflow(c) \/ Redundant(c)

(* FRAGMENTATION_DATA_FRAGMENT: one for a session that has ended reports   *)
(* its end to OnDone.                                                      *)
OnDone ==
    /\ status' = IF status >= 0 THEN NOT_STARTED ELSE status
    /\ UNCHANGED <<decoderVars, loopVars, pc>>
Observed(c) ==
    /\ heard' = heard \cup {c}
    /\ late' = IF c < lastRx /\ c \notin heard THEN late \cup {c} ELSE late
DataFragmentAlways(c) ==
    /\ pc = "idle"
    /\ Observed(c)
    /\ FragDecoderProcess(c)
    /\ UNCHANGED <<isActive, sessions>>
DataFragment(c) ==
    /\ pc = "idle"
    /\ IF status = ONGOING
       THEN FragDecoderProcess(c) /\ Observed(c)
       ELSE OnDone /\ UNCHANGED <<heard, late>>
    /\ UNCHANGED <<isActive, sessions>>

-----------------------------------------------------------------------------
CompletedOneLate ==
    /\ pc' = IF lines' > lost /\ lost > 1 THEN "back" ELSE "idle"
    /\ row' = IF lines' > lost /\ lost > 1 THEN lost - 2 ELSE row
    /\ status' = IF lines' > lost /\ lost = 1 THEN lost ELSE status

(* The matrix is complete, or the handler ends.                            *)
Completed ==
    /\ pc' = IF lines' = lost /\ lost > 1 THEN "back" ELSE "idle"
    /\ row' = IF lines' = lost /\ lost > 1 THEN lost - 2 ELSE row
    /\ status' = IF lines' = lost /\ lost = 1 THEN lost ELSE status

Eliminate ==
    /\ pc = "eliminate"
    /\ BitArrayFindFirstOne(vector) \in s
    /\ LET k == BitArrayFindFirstOne(vector)
       IN  /\ vector' = Xor(vector, FragExtractLineFromBinaryMatrix(k))
           /\ rawData' = Xor(rawData, file[FragFindMissingIndex(k)])
    /\ IF vector' = {}
       THEN UNCHANGED lines /\ Completed
       ELSE UNCHANGED <<lines, pc, row, status>>
    /\ UNCHANGED <<file, missing, lost, lastRx, m2b, s, isActive, heard, late, sessions>>

FragPushLineToBinaryMatrix ==
    /\ pc = "eliminate"
    /\ BitArrayFindFirstOne(vector) \notin s
    /\ LET k == BitArrayFindFirstOne(vector)
       IN  /\ m2b' = [m2b EXCEPT ![k] = @ \cap vector]
           /\ file' = [file EXCEPT ![FragFindMissingIndex(k)] = rawData]
           /\ s' = s \cup {k}
    /\ lines' = lines + 1
    /\ Completed
    /\ UNCHANGED <<missing, lost, lastRx, rawData, vector, isActive, heard, late, sessions>>

(* A row of the matrix is cleared of the columns after its own, whose rows *)
(* are cleared already.  The matrix itself stays as it is.                 *)
Columns(k) == FragExtractLineFromBinaryMatrix(k) \ {k}
BackSubstitute ==
    /\ pc = "back"
    /\ file' = [file EXCEPT ![FragFindMissingIndex(row)] =
                    Xor(@, XorOfRows({FragFindMissingIndex(l) : l \in Columns(row)}))]
    /\ IF row = 0
       THEN pc' = "idle" /\ status' = lost /\ UNCHANGED row
       ELSE row' = row - 1 /\ UNCHANGED <<pc, status>>
    /\ UNCHANGED <<missing, lost, lastRx, m2b, s, lines, rawData, vector, isActive, heard, late, sessions>>

Next ==
    \/ FragSessionSetup \/ FragSessionDelete
    \/ \E c \in 1..FragNb \cup Coded : DataFragment(c)
    \/ Eliminate \/ FragPushLineToBinaryMatrix \/ BackSubstitute

Spec == Init /\ [][Next]_vars

-----------------------------------------------------------------------------
(* Every variable has the type the code gives it.                          *)
TypeOK ==
    /\ file \in [Rows -> SUBSET (0..FragNb)]
    /\ missing \in [Rows -> 0..FragNb]
    /\ lost \in 0..FragNb /\ lastRx \in 0..(FragNb + 1)
    /\ m2b \in [Rows -> SUBSET Rows] /\ s \subseteq Rows /\ lines \in 0..FragNb
    /\ isActive \in BOOLEAN /\ status \in -2..FragNb
    /\ pc \in {"idle", "eliminate", "back", "overflow"}
    /\ rawData \subseteq 0..FragNb /\ vector \subseteq Rows /\ row \in Rows
    /\ heard \subseteq 1..FragNb \cup Coded /\ late \subseteq heard
    /\ sessions \in 0..MaxSessions

(* The rows and columns in use are bits of S and dataTempVector, and while *)
(* the matrix is used its triangle lies within MatrixM2B.                  *)
WithinArrays ==
    /\ s \cup vector \subseteq 0..(VectorBits - 1)
    /\ pc \in {"eliminate", "back"} =>
        /\ lost <= VectorBits
        /\ lost * (lost + 1) <= 2 * VectorBits * FRAG_MAX_REDUNDANCY

(* A session that ended otherwise than by giving up has the whole file,    *)
(* every fragment in its place, whichever fragments were lost and in       *)
(* whatever order, and how often, the others came.                         *)
GivenUp == status = FINISHED /\ lost > 0
FileComplete ==
    isActive /\ pc = "idle" /\ status >= 0 /\ ~GivenUp => \A i \in Rows : file[i] = {i}

(* Fragments determine the file if no change of it leaves them as they are.*)
SumOf(c) == IF c <= FragNb THEN {c - 1} ELSE Parity(c)
Determined(fragments) ==
    \A change \in (SUBSET Rows) \ {{}} :
        \E c \in fragments : Cardinality(SumOf(c) \cap change) % 2 = 1

(* A session ends with the first coded fragment by which those that        *)
(* arrived determine the file, not counting the ones that came too late:   *)
(* FragDecoderProcess drops a fragment that comes after one with a higher  *)
(* number, though it may be missing.                                       *)
Ongoing == isActive /\ pc = "idle" /\ status = ONGOING /\ heard \cap Coded # {}
EndsWhenDetermined == Ongoing => ~Determined(heard \ late)

(* Not so for all that arrived: with the fragments 1, 2, 3, 5, 4, 6 the    *)
(* fourth is dropped, and a coded one without it ends nothing.             *)
EndsWhenAllDetermined == Ongoing => ~Determined(heard)
=============================================================================
