------------------------- MODULE FragDecoderProofs --------------------------
(* The decoder puts every fragment in its place, and ends as soon as it    *)
(* can, for a file of any length, any redundancy and any parity rows.      *)
EXTENDS FragDecoder, FiniteSetTheorems, WellFoundedInduction, TLAPS

-----------------------------------------------------------------------------
(* The inductive invariant.  Rows of fragments that came hold them.        *)
Received == \A i \in Rows : missing[i] = 0 => file[i] = {i}

(* The fragments missing before the last one are numbered from 1 to lost.  *)
Numbering ==
    /\ lost <= lastRx /\ lost <= FragNb
    /\ \A i \in Rows : i < lastRx => missing[i] <= lost
    /\ \A i, j \in Rows :
        i < lastRx /\ j < lastRx /\ missing[i] # 0 /\ missing[i] = missing[j] => i = j
    /\ \A k \in 1..lost : \E i \in Rows : i < lastRx /\ missing[i] = k
    /\ \A i \in Rows : i = lastRx - 1 /\ lastRx <= FragNb => missing[i] = 0

(* The matrix is used once every fragment came or was missed; its rows in  *)
(* use have a one on the diagonal, the others are still as they were.      *)
AllSent == lastRx = FragNb + 1
Matrix ==
    /\ s # {} \/ pc \in {"eliminate", "back"} \/ status > 0 \/ (status = FINISHED /\ lost = 0) => AllSent
    /\ s \subseteq 0..(lost - 1) /\ lines = Cardinality(s)
    /\ \A k \in Rows : IF k \in s THEN k \in m2b[k] ELSE m2b[k] = Rows

(* The place of a missing fragment holds the fragments its row of the      *)
(* matrix names, or after back substitution the fragment itself.           *)
Fragments(v) == {FragFindMissingIndex(l) : l \in v}
Stored(k) == file[FragFindMissingIndex(k)] = Fragments(FragExtractLineFromBinaryMatrix(k))
Reduced(k) == file[FragFindMissingIndex(k)] = {FragFindMissingIndex(k)}

Places ==
    /\ status = ONGOING /\ pc # "back" => \A k \in s : Stored(k)
    /\ pc # "idle" => status = ONGOING
    /\ pc = "eliminate" =>
        vector # {} /\ vector \subseteq 0..(lost - 1) /\ rawData = Fragments(vector)
    /\ pc = "back" =>
        /\ s = 0..(lost - 1) /\ row < lost - 1
        /\ \A k \in s : IF k > row THEN Reduced(k) ELSE Stored(k)
    /\ status > 0 => \A k \in 0..(lost - 1) : Reduced(k)

Unused == pc = "idle" /\ ~isActive /\ status \in {FINISHED, NOT_STARTED}
IInv ==
    /\ TypeOK
    /\ IF sessions = 0 THEN Unused ELSE Received /\ Numbering /\ Matrix /\ Places

-----------------------------------------------------------------------------
(* A set of naturals that is not empty has a first element, which is what  *)
(* BitArrayFindFirstOne finds.                                             *)
LEMMA FirstOne ==
    ASSUME NEW v, v \subseteq Nat, v # {}
    PROVE  /\ BitArrayFindFirstOne(v) \in v
           /\ \A l \in v : BitArrayFindFirstOne(v) <= l
<1> DEFINE R == {ss \in Nat \X Nat : ss[1] < ss[2]}
<1>1. IsWellFoundedOn(R, Nat)
  BY NatLessThanWellFounded DEF OpToRel
<1>2. PICK k \in v : \A l \in v : ~(<<l, k>> \in R)
  BY <1>1, WFMin
<1>3. ASSUME NEW l \in v
      PROVE  k <= l
  <2>1. <<l, k>> \notin R
    BY <1>2
  <2>2. l \in Nat /\ k \in Nat
    OBVIOUS
  <2>3. l < k => <<l, k>> \in R
    BY <2>2
  <2> QED
    <3> HIDE DEF R
    <3> QED  BY <2>1, <2>2, <2>3
<1> QED
  BY <1>3 DEF BitArrayFindFirstOne

(* Rows that hold their own fragments add up to those fragments.           *)
LEMMA XorOfOwn ==
    ASSUME NEW rows \in SUBSET Rows, \A i \in rows : file[i] = {i}, FragNb \in Nat
    PROVE  XorOfRows(rows) = rows
<1>1. ASSUME NEW f \in 0..FragNb
      PROVE  Cardinality({i \in rows : f \in file[i]}) % 2 = 1 <=> f \in rows
  <2>1. CASE f \in rows
    <3>1. {i \in rows : f \in file[i]} = {f}
      <4>1. \A i : i \in {j \in rows : f \in file[j]} <=> i \in {f}
        BY <2>1
      <4> QED
        BY <4>1
    <3>2. Cardinality({f}) = 1
      BY FS_Singleton
    <3> QED
      BY <2>1, <3>1, <3>2
  <2>2. CASE f \notin rows
    <3>1. {i \in rows : f \in file[i]} = {}
      BY <2>2
    <3> QED
      BY <2>2, <3>1, FS_EmptySet
  <2> QED
    BY <2>1, <2>2
<1>2. rows \subseteq 0..FragNb
  BY DEF Rows
<1> QED
  BY <1>1, <1>2 DEF XorOfRows

-----------------------------------------------------------------------------
(* Places by their numbers, for any numbering m of n missing fragments.    *)
PlaceIn(m, x) ==
    CHOOSE i \in Rows : m[i] = x + 1 /\ \A j \in Rows : m[j] = x + 1 => i <= j
Numbers(m, n) ==
    /\ \A i \in Rows : m[i] \in 0..n
    /\ \A i, j \in Rows : m[i] # 0 /\ m[i] = m[j] => i = j
    /\ \A k \in 1..n : \E i \in Rows : m[i] = k

(* The missing fragment with number k + 1 is found.                        *)
LEMMA Place ==
    ASSUME NEW m, NEW n \in Nat, Numbers(m, n), NEW k \in 0..(n - 1)
    PROVE  PlaceIn(m, k) \in Rows /\ m[PlaceIn(m, k)] = k + 1
<1>1. PICK i \in Rows : m[i] = k + 1
  BY DEF Numbers
<1>2. \A j \in Rows : m[j] = k + 1 => i = j
  BY <1>1 DEF Numbers
<1>3. i <= i
  BY DEF Rows
<1>4. \A j \in Rows : m[j] = k + 1 => i <= j
  BY <1>2, <1>3
<1> QED
  BY <1>1, <1>4 DEF PlaceIn

(* A missing fragment is found by its number.                              *)
LEMMA PlaceOf ==
    ASSUME NEW m, NEW n \in Nat, Numbers(m, n), NEW i \in Rows, m[i] # 0
    PROVE  m[i] - 1 \in 0..(n - 1) /\ PlaceIn(m, m[i] - 1) = i
<1>1. m[i] \in 1..n /\ m[i] - 1 \in 0..(n - 1)
  BY DEF Numbers
<1>2. PlaceIn(m, m[i] - 1) \in Rows /\ m[PlaceIn(m, m[i] - 1)] = m[i] - 1 + 1
  BY <1>1, Place
<1>3. m[PlaceIn(m, m[i] - 1)] = m[i]
  BY <1>1, <1>2
<1> QED
  BY <1>1, <1>2, <1>3 DEF Numbers

(* Different numbers are found in different places.                        *)
LEMMA PlacesDiffer ==
    ASSUME NEW m, NEW n \in Nat, Numbers(m, n), NEW k \in 0..(n - 1), NEW l \in 0..(n - 1),
           PlaceIn(m, k) = PlaceIn(m, l)
    PROVE  k = l
<1>1. m[PlaceIn(m, k)] = k + 1 /\ m[PlaceIn(m, l)] = l + 1
  BY Place
<1> QED
  BY <1>1

(* Adding up fragments is adding up their numbers.                         *)
LEMMA XorPlaces ==
    ASSUME NEW m, NEW n \in Nat, Numbers(m, n),
           NEW v \in SUBSET (0..(n - 1)), NEW w \in SUBSET (0..(n - 1))
    PROVE  Xor({PlaceIn(m, k) : k \in v}, {PlaceIn(m, k) : k \in w})
             = {PlaceIn(m, k) : k \in Xor(v, w)}
<1> DEFINE P(k) == PlaceIn(m, k)
<1>1. \A k, l \in 0..(n - 1) : P(k) = P(l) => k = l
  BY PlacesDiffer
<1> HIDE DEF P
<1>2. Xor({P(k) : k \in v}, {P(k) : k \in w}) = {P(k) : k \in Xor(v, w)}
  BY <1>1, ZenonT(30) DEF Xor
<1> QED
  BY <1>2 DEF P

-----------------------------------------------------------------------------
(* What the invariant says of the places once every fragment was sent.     *)
LEMMA FindIsPlace ==
    \A k : FragFindMissingIndex(k) = PlaceIn(missing, k)
BY DEF FragFindMissingIndex, PlaceIn

(* Once every fragment was sent the missing ones are numbered.             *)
LEMMA AllNumbered ==
    ASSUME TypeOK, Numbering, AllSent
    PROVE  Numbers(missing, lost)
<1> USE FragDecoderAssumption
<1>1. \A i \in Rows : i < lastRx
  BY DEF Rows, AllSent
<1> QED
  BY <1>1 DEF TypeOK, Numbering, Numbers

(* A row of the matrix names columns of missing fragments only.            *)
LEMMA LineShape ==
    ASSUME TypeOK, NEW k \in 0..(lost - 1)
    PROVE  FragExtractLineFromBinaryMatrix(k) \subseteq 0..(lost - 1)
BY FragDecoderAssumption DEF TypeOK, FragExtractLineFromBinaryMatrix

(* There are as many rows in use as fragments missing only if all are.     *)
LEMMA FullMatrix ==
    ASSUME NEW n \in Nat, NEW t \in SUBSET (0..(n - 1))
    PROVE  /\ Cardinality(t) \in 0..n /\ IsFiniteSet(t)
           /\ Cardinality(t) = n => t = 0..(n - 1)
<1>1. IsFiniteSet(0..(n - 1)) /\ Cardinality(0..(n - 1)) = n
  BY FS_Interval
<1>2. IsFiniteSet(t) /\ Cardinality(t) <= n /\ (n = Cardinality(t) => 0..(n - 1) = t)
  BY <1>1, FS_Subset
<1>3. Cardinality(t) \in Nat
  BY <1>2, FS_CardinalityType
<1> QED
  BY <1>2, <1>3

(* The same in terms of the code's own function.                           *)
LEMMA Finds ==
    ASSUME TypeOK, Numbering, AllSent
    PROVE  /\ \A k \in 0..(lost - 1) :
                FragFindMissingIndex(k) \in Rows /\ missing[FragFindMissingIndex(k)] = k + 1
           /\ \A k, l \in 0..(lost - 1) :
                FragFindMissingIndex(k) = FragFindMissingIndex(l) => k = l
           /\ \A i \in Rows : missing[i] # 0 =>
                missing[i] - 1 \in 0..(lost - 1) /\ FragFindMissingIndex(missing[i] - 1) = i
<1>1. Numbers(missing, lost) /\ lost \in Nat
  BY AllNumbered DEF TypeOK
<1>2. \A k \in 0..(lost - 1) : PlaceIn(missing, k) \in Rows /\ missing[PlaceIn(missing, k)] = k + 1
  BY <1>1, Place
<1>3. \A k, l \in 0..(lost - 1) : PlaceIn(missing, k) = PlaceIn(missing, l) => k = l
  BY <1>1, PlacesDiffer
<1>4. \A i \in Rows : missing[i] # 0 =>
        missing[i] - 1 \in 0..(lost - 1) /\ PlaceIn(missing, missing[i] - 1) = i
  BY <1>1, PlaceOf
<1> QED
  BY <1>2, <1>3, <1>4, FindIsPlace

(* Adding up the fragments two sets of columns name.                       *)
LEMMA XorFragments ==
    ASSUME TypeOK, Numbering, AllSent,
           NEW v \in SUBSET (0..(lost - 1)), NEW w \in SUBSET (0..(lost - 1))
    PROVE  Xor(Fragments(v), Fragments(w)) = Fragments(Xor(v, w))
<1>1. Numbers(missing, lost) /\ lost \in Nat
  BY AllNumbered DEF TypeOK
<1>2. \A u : Fragments(u) = {PlaceIn(missing, k) : k \in u}
  BY DEF Fragments, FragFindMissingIndex, PlaceIn
<1>3. Xor({PlaceIn(missing, k) : k \in v}, {PlaceIn(missing, k) : k \in w})
        = {PlaceIn(missing, k) : k \in Xor(v, w)}
  BY <1>1, XorPlaces
<1> QED
  BY <1>2, <1>3

-----------------------------------------------------------------------------
(* When the matrix has as many rows as fragments are missing, its last row *)
(* is reduced to begin with.                                               *)
LEMMA CompletedPlaces ==
    ASSUME TypeOK, lost # 0, status = ONGOING, Completed, lost' = lost,
           s' \subseteq 0..(lost - 1), lines' = Cardinality(s'),
           \A k \in s' : k \in m2b'[k], \A k \in s' : Stored(k)'
    PROVE  /\ pc' \in {"idle", "back"} /\ row' \in Rows
           /\ status' = ONGOING /\ pc' = "idle" => \A k \in s' : Stored(k)'
           /\ pc' = "back" =>
                /\ status' = ONGOING /\ s' = 0..(lost - 1) /\ row' < lost - 1
                /\ \A k \in s' : IF k > row' THEN Reduced(k)' ELSE Stored(k)'
           /\ status' = ONGOING \/ (status' = lost /\ \A k \in 0..(lost - 1) : Reduced(k)')
<1> USE FragDecoderAssumption
<1>1. lost \in 1..FragNb /\ row \in Rows
  BY DEF TypeOK
<1>2. lines' = lost => s' = 0..(lost - 1)
  <2>1. lost \in Nat /\ s' \in SUBSET (0..(lost - 1))
    BY <1>1
  <2>2. Cardinality(s') = lost => s' = 0..(lost - 1)
    BY <2>1, FullMatrix
  <2> QED
    BY <2>2
<1>3. ASSUME lost - 1 \in s'
      PROVE  Reduced(lost - 1)'
  <2>1. FragExtractLineFromBinaryMatrix(lost - 1)' = {lost - 1}
    BY <1>1, <1>3 DEF FragExtractLineFromBinaryMatrix
  <2>2. Stored(lost - 1)'
    BY <1>1, <1>3
  <2> QED
    BY <2>1, <2>2 DEF Stored, Reduced, Fragments
<1>4. CASE lines' = lost /\ lost > 1
  <2>1. pc' = "back" /\ row' = lost - 2 /\ status' = ONGOING
    BY <1>1, <1>4 DEF Completed
  <2>2. \A k \in s' : IF k > row' THEN Reduced(k)' ELSE Stored(k)'
    <3>1. ASSUME NEW k \in s', k > row'
          PROVE  Reduced(k)'
      <4>1. k = lost - 1
        BY <1>1, <2>1, <3>1
      <4> QED
        BY <1>3, <3>1, <4>1
    <3> QED
      BY <3>1
  <2> QED
    BY <1>1, <1>2, <1>4, <2>1, <2>2 DEF Rows
<1>5. CASE lines' = lost /\ lost = 1
  <2>1. pc' = "idle" /\ row' = row /\ status' = lost
    BY <1>5 DEF Completed
  <2>2. \A k \in 0..(lost - 1) : Reduced(k)'
    <3>1. 0..(lost - 1) = {lost - 1} /\ lost - 1 \in s'
      BY <1>2, <1>5
    <3> QED
      BY <1>3, <3>1
  <2> QED
    BY <1>1, <2>1, <2>2, <1>5 DEF ONGOING
<1>6. CASE lines' # lost
  BY <1>1, <1>6 DEF Completed, ONGOING
<1> QED
  BY <1>1, <1>4, <1>5, <1>6

-----------------------------------------------------------------------------
(* One lemma for every action.                                             *)
LEMMA InvEliminate ==
    ASSUME IInv, Eliminate
    PROVE  IInv'
<1> USE FragDecoderAssumption
<1> DEFINE k == BitArrayFindFirstOne(vector)
           line == FragExtractLineFromBinaryMatrix(k)
<1>1. /\ TypeOK /\ Received /\ Numbering /\ Matrix /\ Places /\ sessions # 0
      /\ pc = "eliminate" /\ status = ONGOING /\ AllSent
  BY DEF IInv, Unused, Eliminate, Places, Matrix
<1>2. vector # {} /\ vector \subseteq 0..(lost - 1) /\ rawData = Fragments(vector)
  BY <1>1 DEF Places
<1>3. k \in vector /\ k \in s /\ k \in 0..(lost - 1) /\ lost \in 0..FragNb
  <2>1. vector \subseteq Nat
    BY <1>2
  <2> QED
    BY <1>1, <1>2, <2>1, FirstOne DEF Eliminate, TypeOK
<1>4. line \subseteq 0..(lost - 1) /\ Stored(k)
  BY <1>1, <1>3, LineShape DEF Places
<1>5. /\ vector' = Xor(vector, line)
      /\ rawData' = Xor(rawData, file[FragFindMissingIndex(k)])
      /\ UNCHANGED <<file, missing, lost, lastRx, m2b, s, lines, isActive, heard, late, sessions>>
      /\ IF vector' = {} THEN Completed ELSE UNCHANGED <<pc, row, status>>
  BY DEF Eliminate, Completed
<1> HIDE DEF k, line
<1>6. vector' \subseteq 0..(lost - 1)
  BY <1>2, <1>4, <1>5 DEF Xor
<1>7. rawData' = Fragments(vector')
  <2>1. Xor(Fragments(vector), Fragments(line)) = Fragments(Xor(vector, line))
    BY <1>1, <1>2, <1>4, XorFragments
  <2> QED
    BY <1>2, <1>4, <1>5, <2>1 DEF Stored, line
<1>8. /\ \A v : Fragments(v)' = Fragments(v)
      /\ \A l : Stored(l)' <=> Stored(l)
  BY <1>5 DEF Fragments, Stored, FragFindMissingIndex, FragExtractLineFromBinaryMatrix
<1>9. rawData' \subseteq 0..FragNb /\ vector' \subseteq Rows
  <2>1. \A l \in 0..(lost - 1) : FragFindMissingIndex(l) \in Rows
    BY <1>1, Finds
  <2>2. Fragments(vector') \subseteq Rows
    BY <1>6, <2>1 DEF Fragments
  <2> QED
    BY <1>3, <1>6, <1>7, <2>2 DEF Rows
<1>10. Received' /\ Numbering' /\ sessions' # 0
  BY <1>1, <1>5 DEF Received, Numbering
<1>11. s \subseteq 0..(lost - 1) /\ lines = Cardinality(s) /\ (\A l \in s : l \in m2b[l] /\ Stored(l))
  BY <1>1, <1>5 DEF Matrix, Places, TypeOK
<1>12. CASE vector' = {}
  <2>1. Completed /\ lost # 0
    BY <1>3, <1>5, <1>12
  <2>2. /\ pc' \in {"idle", "back"} /\ row' \in Rows
        /\ status' = ONGOING /\ pc' = "idle" => \A l \in s' : Stored(l)'
        /\ pc' = "back" =>
             /\ status' = ONGOING /\ s' = 0..(lost - 1) /\ row' < lost - 1
             /\ \A l \in s' : IF l > row' THEN Reduced(l)' ELSE Stored(l)'
        /\ status' = ONGOING \/ (status' = lost /\ \A l \in 0..(lost - 1) : Reduced(l)')
    BY <1>1, <1>5, <1>8, <1>11, <2>1, CompletedPlaces
  <2>3. TypeOK'
    BY <1>1, <1>3, <1>5, <1>9, <2>2 DEF TypeOK, ONGOING
  <2>4. Matrix'
    BY <1>1, <1>5 DEF Matrix, AllSent
  <2>5. Places'
    BY <1>3, <1>5, <2>1, <2>2 DEF Places, ONGOING
  <2> QED
    BY <1>10, <2>3, <2>4, <2>5 DEF IInv
<1>13. CASE vector' # {}
  <2>1. UNCHANGED <<pc, row, status>>
    BY <1>5, <1>13
  <2>2. TypeOK'
    BY <1>1, <1>5, <1>9, <2>1 DEF TypeOK
  <2>3. Matrix'
    BY <1>1, <1>5, <2>1 DEF Matrix, AllSent
  <2>4. Places'
    BY <1>1, <1>5, <1>6, <1>7, <1>8, <1>11, <1>13, <2>1 DEF Places, ONGOING
  <2> QED
    BY <1>10, <2>2, <2>3, <2>4 DEF IInv
<1> QED
  BY <1>12, <1>13

(* A vector whose first one is new becomes a row.                          *)
LEMMA InvPush ==
    ASSUME IInv, FragPushLineToBinaryMatrix
    PROVE  IInv'
<1> USE FragDecoderAssumption
<1> DEFINE k == BitArrayFindFirstOne(vector)
<1>1. /\ TypeOK /\ Received /\ Numbering /\ Matrix /\ Places /\ sessions # 0
      /\ pc = "eliminate" /\ status = ONGOING /\ AllSent
  BY DEF IInv, Unused, FragPushLineToBinaryMatrix, Places, Matrix
<1>2. vector # {} /\ vector \subseteq 0..(lost - 1) /\ rawData = Fragments(vector)
  BY <1>1 DEF Places
<1>3. k \in vector /\ (\A l \in vector : k <= l) /\ k \notin s
  <2>1. vector \subseteq Nat
    BY <1>2
  <2> QED
    BY <1>2, <2>1, FirstOne DEF FragPushLineToBinaryMatrix
<1>4. k \in 0..(lost - 1) /\ lost \in 0..FragNb /\ k \in Rows
  BY <1>1, <1>2, <1>3 DEF TypeOK, Rows
<1>5. /\ m2b' = [m2b EXCEPT ![k] = @ \cap vector]
      /\ file' = [file EXCEPT ![FragFindMissingIndex(k)] = rawData]
      /\ s' = s \cup {k} /\ lines' = lines + 1
      /\ UNCHANGED <<missing, lost, lastRx, rawData, vector, isActive, heard, late, sessions>>
      /\ Completed
  BY DEF FragPushLineToBinaryMatrix
<1> HIDE DEF k
<1>6. m2b'[k] = vector /\ \A l \in Rows : l # k => m2b'[l] = m2b[l]
  <2>1. m2b[k] = Rows
    BY <1>1, <1>3, <1>4 DEF Matrix
  <2> QED
    BY <1>1, <1>4, <1>5, <2>1 DEF TypeOK
<1>7. \A l \in 0..(lost - 1) : /\ FragFindMissingIndex(l) \in Rows
                               /\ missing[FragFindMissingIndex(l)] # 0
                               /\ FragFindMissingIndex(l) = FragFindMissingIndex(k) => l = k
  BY <1>1, <1>4, Finds
<1>8. /\ \A v : Fragments(v)' = Fragments(v)
      /\ \A l : FragFindMissingIndex(l)' = FragFindMissingIndex(l)
  BY <1>5 DEF Fragments, FragFindMissingIndex
<1>9. ASSUME NEW l \in s'
      PROVE  l \in m2b'[l] /\ Stored(l)'
  <2>1. CASE l = k
    <3>1. FragExtractLineFromBinaryMatrix(l)' = {i \in l..(lost - 1) : i \in m2b'[l]}
      BY <1>5 DEF FragExtractLineFromBinaryMatrix
    <3>2. m2b'[l] = vector /\ l \in vector
      BY <1>3, <1>6, <2>1
    <3>3. \A i \in vector : i \in l..(lost - 1)
      BY <1>2, <1>3, <1>4, <2>1
    <3>4. {i \in l..(lost - 1) : i \in vector} = vector
      BY <3>3
    <3>5. file'[FragFindMissingIndex(l)] = Fragments(vector)
      BY <1>1, <1>2, <1>4, <1>5, <1>7, <2>1 DEF TypeOK
    <3> QED
      BY <1>8, <3>1, <3>2, <3>4, <3>5 DEF Stored
  <2>2. CASE l # k
    <3>1. l \in s /\ l \in 0..(lost - 1) /\ l \in Rows
      BY <1>1, <1>5, <2>2 DEF Matrix, TypeOK
    <3>2. l \in m2b[l] /\ Stored(l)
      BY <1>1, <3>1 DEF Matrix, Places
    <3>3. FragExtractLineFromBinaryMatrix(l)' = FragExtractLineFromBinaryMatrix(l)
      BY <1>5, <1>6, <2>2, <3>1 DEF FragExtractLineFromBinaryMatrix
    <3>4. file'[FragFindMissingIndex(l)] = file[FragFindMissingIndex(l)]
      BY <1>1, <1>5, <1>7, <2>2, <3>1 DEF TypeOK
    <3> QED
      BY <1>6, <1>8, <2>2, <3>1, <3>2, <3>3, <3>4 DEF Stored
  <2> QED
    BY <2>1, <2>2
<1>10. s' \subseteq 0..(lost - 1) /\ lines' = Cardinality(s') /\ lines' \in 0..FragNb
  <2>1. s \in SUBSET (0..(lost - 1)) /\ lines = Cardinality(s)
    BY <1>1 DEF Matrix
  <2>2. IsFiniteSet(s)
    <3>1. lost \in Nat
      BY <1>4
    <3> QED
      BY <2>1, <3>1, FullMatrix
  <2>3. Cardinality(s \cup {k}) = Cardinality(s) + 1
    BY <1>3, <2>2, FS_AddElement
  <2>4. s' \in SUBSET (0..(lost - 1)) /\ lines' = Cardinality(s')
    BY <1>4, <1>5, <2>1, <2>3
  <2>5. Cardinality(s') \in 0..lost
    BY <1>4, <2>4, FullMatrix
  <2> QED
    BY <1>4, <2>4, <2>5
<1>11. lost # 0
  BY <1>4
<1>12. /\ pc' \in {"idle", "back"} /\ row' \in Rows
       /\ status' = ONGOING /\ pc' = "idle" => \A l \in s' : Stored(l)'
       /\ pc' = "back" =>
            /\ status' = ONGOING /\ s' = 0..(lost - 1) /\ row' < lost - 1
            /\ \A l \in s' : IF l > row' THEN Reduced(l)' ELSE Stored(l)'
       /\ status' = ONGOING \/ (status' = lost /\ \A l \in 0..(lost - 1) : Reduced(l)')
  BY <1>1, <1>5, <1>9, <1>10, <1>11, CompletedPlaces
<1>13. TypeOK'
  <2>1. file' \in [Rows -> SUBSET (0..FragNb)] /\ m2b' \in [Rows -> SUBSET Rows]
    BY <1>1, <1>5 DEF TypeOK
  <2>2. s' \subseteq Rows
    BY <1>4, <1>10 DEF Rows
  <2> QED
    BY <1>1, <1>4, <1>5, <1>10, <1>12, <2>1, <2>2 DEF TypeOK, ONGOING
<1>14. Received'
  <2>1. \A i \in Rows : missing[i] = 0 => file'[i] = file[i]
    BY <1>1, <1>4, <1>5, <1>7 DEF TypeOK
  <2> QED
    BY <1>1, <1>5, <2>1 DEF Received
<1>15. Numbering' /\ sessions' # 0
  BY <1>1, <1>5 DEF Numbering
<1>16. Matrix'
  <2>1. \A l \in Rows : IF l \in s' THEN l \in m2b'[l] ELSE m2b'[l] = Rows
    BY <1>1, <1>5, <1>6, <1>9 DEF Matrix
  <2> QED
    BY <1>1, <1>5, <1>10, <2>1 DEF Matrix, AllSent
<1>17. Places'
  BY <1>4, <1>5, <1>11, <1>12 DEF Places, ONGOING
<1> QED
  BY <1>13, <1>14, <1>15, <1>16, <1>17 DEF IInv

(* A row is cleared of the columns after its own.                          *)
LEMMA InvBackSubstitute ==
    ASSUME IInv, BackSubstitute
    PROVE  IInv'
<1> USE FragDecoderAssumption
<1> DEFINE place == FragFindMissingIndex(row)
           line == FragExtractLineFromBinaryMatrix(row)
           others == Columns(row)
<1>1. /\ TypeOK /\ Received /\ Numbering /\ Matrix /\ Places /\ sessions # 0
      /\ pc = "back" /\ status = ONGOING /\ AllSent
  BY DEF IInv, Unused, BackSubstitute, Places, Matrix
<1>2. /\ s = 0..(lost - 1) /\ row < lost - 1
      /\ \A k \in s : IF k > row THEN Reduced(k) ELSE Stored(k)
  BY <1>1 DEF Places
<1>3. row \in 0..(lost - 1) /\ row \in Rows /\ lost \in 0..FragNb
  BY <1>1, <1>2 DEF TypeOK, Rows
<1>4. Stored(row) /\ row \in m2b[row]
  BY <1>1, <1>2, <1>3 DEF Matrix
<1>5. /\ line \in SUBSET (0..(lost - 1)) /\ row \in line /\ others = line \ {row}
      /\ \A l \in others : l > row
  <2>1. line \subseteq 0..(lost - 1)
    BY <1>1, <1>3, LineShape
  <2>2. row \in line /\ others = line \ {row} /\ \A l \in others : l > row
    BY <1>3, <1>4 DEF FragExtractLineFromBinaryMatrix, Columns
  <2> QED
    BY <2>1, <2>2
<1>6. /\ \A l \in 0..(lost - 1) : FragFindMissingIndex(l) \in Rows
      /\ \A l \in 0..(lost - 1) : missing[FragFindMissingIndex(l)] # 0
      /\ \A l \in 0..(lost - 1) : FragFindMissingIndex(l) = place => l = row
  BY <1>1, <1>3, Finds
<1>7. XorOfRows(Fragments(others)) = Fragments(others)
  <2>1. Fragments(others) \in SUBSET Rows
    BY <1>5, <1>6 DEF Fragments
  <2>2. \A i \in Fragments(others) : file[i] = {i}
    BY <1>2, <1>5 DEF Fragments, Reduced
  <2> QED
    BY <2>1, <2>2, XorOfOwn
<1>8. Xor(Fragments(line), Fragments(others)) = {place}
  <2>1. Xor(line, others) = {row}
    BY <1>5 DEF Xor
  <2>2. Xor(Fragments(line), Fragments(others)) = Fragments(Xor(line, others))
    BY <1>1, <1>5, XorFragments
  <2>3. Fragments({row}) = {place}
    BY DEF Fragments
  <2> QED
    BY <2>1, <2>2, <2>3
<1>9. /\ file' = [file EXCEPT ![place] = {place}]
      /\ UNCHANGED <<missing, lost, lastRx, m2b, s, lines, rawData, vector, isActive, heard, late, sessions>>
      /\ IF row = 0 THEN pc' = "idle" /\ status' = lost /\ row' = row
                    ELSE row' = row - 1 /\ pc' = pc /\ status' = status
  <2>1. file' = [file EXCEPT ![place] = Xor(file[place], XorOfRows(Fragments(others)))]
    BY DEF BackSubstitute, Fragments
  <2>2. file[place] = Fragments(line)
    BY <1>4 DEF Stored
  <2> QED
    BY <1>7, <1>8, <2>1, <2>2 DEF BackSubstitute
<1> HIDE DEF place, line, others
<1>10. /\ \A l : FragFindMissingIndex(l)' = FragFindMissingIndex(l)
       /\ \A l : Fragments(FragExtractLineFromBinaryMatrix(l))' =
                    Fragments(FragExtractLineFromBinaryMatrix(l))
  BY <1>9 DEF Fragments, FragFindMissingIndex, FragExtractLineFromBinaryMatrix
<1>11. ASSUME NEW l \in s, l # row
       PROVE  (Reduced(l)' <=> Reduced(l)) /\ (Stored(l)' <=> Stored(l))
  <2>1. file'[FragFindMissingIndex(l)] = file[FragFindMissingIndex(l)]
    BY <1>1, <1>2, <1>6, <1>9, <1>11 DEF TypeOK
  <2> QED
    BY <1>10, <2>1 DEF Reduced, Stored
<1>12. \A l : l = row => Reduced(l)'
  <2>1. \A l : l = row => FragFindMissingIndex(l)' = place
    BY <1>10 DEF place
  <2>2. place \in Rows
    BY <1>3, <1>6 DEF place
  <2>3. file'[place] = {place}
    BY <1>1, <1>9, <2>2 DEF TypeOK
  <2> QED
    BY <2>1, <2>3 DEF Reduced
<1>13. Received' /\ Numbering' /\ sessions' # 0
  <2>1. \A i \in Rows : missing[i] = 0 => file'[i] = file[i]
    BY <1>1, <1>3, <1>6, <1>9 DEF TypeOK, place
  <2> QED
    BY <1>1, <1>9, <2>1 DEF Received, Numbering
<1>14. place \in 0..FragNb
  BY <1>3, <1>6 DEF Rows, place
<1>15. file' \in [Rows -> SUBSET (0..FragNb)]
  <2>1. {place} \in SUBSET (0..FragNb)
    BY <1>14
  <2> QED
    BY <1>1, <1>9, <2>1 DEF TypeOK
<1>16. CASE row = 0
  <2>1. pc' = "idle" /\ status' = lost /\ row' = row
    BY <1>9, <1>16
  <2>2. TypeOK'
    BY <1>1, <1>3, <1>9, <1>15, <2>1 DEF TypeOK
  <2>3. Matrix'
    BY <1>1, <1>9, <2>1 DEF Matrix, AllSent
  <2>4. \A l \in 0..(lost - 1) : Reduced(l)'
    BY <1>2, <1>3, <1>11, <1>12, <1>16
  <2>5. Places'
    BY <1>3, <1>9, <2>1, <2>4 DEF Places, ONGOING
  <2> QED
    BY <1>13, <2>2, <2>3, <2>5 DEF IInv
<1>17. CASE row # 0
  <2>1. row' = row - 1 /\ pc' = "back" /\ status' = ONGOING
    BY <1>1, <1>9, <1>17
  <2>2. TypeOK'
    <3>1. row - 1 \in Rows
      BY <1>3, <1>17 DEF Rows
    <3> QED
      BY <1>1, <1>3, <1>9, <1>15, <2>1, <3>1 DEF TypeOK
  <2>3. Matrix'
    BY <1>1, <1>9, <2>1 DEF Matrix, AllSent
  <2>4. \A l \in s' : IF l > row' THEN Reduced(l)' ELSE Stored(l)'
    <3>1. ASSUME NEW l \in s
          PROVE  IF l > row - 1 THEN Reduced(l)' ELSE Stored(l)'
      <4>1. l \in Nat /\ row \in Nat
        BY <1>2, <1>3
      <4>2. CASE l = row
        BY <1>12, <4>1, <4>2
      <4>3. CASE l # row
        <5>1. l > row - 1 <=> l > row
          BY <4>1, <4>3
        <5> QED
          BY <1>2, <1>11, <4>3, <5>1
      <4> QED
        BY <4>2, <4>3
    <3> QED
      BY <1>9, <2>1, <3>1
  <2>5. Places'
    BY <1>2, <1>3, <1>9, <2>1, <2>4 DEF Places, ONGOING
  <2> QED
    BY <1>13, <2>2, <2>3, <2>5 DEF IInv
<1> QED
  BY <1>16, <1>17

(* A session is set up afresh.                                             *)
LEMMA InvSetup ==
    ASSUME IInv, FragSessionSetup
    PROVE  IInv'
<1> USE FragDecoderAssumption
<1>1. /\ file' = [i \in Rows |-> {ERASED}] /\ missing' = [i \in Rows |-> 1]
      /\ lost' = 0 /\ lastRx' = 0 /\ m2b' = [k \in Rows |-> Rows] /\ s' = {} /\ lines' = 0
      /\ isActive' = TRUE /\ status' = ONGOING /\ pc' = "idle" /\ heard' = {} /\ late' = {}
      /\ sessions' = sessions + 1 /\ sessions < MaxSessions
      /\ UNCHANGED loopVars
  BY DEF FragSessionSetup, FragDecoderInit
<1>2. TypeOK
  BY DEF IInv
<1>3. TypeOK' /\ sessions' # 0
  BY <1>1, <1>2 DEF TypeOK, ONGOING, ERASED, Rows, loopVars
<1>4. Received' /\ Numbering'
  BY <1>1 DEF Received, Numbering, Rows
<1>5. Matrix'
  <2>1. Cardinality({}) = 0
    BY FS_EmptySet
  <2> QED
    BY <1>1, <2>1 DEF Matrix, AllSent, ONGOING, FINISHED
<1>6. Places'
  BY <1>1 DEF Places, ONGOING
<1> QED
  BY <1>3, <1>4, <1>5, <1>6 DEF IInv

(* What does not look at heard or isActive does not see them change.       *)
LEMMA InvDelete ==
    ASSUME IInv, FragSessionDelete
    PROVE  IInv'
<1>1. /\ isActive /\ isActive' = FALSE
      /\ UNCHANGED <<decoderVars, loopVars, status, pc, heard, late, sessions>>
  BY DEF FragSessionDelete
<1>2. TypeOK /\ sessions # 0 /\ Received /\ Numbering /\ Matrix /\ Places
  BY <1>1 DEF IInv, Unused
<1>3. TypeOK'
  BY <1>1, <1>2 DEF TypeOK, decoderVars, loopVars
<1>4. Received' /\ Numbering' /\ Matrix'
  BY <1>1, <1>2 DEF Received, Numbering, Matrix, AllSent, decoderVars
<1>5. Places'
  BY <1>1, <1>2 DEF Places, Stored, Reduced, Fragments, FragFindMissingIndex,
        FragExtractLineFromBinaryMatrix, decoderVars, loopVars
<1> QED
  BY <1>1, <1>2, <1>3, <1>4, <1>5 DEF IInv

(* Fragments missing between the last one and the e-th get the numbers     *)
(* that follow.                                                            *)
LEMMA Renumber ==
    ASSUME TypeOK, Numbering, NEW e \in 0..FragNb, lastRx <= e, NEW m,
           \A i \in Rows : i < lastRx => m[i] = missing[i],
           \A i \in Rows : lastRx <= i /\ i < e => m[i] = lost + i - lastRx + 1
    PROVE  LET n == lost + (e - lastRx) IN
           /\ n \in 0..e
           /\ \A i \in Rows : i < e => m[i] \in 0..n
           /\ \A i, j \in Rows : i < e /\ j < e /\ m[i] # 0 /\ m[i] = m[j] => i = j
           /\ \A k \in 1..n : \E i \in Rows : i < e /\ m[i] = k
<1> USE FragDecoderAssumption
<1> DEFINE n == lost + (e - lastRx)
<1>1. lost \in Nat /\ lastRx \in Nat /\ lost <= lastRx /\ n \in 0..e /\ e \in Nat /\ lost <= n
  BY DEF TypeOK, Numbering
<1>2. \A i \in Rows : i \in Nat /\ i < FragNb
  BY DEF Rows
<1>3. ASSUME NEW i \in Rows, i < e
      PROVE  /\ m[i] \in 0..n
             /\ i < lastRx => m[i] = missing[i] /\ m[i] <= lost
             /\ i >= lastRx => m[i] = lost + i - lastRx + 1 /\ m[i] > lost
  <2>1. CASE i < lastRx
    <3>1. m[i] = missing[i] /\ missing[i] \in 0..FragNb /\ missing[i] <= lost
      BY <2>1 DEF TypeOK, Numbering
    <3> QED
      BY <1>1, <1>2, <2>1, <3>1
  <2>2. CASE ~(i < lastRx)
    BY <1>1, <1>2, <1>3, <2>2
  <2> QED
    BY <2>1, <2>2
<1>4. ASSUME NEW i \in Rows, NEW j \in Rows, i < e, j < e, m[i] # 0, m[i] = m[j]
      PROVE  i = j
  <2>1. CASE i < lastRx
    <3>1. j < lastRx
      BY <1>1, <1>2, <1>3, <1>4, <2>1
    <3> QED
      BY <1>3, <1>4, <2>1, <3>1 DEF Numbering
  <2>2. CASE ~(i < lastRx)
    <3>1. ~(j < lastRx)
      BY <1>1, <1>2, <1>3, <1>4, <2>2
    <3>2. m[i] = lost + i - lastRx + 1 /\ m[j] = lost + j - lastRx + 1
      BY <1>1, <1>2, <1>4, <2>2, <3>1
    <3>3. lost + i - lastRx + 1 = lost + j - lastRx + 1
      BY <1>4, <3>2
    <3> QED
      BY <1>1, <1>2, <3>3
  <2> QED
    BY <2>1, <2>2
<1>5. ASSUME NEW k \in 1..n
      PROVE  \E i \in Rows : i < e /\ m[i] = k
  <2>1. CASE k <= lost
    <3>1. PICK i \in Rows : i < lastRx /\ missing[i] = k
      BY <1>1, <2>1 DEF Numbering
    <3> QED
      BY <1>1, <1>2, <3>1
  <2>2. CASE k > lost
    <3>1. k - lost - 1 + lastRx \in Rows /\ k - lost - 1 + lastRx < e /\ lastRx <= k - lost - 1 + lastRx
      BY <1>1, <2>2 DEF Rows
    <3>2. m[k - lost - 1 + lastRx] = lost + (k - lost - 1 + lastRx) - lastRx + 1
      BY <3>1
    <3>3. m[k - lost - 1 + lastRx] = k
      BY <1>1, <3>2
    <3> QED
      BY <3>1, <3>3
  <2> QED
    BY <1>1, <2>1, <2>2
<1> QED
  BY <1>1, <1>3, <1>4, <1>5

(* The gap before a fragment, as an interval.                              *)
LEMMA GapIs ==
    ASSUME lastRx \in Nat, NEW c \in Nat, NEW e \in 0..FragNb,
           e = IF c - 1 < FragNb THEN c - 1 ELSE FragNb
    PROVE  /\ lastRx <= e => Gap(c) = lastRx..(e - 1) /\ Cardinality(Gap(c)) = e - lastRx
           /\ lastRx > e => Gap(c) = {} /\ Cardinality(Gap(c)) = 0
<1> USE FragDecoderAssumption
<1>1. ASSUME lastRx <= e
      PROVE  Gap(c) = lastRx..(e - 1) /\ Cardinality(Gap(c)) = e - lastRx
  <2>1. \A i : i \in Gap(c) <=> i \in lastRx..(e - 1)
    BY <1>1 DEF Gap, Rows
  <2>2. Gap(c) = lastRx..(e - 1)
    BY <2>1
  <2>3. CASE lastRx = e
    <3>1. Gap(c) = {}
      BY <2>2, <2>3
    <3>2. Cardinality(Gap(c)) = 0 /\ e - lastRx = 0
      BY <2>3, <3>1, FS_EmptySet
    <3> QED
      BY <2>2, <3>2
  <2>4. CASE lastRx < e
    <3>1. Cardinality(lastRx..(e - 1)) = e - 1 - lastRx + 1
      BY <2>4, FS_Interval
    <3> QED
      BY <2>2, <2>4, <3>1
  <2> QED
    BY <1>1, <2>3, <2>4
<1>2. ASSUME lastRx > e
      PROVE  Gap(c) = {} /\ Cardinality(Gap(c)) = 0
  <2>1. Gap(c) = {}
    BY <1>2 DEF Gap, Rows
  <2> QED
    BY <2>1, FS_EmptySet
<1> QED
  BY <1>1, <1>2

(* A fragment of the file.                                                 *)
LEMMA InvUncoded ==
    ASSUME TypeOK, Received, Numbering, Matrix, pc = "idle", status = ONGOING,
           NEW c \in 1..FragNb, Uncoded(c)
    PROVE  /\ file' \in [Rows -> SUBSET (0..FragNb)] /\ missing' \in [Rows -> 0..FragNb]
           /\ lost' \in 0..FragNb /\ lastRx' \in 0..(FragNb + 1)
           /\ Received' /\ Numbering' /\ s = {}
<1> USE FragDecoderAssumption
<1>1. /\ file' = [file EXCEPT ![c - 1] = {c - 1}]
      /\ missing' = Numbered(c, [missing EXCEPT ![c - 1] = 0])
      /\ lost' = LostBy(c) /\ lastRx' = LastRxBy(c) /\ c >= lastRx /\ s' = s
  BY DEF Uncoded
<1>2. /\ lastRx \in Nat /\ c \in Nat /\ lost \in 0..FragNb /\ c - 1 \in Rows
      /\ c - 1 = IF c - 1 < FragNb THEN c - 1 ELSE FragNb
      /\ c - 1 \in 0..FragNb
  BY DEF TypeOK, Rows
<1>3. \A i \in Rows : i \in Nat /\ i < FragNb
  BY DEF Rows
<1>4. s = {}
  <2>1. ~AllSent
    BY <1>1, <1>2 DEF AllSent
  <2> QED
    BY <2>1 DEF Matrix
<1>5. \A i \in Rows : missing'[i] = IF i \in Gap(c) THEN lost + i - lastRx + 1
                                    ELSE IF i = c - 1 THEN 0 ELSE missing[i]
  BY <1>1, <1>2 DEF Numbered, TypeOK
<1>6. Received' /\ file' \in [Rows -> SUBSET (0..FragNb)]
  <2>1. \A i \in Rows : missing'[i] = 0 => i = c - 1 \/ missing[i] = 0
    BY <1>2, <1>3, <1>5 DEF Gap
  <2>2. {c - 1} \in SUBSET (0..FragNb)
    BY <1>2
  <2>3. \A i \in Rows : file'[i] = IF i = c - 1 THEN {c - 1} ELSE file[i]
    BY <1>1, <1>2 DEF TypeOK
  <2>4. file' \in [Rows -> SUBSET (0..FragNb)]
    BY <1>1, <1>2, <2>2 DEF TypeOK
  <2> QED
    BY <2>1, <2>3, <2>4 DEF Received
<1>7. CASE lastRx = c
  <2>1. c - 1 < lastRx /\ Gap(c) = {} /\ Cardinality(Gap(c)) = 0
    BY <1>2, <1>7, GapIs
  <2>2. \A i \in Rows : missing'[i] = missing[i]
    BY <1>2, <1>5, <1>7, <2>1 DEF Numbering
  <2>3. missing' \in [Rows -> 0..FragNb] /\ lost' = lost
    <3>1. missing' = [i \in Rows |-> missing'[i]]
      BY <1>1 DEF Numbered
    <3>2. lost' = lost
      BY <1>1, <1>2, <2>1 DEF LostBy
    <3> QED
      BY <2>2, <3>1, <3>2 DEF TypeOK
  <2>4. lastRx' = c \/ (c = FragNb /\ lastRx' = FragNb + 1)
    BY <1>1, <1>2, <1>7 DEF LastRxBy
  <2>5. \A i \in Rows : i < lastRx' <=> i < lastRx
    BY <1>2, <1>3, <1>7, <2>4
  <2>6. lost <= lastRx'
    BY <1>2, <1>7, <2>4 DEF Numbering
  <2>7. \A i \in Rows : i = lastRx' - 1 /\ lastRx' <= FragNb => missing[i] = 0
    BY <1>2, <1>3, <1>7, <2>4 DEF Numbering
  <2>8. Numbering'
    BY <2>2, <2>3, <2>5, <2>6, <2>7 DEF Numbering
  <2> QED
    BY <1>2, <1>4, <1>6, <2>3, <2>4, <2>8
<1>8. CASE lastRx # c
  <2> DEFINE n == lost + (c - 1 - lastRx)
  <2>1. /\ lastRx <= c - 1 /\ Gap(c) = lastRx..(c - 1 - 1)
        /\ Cardinality(Gap(c)) = c - 1 - lastRx /\ lastRx' = c
    BY <1>1, <1>2, <1>8, GapIs DEF LastRxBy
  <2>2. lost' = n
    BY <1>1, <2>1 DEF LostBy
  <2>3. /\ \A i \in Rows : i < lastRx => missing'[i] = missing[i]
        /\ \A i \in Rows : lastRx <= i /\ i < c - 1 => missing'[i] = lost + i - lastRx + 1
        /\ missing'[c - 1] = 0
    BY <1>2, <1>3, <1>5, <2>1
  <2>4. /\ n \in 0..(c - 1)
        /\ \A i \in Rows : i < c - 1 => missing'[i] \in 0..n
        /\ \A i, j \in Rows :
            i < c - 1 /\ j < c - 1 /\ missing'[i] # 0 /\ missing'[i] = missing'[j] => i = j
        /\ \A k \in 1..n : \E i \in Rows : i < c - 1 /\ missing'[i] = k
    <3> HIDE DEF n
    <3>1. /\ lost + (c - 1 - lastRx) \in 0..(c - 1)
          /\ \A i \in Rows : i < c - 1 => missing'[i] \in 0..(lost + (c - 1 - lastRx))
          /\ \A i, j \in Rows :
              i < c - 1 /\ j < c - 1 /\ missing'[i] # 0 /\ missing'[i] = missing'[j] => i = j
          /\ \A k \in 1..(lost + (c - 1 - lastRx)) : \E i \in Rows : i < c - 1 /\ missing'[i] = k
      BY <1>2, <2>1, <2>3, Renumber, SMTT(60)
    <3> QED
      BY <3>1 DEF n
  <2> HIDE DEF n
  <2>5. \A i \in Rows : i < c <=> i < c - 1 \/ i = c - 1
    BY <1>2, <1>3
  <2>6. missing' \in [Rows -> 0..FragNb]
    <3>1. \A i \in Rows : missing'[i] \in 0..FragNb
      <4>1. \A i \in Rows : i < c - 1 \/ i = c - 1 \/ missing'[i] = missing[i]
        BY <1>2, <1>3, <1>5, <2>1
      <4> QED
        BY <1>2, <2>3, <2>4, <4>1 DEF TypeOK
    <3> QED
      BY <1>1, <3>1 DEF Numbered
  <2>7. Numbering'
    <3>1. lost' <= lastRx' /\ lost' <= FragNb
      BY <1>2, <2>1, <2>2, <2>4
    <3>2. \A i \in Rows : i < lastRx' => missing'[i] <= lost'
      BY <1>2, <2>1, <2>2, <2>3, <2>4, <2>5
    <3>3. \A i, j \in Rows : i < lastRx' /\ j < lastRx' /\ missing'[i] # 0
                /\ missing'[i] = missing'[j] => i = j
      BY <2>1, <2>3, <2>4, <2>5
    <3>4. \A k \in 1..lost' : \E i \in Rows : i < lastRx' /\ missing'[i] = k
      BY <2>1, <2>2, <2>4, <2>5
    <3>5. \A i \in Rows : i = lastRx' - 1 /\ lastRx' <= FragNb => missing'[i] = 0
      BY <2>1, <2>3
    <3> QED
      BY <3>1, <3>2, <3>3, <3>4, <3>5 DEF Numbering
  <2> QED
    BY <1>2, <1>4, <1>6, <2>1, <2>2, <2>4, <2>6, <2>7
<1> QED
  BY <1>7, <1>8

(* A parity row names fragments of the file.                               *)
LEMMA ParityRows ==
    ASSUME NEW c \in Coded
    PROVE  Parity(c) \in SUBSET Rows
<1> USE FragDecoderAssumption
<1>1. c - FragNb \in 1..MaxCoded
  BY DEF Coded
<1>2. Parity(c) = FragGetParityMatrixRow(c - FragNb)
  BY <1>1 DEF Parity, ParityMatrix
<1>3. \A n : FragGetParityMatrixRow(n) \in SUBSET Rows
  BY DEF FragGetParityMatrixRow
<1> QED
  BY <1>2, <1>3

(* Numbers of missing fragments are columns of the matrix.                 *)
LEMMA ColumnsFit ==
    ASSUME NEW n \in Int, n <= FragNb, FragNb \in Int
    PROVE  0..(n - 1) \subseteq Rows
BY DEF Rows

(* The losses a coded fragment makes known, at the end of the file.        *)
LEMMA CodedNumbers ==
    ASSUME TypeOK, Received, Numbering, Matrix, pc = "idle", status = ONGOING,
           NEW c \in Coded, Redundant(c)
    PROVE  /\ missing' \in [Rows -> 0..FragNb] /\ lost' \in 0..FragNb
           /\ lastRx' = FragNb + 1 /\ Numbering'
           /\ \A i \in Rows : missing'[i] = 0 => missing[i] = 0
           /\ s = {} \/ (missing' = missing /\ lost' = lost /\ AllSent)
<1> USE FragDecoderAssumption
<1>1. missing' = Numbered(c, missing) /\ lost' = LostBy(c) /\ lastRx' = LastRxBy(c) /\ s' = s
  BY DEF Redundant
<1>2. /\ lastRx \in 0..(FragNb + 1) /\ lost \in 0..FragNb /\ c \in Nat /\ c > FragNb
      /\ FragNb = IF c - 1 < FragNb THEN c - 1 ELSE FragNb
      /\ FragNb \in 0..FragNb
  BY DEF TypeOK, Coded
<1>3. lastRx' = FragNb + 1
  BY <1>1, <1>2 DEF LastRxBy
<1>4. \A i \in Rows : i \in Nat /\ i < FragNb
  BY DEF Rows
<1>5. \A i \in Rows : missing'[i] = IF i \in Gap(c) THEN lost + i - lastRx + 1 ELSE missing[i]
  BY <1>1 DEF Numbered
<1>6. missing' = [i \in Rows |-> missing'[i]]
  BY <1>1 DEF Numbered
<1>7. \A i \in Rows : missing'[i] = 0 => missing[i] = 0
  BY <1>2, <1>4, <1>5 DEF Gap
<1>8. CASE lastRx = FragNb + 1
  <2>1. Gap(c) = {} /\ Cardinality(Gap(c)) = 0
    BY <1>2, <1>8, GapIs
  <2>2. missing' = missing /\ lost' = lost
    <3>1. lost' = lost
      BY <1>1, <1>2, <2>1 DEF LostBy
    <3> QED
      BY <1>5, <1>6, <2>1, <3>1 DEF TypeOK
  <2>3. Numbering'
    BY <1>3, <1>8, <2>2 DEF Numbering
  <2> QED
    BY <1>2, <1>3, <1>7, <1>8, <2>2, <2>3 DEF TypeOK, AllSent
<1>9. CASE lastRx # FragNb + 1
  <2> DEFINE n == lost + (FragNb - lastRx)
  <2>1. s = {}
    <3>1. ~AllSent
      BY <1>9 DEF AllSent
    <3> QED
      BY <3>1 DEF Matrix
  <2>2. /\ lastRx <= FragNb /\ Gap(c) = lastRx..(FragNb - 1)
        /\ Cardinality(Gap(c)) = FragNb - lastRx
    BY <1>2, <1>9, GapIs
  <2>3. lost' = n
    BY <1>1, <2>2 DEF LostBy
  <2>4. /\ \A i \in Rows : i < lastRx => missing'[i] = missing[i]
        /\ \A i \in Rows : lastRx <= i /\ i < FragNb => missing'[i] = lost + i - lastRx + 1
    BY <1>2, <1>4, <1>5, <2>2
  <2>5. /\ n \in 0..FragNb
        /\ \A i \in Rows : missing'[i] \in 0..n
        /\ \A i, j \in Rows : missing'[i] # 0 /\ missing'[i] = missing'[j] => i = j
        /\ \A k \in 1..n : \E i \in Rows : missing'[i] = k
    <3> HIDE DEF n
    <3>1. /\ lost + (FragNb - lastRx) \in 0..FragNb
          /\ \A i \in Rows : i < FragNb => missing'[i] \in 0..(lost + (FragNb - lastRx))
          /\ \A i, j \in Rows :
              i < FragNb /\ j < FragNb /\ missing'[i] # 0 /\ missing'[i] = missing'[j] => i = j
          /\ \A k \in 1..(lost + (FragNb - lastRx)) : \E i \in Rows : i < FragNb /\ missing'[i] = k
      BY <1>2, <2>2, <2>4, Renumber
    <3> QED
      BY <1>4, <3>1 DEF n
  <2> HIDE DEF n
  <2>6. missing' \in [Rows -> 0..FragNb]
    <3>1. \A i \in Rows : missing'[i] \in 0..FragNb
      BY <2>5
    <3> QED
      BY <1>6, <3>1
  <2>7. Numbering'
    <3>1. \A i \in Rows : (i < lastRx' /\ i # lastRx' - 1) \/ ~(lastRx' <= FragNb)
      BY <1>3, <1>4
    <3>2. lost' <= lastRx' /\ lost' <= FragNb
      BY <1>3, <2>3, <2>5
    <3>3. \A k \in 1..lost' : \E i \in Rows : i < lastRx' /\ missing'[i] = k
      BY <1>3, <1>4, <2>3, <2>5
    <3>4. \A i \in Rows : missing'[i] <= lost'
      BY <2>3, <2>5
    <3>5. ~(lastRx' <= FragNb)
      BY <1>3
    <3> QED
      BY <2>5, <3>2, <3>3, <3>4, <3>5 DEF Numbering
  <2> QED
    BY <1>2, <1>3, <1>7, <2>1, <2>3, <2>5, <2>6, <2>7
<1> QED
  BY <1>8, <1>9

(* A coded fragment, up to the loop.                                       *)
LEMMA InvRedundant ==
    ASSUME TypeOK, Received, Numbering, Matrix, Places, pc = "idle", status = ONGOING,
           sessions # 0, NEW c \in Coded, Redundant(c),
           heard' \subseteq 1..FragNb \cup Coded, late' \subseteq heard',
           isActive' = isActive, sessions' = sessions
    PROVE  IInv'
<1> USE FragDecoderAssumption
<1> DEFINE known == {i \in Parity(c) : missing'[i] = 0}
           others == Parity(c) \ known
           unknown == {missing'[i] - 1 : i \in others}
<1>1. /\ missing' \in [Rows -> 0..FragNb] /\ lost' \in 0..FragNb
      /\ lastRx' = FragNb + 1 /\ Numbering'
      /\ \A i \in Rows : missing'[i] = 0 => missing[i] = 0
      /\ s = {} \/ (missing' = missing /\ lost' = lost /\ AllSent)
  BY CodedNumbers
<1>2. /\ UNCHANGED <<file, m2b, s, lines, row>>
      /\ IF lost' = 0
         THEN status' = FINISHED /\ pc' = pc /\ rawData' = rawData /\ vector' = vector
         ELSE /\ rawData' = Xor(Parity(c), XorOfRows(known))
              /\ vector' = unknown
              /\ pc' = IF unknown = {} THEN "idle" ELSE "eliminate"
              /\ status' = status
  BY DEF Redundant
<1>3. Parity(c) \in SUBSET Rows
  BY ParityRows
<1>4. Xor(Parity(c), XorOfRows(known)) = others
  <2>1. known \in SUBSET Rows /\ \A i \in known : file[i] = {i}
    BY <1>1, <1>3 DEF Received
  <2> HIDE DEF known
  <2>2. XorOfRows(known) = known
    BY <2>1, XorOfOwn
  <2>3. Xor(Parity(c), known) = others
    BY DEF Xor, known
  <2> QED
    BY <2>2, <2>3
<1>5. Numbers(missing', lost')
  <2>1. \A i \in Rows : i < lastRx'
    BY <1>1 DEF Rows
  <2> QED
    BY <1>1, <2>1 DEF Numbering, Numbers
<1>6. \A i \in others : /\ i \in Rows
                        /\ missing'[i] - 1 \in 0..(lost' - 1)
                        /\ PlaceIn(missing', missing'[i] - 1) = i
  <2>1. \A i \in others : i \in Rows /\ missing'[i] # 0
    BY <1>3
  <2>2. lost' \in Nat
    BY <1>1
  <2> HIDE DEF others
  <2> QED
    BY <1>5, <2>1, <2>2, PlaceOf
<1> HIDE DEF others, known
<1>7. /\ unknown \subseteq 0..(lost' - 1)
      /\ {PlaceIn(missing', l) : l \in unknown} = others
  BY <1>6
<1> HIDE DEF unknown
<1>8. \A k \in s' : Stored(k)'
  <2>1. CASE s = {}
    BY <1>2, <2>1
  <2>2. CASE missing' = missing /\ lost' = lost /\ AllSent
    <3>1. \A k \in s : Stored(k)
      BY DEF Places
    <3>2. \A k : Stored(k)' <=> Stored(k)
      BY <1>2, <2>2 DEF Stored, Fragments, FragFindMissingIndex, FragExtractLineFromBinaryMatrix
    <3> QED
      BY <1>2, <3>1, <3>2
  <2> QED
    BY <1>1, <2>1, <2>2
<1>9. Received'
  BY <1>1, <1>2 DEF Received
<1>10. s' \subseteq 0..(lost' - 1)
  BY <1>1, <1>2 DEF Matrix
<1>11. Matrix'
  BY <1>1, <1>2, <1>10 DEF Matrix, AllSent
<1>12. CASE lost' = 0
  <2>1. status' = FINISHED /\ pc' = "idle" /\ rawData' = rawData /\ vector' = vector
    BY <1>2, <1>12
  <2>2. TypeOK'
    BY <1>1, <1>2, <2>1 DEF TypeOK, FINISHED
  <2>3. Places'
    BY <2>1 DEF Places, FINISHED, ONGOING
  <2> QED
    BY <1>1, <1>9, <1>11, <2>2, <2>3 DEF IInv
<1>13. CASE lost' # 0
  <2>1. /\ rawData' = others /\ vector' = unknown /\ status' = ONGOING
        /\ pc' = IF unknown = {} THEN "idle" ELSE "eliminate"
    BY <1>2, <1>4, <1>13
  <2>2. others \subseteq 0..FragNb /\ unknown \subseteq Rows
    <3>1. others \subseteq Rows /\ Rows \subseteq 0..FragNb
      BY <1>6 DEF Rows
    <3>2. 0..(lost' - 1) \subseteq Rows
      <4>1. lost' \in Int /\ lost' <= FragNb /\ FragNb \in Int
        BY <1>1
      <4> QED
        BY <4>1, ColumnsFit
    <3> QED
      BY <1>7, <3>1, <3>2
  <2>3. TypeOK'
    BY <1>1, <1>2, <2>1, <2>2 DEF TypeOK, ONGOING
  <2>4. rawData' = Fragments(vector)'
    <3>1. \A l : FragFindMissingIndex(l)' = PlaceIn(missing', l)
      BY DEF FragFindMissingIndex, PlaceIn
    <3>2. Fragments(vector)' = {PlaceIn(missing', l) : l \in vector'}
      BY <3>1 DEF Fragments
    <3> QED
      BY <1>7, <2>1, <3>2
  <2>5. Places'
    BY <1>7, <1>8, <2>1, <2>4 DEF Places, ONGOING
  <2> QED
    BY <1>1, <1>9, <1>11, <2>3, <2>5 DEF IInv
<1> QED
  BY <1>12, <1>13

(* A data fragment, whatever the decoder does with it.                     *)
LEMMA InvFragment ==
    ASSUME IInv, NEW c \in 1..FragNb \cup Coded, DataFragment(c)
    PROVE  IInv'
<1> USE FragDecoderAssumption
<1>1. /\ TypeOK /\ pc = "idle" /\ isActive' = isActive /\ sessions' = sessions
      /\ heard' \subseteq 1..FragNb \cup Coded /\ late' \subseteq heard'
  BY DEF IInv, TypeOK, DataFragment, Observed
<1>2. CASE status # ONGOING
  <2>1. /\ status' = IF status >= 0 THEN NOT_STARTED ELSE status
        /\ UNCHANGED <<decoderVars, loopVars, pc>>
    BY <1>2 DEF DataFragment, OnDone
  <2>2. status' \in {status, NOT_STARTED} /\ status' # ONGOING /\ status' < 0
    BY <1>1, <1>2, <2>1 DEF TypeOK, NOT_STARTED, ONGOING
  <2>3. TypeOK'
    BY <1>1, <2>1, <2>2 DEF TypeOK, NOT_STARTED, decoderVars, loopVars
  <2>4. CASE sessions = 0
    <3>1. Unused
      BY <2>4 DEF IInv
    <3> QED
      BY <1>1, <2>1, <2>2, <2>3, <2>4, <3>1 DEF IInv, Unused
  <2>5. CASE sessions # 0
    <3>1. Received' /\ Numbering'
      BY <2>1, <2>5 DEF IInv, Received, Numbering, decoderVars
    <3>2. Matrix'
      BY <1>1, <2>1, <2>2, <2>5 DEF IInv, Matrix, AllSent, decoderVars, NOT_STARTED, FINISHED
    <3>3. Places'
      <4>1. ~(status' > 0) /\ pc' = "idle" /\ status' # ONGOING
        BY <1>1, <2>1, <2>2, <2>3 DEF TypeOK
      <4> QED
        BY <4>1 DEF Places
    <3> QED
      BY <1>1, <2>3, <2>5, <3>1, <3>2, <3>3 DEF IInv
  <2> QED
    BY <2>4, <2>5
<1>3. CASE status = ONGOING
  <2>1. /\ sessions # 0 /\ Received /\ Numbering /\ Matrix /\ Places
        /\ FragDecoderProcess(c)
    BY <1>3 DEF IInv, Unused, DataFragment, ONGOING, FINISHED, NOT_STARTED
  <2>2. CASE Dropped(c)
    <3>1. UNCHANGED <<decoderVars, loopVars, status, pc>>
      BY <2>2 DEF Dropped
    <3>2. TypeOK'
      BY <1>1, <3>1 DEF TypeOK, decoderVars, loopVars
    <3>3. Received' /\ Numbering' /\ Matrix'
      BY <2>1, <3>1 DEF Received, Numbering, Matrix, AllSent, decoderVars
    <3>4. Places'
      BY <2>1, <3>1 DEF Places, Stored, Reduced, Fragments, FragFindMissingIndex,
            FragExtractLineFromBinaryMatrix, decoderVars, loopVars
    <3> QED
      BY <1>1, <2>1, <3>2, <3>3, <3>4 DEF IInv
  <2>3. CASE Uncoded(c)
    <3>1. c \in 1..FragNb
      BY <2>3 DEF Uncoded, Coded
    <3>2. /\ file' \in [Rows -> SUBSET (0..FragNb)] /\ missing' \in [Rows -> 0..FragNb]
          /\ lost' \in 0..FragNb /\ lastRx' \in 0..(FragNb + 1)
          /\ Received' /\ Numbering' /\ s = {}
      BY <1>1, <1>3, <2>1, <2>3, <3>1, InvUncoded
    <3>3. UNCHANGED <<m2b, s, lines, loopVars, status, pc>>
      BY <2>3 DEF Uncoded
    <3>4. TypeOK'
      BY <1>1, <3>2, <3>3 DEF TypeOK, loopVars
    <3>5. Matrix'
      <4>1. /\ s' = {} /\ pc' = "idle" /\ status' = -1 /\ m2b' = m2b
            /\ lines' = Cardinality(s') /\ \A k \in Rows : m2b[k] = Rows
        BY <1>1, <1>3, <2>1, <3>2, <3>3 DEF Matrix, ONGOING
      <4> QED
        BY <4>1 DEF Matrix, FINISHED
    <3>6. Places'
      BY <1>1, <1>3, <3>2, <3>3 DEF Places, ONGOING
    <3> QED
      BY <1>1, <2>1, <3>2, <3>4, <3>5, <3>6 DEF IInv
  <2>4. CASE TooManyLost(c)
    <3>1. status' = FINISHED /\ lost # 0 /\ UNCHANGED <<decoderVars, loopVars, pc>>
      BY <1>1, <2>4 DEF TooManyLost, TypeOK
    <3>2. TypeOK'
      BY <1>1, <3>1 DEF TypeOK, decoderVars, loopVars, FINISHED
    <3>3. Received' /\ Numbering'
      BY <2>1, <3>1 DEF Received, Numbering, decoderVars
    <3>4. Matrix'
      BY <1>1, <2>1, <3>1 DEF Matrix, AllSent, decoderVars, FINISHED
    <3>5. Places'
      BY <1>1, <3>1 DEF Places, ONGOING, FINISHED
    <3> QED
      BY <1>1, <2>1, <3>2, <3>3, <3>4, <3>5 DEF IInv
  <2>5. CASE Redundant(c)
    <3>1. c \in Coded
      BY <2>5 DEF Redundant, Coded
    <3> QED
      BY <1>1, <1>3, <2>1, <2>5, <3>1, InvRedundant
  <2>6. CASE Overflow(c)
    <3>1. pc' = "overflow" /\ UNCHANGED <<decoderVars, loopVars, status>>
      BY <2>6 DEF Overflow
    <3>2. TypeOK'
      BY <1>1, <3>1 DEF TypeOK, decoderVars, loopVars
    <3>3. Received' /\ Numbering' /\ Matrix'
      BY <2>1, <3>1 DEF Received, Numbering, Matrix, AllSent, decoderVars
    <3>4. Places'
      BY <1>1, <1>3, <2>1, <3>1 DEF Places, Stored, Reduced, Fragments, FragFindMissingIndex,
            FragExtractLineFromBinaryMatrix, decoderVars, loopVars, ONGOING
    <3> QED
      BY <1>1, <2>1, <3>2, <3>3, <3>4 DEF IInv
  <2> QED
    BY <2>1, <2>2, <2>3, <2>4, <2>5, <2>6 DEF FragDecoderProcess
<1> QED
  BY <1>2, <1>3

(* Nothing happens.                                                        *)
LEMMA InvStutter ==
    ASSUME IInv, UNCHANGED vars
    PROVE  IInv'
<1> USE DEF vars, decoderVars, loopVars
<1>1. TypeOK' <=> TypeOK
  BY DEF TypeOK
<1>2. /\ Unused' <=> Unused
      /\ Received' <=> Received
      /\ Numbering' <=> Numbering
      /\ Matrix' <=> Matrix
  BY DEF Unused, Received, Numbering, Matrix, AllSent
<1>3. Places' <=> Places
  BY DEF Places, Stored, Reduced, Fragments, FragFindMissingIndex, FragExtractLineFromBinaryMatrix
<1> QED
  BY <1>1, <1>2, <1>3 DEF IInv

-----------------------------------------------------------------------------
(* The invariant holds throughout, for a file of any length, any           *)
(* redundancy, any bounds and any losses, repetitions and sessions.        *)
THEOREM Inv == Spec => []IInv
<1>1. Init => IInv
  <2> SUFFICES ASSUME Init PROVE IInv
    OBVIOUS
  <2>1. 0 \in Rows
    BY FragDecoderAssumption DEF Rows
  <2>2. TypeOK
    <3>1. /\ file \in [Rows -> SUBSET (0..FragNb)] /\ missing \in [Rows -> 0..FragNb]
          /\ m2b \in [Rows -> SUBSET Rows]
      BY FragDecoderAssumption DEF Init
    <3>2. /\ lost = 0 /\ lastRx = 0 /\ s = {} /\ lines = 0 /\ isActive = FALSE
          /\ status = 0 /\ pc = "idle" /\ rawData = {} /\ vector = {} /\ row = 0
          /\ heard = {} /\ late = {} /\ sessions = 0
      BY DEF Init, FINISHED
    <3>3. /\ lost \in 0..FragNb /\ lastRx \in 0..(FragNb + 1) /\ lines \in 0..FragNb
          /\ status \in -2..FragNb /\ sessions \in 0..MaxSessions
      BY <3>2, FragDecoderAssumption
    <3>4. /\ s \subseteq Rows /\ isActive \in BOOLEAN /\ pc \in {"idle", "eliminate", "back", "overflow"}
          /\ rawData \subseteq 0..FragNb /\ vector \subseteq Rows /\ row \in Rows
          /\ heard \subseteq 1..FragNb \cup Coded /\ late \subseteq heard
      BY <2>1, <3>2
    <3> QED
      BY <3>1, <3>3, <3>4 DEF TypeOK
  <2> QED
    BY <2>2 DEF Init, IInv, Unused
<1>2. IInv /\ [Next]_vars => IInv'
  <2> SUFFICES ASSUME IInv, [Next]_vars PROVE IInv'
    OBVIOUS
  <2> QED
    BY InvSetup, InvDelete, InvFragment, InvEliminate, InvPush, InvBackSubstitute,
       InvStutter DEF Next
<1> QED
  BY <1>1, <1>2, PTL DEF Spec

(* The triangle of a matrix of n rows lies within MatrixM2B if n bits lie  *)
(* within the vector.                                                      *)
LEMMA TriangleFits ==
    ASSUME NEW n \in Nat, n <= VectorBits
    PROVE  n * (n + 1) <= 2 * VectorBits * FRAG_MAX_REDUNDANCY
<1> USE FragDecoderAssumption
<1> DEFINE v == VectorBits
           r == FRAG_MAX_REDUNDANCY
<1>1. v \in Nat /\ r \in Nat
  BY DEF VectorBits
<1>2. n + 1 <= 2 * r
  BY <1>1, MatrixAssumption
<1> HIDE DEF v, r
<1>3. \A a, b, x, y \in Nat : a <= x /\ b <= y => a * b <= x * y
  <2> SUFFICES ASSUME NEW a \in Nat, NEW b \in Nat, NEW x \in Nat, NEW y \in Nat,
                      a <= x, b <= y
               PROVE  a * b <= x * y
    OBVIOUS
  <2>1. a * b <= a * y
    OBVIOUS
  <2>2. a * y <= x * y
    OBVIOUS
  <2>3. a * b \in Int /\ a * y \in Int /\ x * y \in Int
    OBVIOUS
  <2> QED
    BY <2>1, <2>2, <2>3
<1>4. n <= v
  BY DEF v
<1>5. n + 1 \in Nat /\ 2 * r \in Nat
  BY <1>1
<1>6. n * (n + 1) <= v * (2 * r)
  BY <1>1, <1>2, <1>3, <1>4, <1>5
<1>7. v * (2 * r) = 2 * v * r
  BY <1>1
<1> QED
  BY <1>6, <1>7 DEF v, r

(* Short of the overflow no row, column or bit in use lies beyond the end  *)
(* of its array.                                                           *)
THEOREM ArraysHold == Spec => []WithinArrays
<1> USE FragDecoderAssumption
<1>1. Init => WithinArrays
  BY DEF Init, WithinArrays
<1>2. IInv /\ WithinArrays /\ [Next]_vars => WithinArrays'
  <2> SUFFICES ASSUME IInv, WithinArrays, [Next]_vars PROVE WithinArrays'
    OBVIOUS
  <2> USE DEF WithinArrays
  <2>1. CASE FragSessionSetup
    BY <2>1 DEF FragSessionSetup, FragDecoderInit, loopVars
  <2>2. ASSUME NEW c \in 1..FragNb \cup Coded, DataFragment(c)
        PROVE  WithinArrays'
    <3>1. CASE UNCHANGED <<s, vector>> /\ pc' \notin {"eliminate", "back"}
      BY <3>1
    <3>2. CASE status = ONGOING /\ Redundant(c)
      <4>1. /\ TypeOK /\ Received /\ Numbering /\ Matrix /\ pc = "idle" /\ c \in Coded
        BY <2>2, <3>2 DEF IInv, Unused, DataFragment, Redundant, Coded, ONGOING, FINISHED,
              NOT_STARTED
      <4>2. missing' \in [Rows -> 0..FragNb] /\ lost' \in 0..FragNb /\ lost' <= VectorBits
        BY <3>2, <4>1, CodedNumbers DEF Redundant
      <4>3. lost' * (lost' + 1) <= 2 * VectorBits * FRAG_MAX_REDUNDANCY
        BY <4>2, TriangleFits
      <4>4. vector' \subseteq 0..(VectorBits - 1)
        <5>1. IInv'
          BY <2>2, InvFragment
        <5>2. CASE pc' = "eliminate"
          <6>1. vector' \subseteq 0..(lost' - 1)
            BY <5>1, <5>2, <4>1, <2>2 DEF IInv, Places, Unused
          <6> QED
            <7>1. \A i \in 0..(lost' - 1) : i \in 0..(VectorBits - 1)
              <8>1. VectorBits \in Nat
                BY DEF VectorBits
              <8>2. \A m, n \in Nat : m <= n => \A i \in 0..(m - 1) : i \in 0..(n - 1)
                OBVIOUS
              <8>3. lost' \in Nat /\ lost' <= VectorBits
                BY <4>2
              <8> QED
                BY <8>1, <8>2, <8>3
            <7> QED
              BY <6>1, <7>1
        <5>3. CASE pc' # "eliminate"
          <6>1. vector' = vector \/ vector' = {}
            BY <3>2, <5>3 DEF Redundant
          <6> QED
            BY <6>1
        <5> QED
          BY <5>2, <5>3
      <4>5. s' = s
        BY <3>2 DEF Redundant
      <4> QED
        BY <4>2, <4>3, <4>4, <4>5
    <3> QED
      BY <2>2, <3>1, <3>2 DEF DataFragment, OnDone, FragDecoderProcess, Dropped, Uncoded,
            TooManyLost, Overflow, decoderVars, loopVars
  <2>3. CASE Eliminate
    <3> DEFINE line == FragExtractLineFromBinaryMatrix(BitArrayFindFirstOne(vector))
    <3>1. lost \in Nat /\ lost <= VectorBits /\ pc = "eliminate" /\ VectorBits \in Nat
      BY <2>3 DEF Eliminate, IInv, TypeOK, VectorBits
    <3>2. line \subseteq 0..(lost - 1)
      <4>1. TypeOK /\ Matrix /\ pc = "eliminate"
        BY <2>3 DEF IInv, Eliminate, Unused
      <4>2. BitArrayFindFirstOne(vector) \in 0..(lost - 1)
        BY <2>3, <4>1 DEF Eliminate, Matrix
      <4> QED
        BY <4>1, <4>2, LineShape
    <3>3. vector' = Xor(vector, line) /\ UNCHANGED <<s, lost>>
      BY <2>3 DEF Eliminate
    <3> HIDE DEF line
    <3>4. vector' \subseteq 0..(VectorBits - 1)
      <4>1. \A i \in line : i \in 0..(VectorBits - 1)
        BY <3>1, <3>2
      <4> QED
        BY <3>3, <4>1 DEF Xor
    <3> QED
      BY <3>1, <3>3, <3>4
  <2>4. CASE FragPushLineToBinaryMatrix
    <3>1. vector # {} /\ vector \subseteq Nat
      <4>1. Places /\ pc = "eliminate"
        BY <2>4 DEF IInv, FragPushLineToBinaryMatrix, Unused
      <4> QED
        BY <4>1 DEF Places
    <3>2. BitArrayFindFirstOne(vector) \in vector
      BY <3>1, FirstOne
    <3> QED
      BY <2>4, <3>2 DEF FragPushLineToBinaryMatrix
  <2>5. CASE UNCHANGED <<s, vector, lost>> /\ (pc' = pc \/ pc' = "idle")
    BY <2>5
  <2> QED
    BY <2>1, <2>2, <2>3, <2>4, <2>5 DEF Next, FragSessionDelete, BackSubstitute, decoderVars,
          loopVars, vars
<1> QED
  BY <1>1, <1>2, Inv, PTL DEF Spec

(* Every variable keeps its type.                                          *)
THEOREM Types == Spec => []TypeOK
<1>1. IInv => TypeOK
  BY DEF IInv
<1> QED
  BY <1>1, Inv, PTL

(* A session that ended otherwise than by giving up has every fragment in  *)
(* its place.                                                              *)
THEOREM Complete == Spec => []FileComplete
<1>1. IInv => FileComplete
  <2> SUFFICES ASSUME IInv, isActive, pc = "idle", status >= 0, ~GivenUp, NEW i \in Rows
               PROVE  file[i] = {i}
    BY DEF FileComplete
  <2> USE FragDecoderAssumption
  <2>1. TypeOK /\ Received /\ Numbering /\ Matrix /\ Places
    BY DEF IInv, Unused
  <2>2. status > 0 \/ (status = FINISHED /\ lost = 0)
    BY <2>1 DEF TypeOK, GivenUp, FINISHED
  <2>3. AllSent
    BY <2>1, <2>2 DEF Matrix
  <2>4. CASE missing[i] = 0
    BY <2>1, <2>4 DEF Received
  <2>5. CASE missing[i] # 0
    <3>1. missing[i] - 1 \in 0..(lost - 1) /\ FragFindMissingIndex(missing[i] - 1) = i
      BY <2>1, <2>3, <2>5, Finds
    <3>2. lost # 0
      BY <2>1, <3>1 DEF TypeOK
    <3>3. Reduced(missing[i] - 1)
      BY <2>1, <2>2, <3>1, <3>2 DEF Places
    <3> QED
      BY <3>1, <3>3 DEF Reduced
  <2> QED
    BY <2>4, <2>5
<1> QED
  BY <1>1, Inv, PTL
-----------------------------------------------------------------------------
(* That a session ends in time is a matter of rank.  A change of the       *)
(* missing fragments that u numbers goes unseen if it changes no row of    *)
(* the matrix, that is if each meets u in an even number of columns.       *)
Odd(t) == Cardinality(t) % 2 = 1
Unseen(u) == \A k \in s : ~Odd(FragExtractLineFromBinaryMatrix(k) \cap u)

(* Every row the matrix lacks leaves a change unseen, which begins with    *)
(* that row; no induction is needed to find it, since it is kept.          *)
Slack ==
    \A j \in (0..(lost - 1)) \ s :
        \E u \in SUBSET (0..j) : u \ s = {j} /\ Unseen(u)

(* No coded fragment that arrived sees a change the matrix does not, nor   *)
(* does the one that is being reduced.                                     *)
Unknown(c) == {missing[i] - 1 : i \in {r \in Parity(c) : missing[r] # 0}}
CodedHeard == heard \cap Coded
Heard ==
    \A u \in SUBSET (0..(lost - 1)) :
        Unseen(u) /\ (pc = "eliminate" => ~Odd(vector \cap u)) =>
            \A c \in CodedHeard : ~Odd(Unknown(c) \cap u)

RankInv ==
    status = ONGOING /\ pc \in {"idle", "eliminate"} =>
        /\ CodedHeard # {} => AllSent /\ lost # 0
        /\ s = {} \/ lines < lost
        /\ Slack /\ Heard
-----------------------------------------------------------------------------
(* Parity of sums: a sum is odd if one of its parts is, and not both.      *)
LEMMA OddXor ==
    ASSUME NEW a, NEW b, IsFiniteSet(a), IsFiniteSet(b)
    PROVE  Odd(Xor(a, b)) <=> ~(Odd(a) <=> Odd(b))
<1>1. /\ IsFiniteSet(a \ b) /\ Cardinality(a \ b) = Cardinality(a) - Cardinality(a \cap b)
      /\ IsFiniteSet(b \ a) /\ Cardinality(b \ a) = Cardinality(b) - Cardinality(b \cap a)
  BY FS_Difference
<1>2. Cardinality(a \cap b) = Cardinality(b \cap a) /\ (a \ b) \cap (b \ a) = {}
  <2>1. a \cap b = b \cap a /\ (a \ b) \cap (b \ a) = {}
    OBVIOUS
  <2> QED
    BY <2>1, Zenon
<1>3. Cardinality(Xor(a, b)) = Cardinality(a \ b) + Cardinality(b \ a)
  <2>1. Cardinality(Xor(a, b))
          = Cardinality(a \ b) + Cardinality(b \ a) - Cardinality((a \ b) \cap (b \ a))
    BY <1>1, FS_Union DEF Xor
  <2>2. Cardinality((a \ b) \cap (b \ a)) = 0
    BY <1>2, FS_EmptySet
  <2>3. Cardinality(a \ b) \in Nat /\ Cardinality(b \ a) \in Nat
    BY <1>1, FS_CardinalityType
  <2> QED
    BY <2>1, <2>2, <2>3
<1>4. Cardinality(a) \in Nat /\ Cardinality(b) \in Nat /\ Cardinality(a \cap b) \in Nat
  BY FS_CardinalityType, FS_Intersection
<1>5. Cardinality(Xor(a, b)) = Cardinality(a) + Cardinality(b) - 2 * Cardinality(a \cap b)
  BY <1>1, <1>2, <1>3, <1>4
<1>6. \A x, y, z \in Nat : (x + y - 2 * z) % 2 = 1 <=> ~(x % 2 = 1 <=> y % 2 = 1)
  OBVIOUS
<1> QED
  BY <1>4, <1>5, <1>6 DEF Odd

(* The smallest sets, even and odd.                                        *)
LEMMA OddOnes ==
    /\ ~Odd({})
    /\ \A x : Odd({x})
<1>1. Cardinality({}) = 0 /\ \A x : Cardinality({x}) = 1
  BY FS_EmptySet, FS_Singleton
<1>2. 0 % 2 = 0 /\ 1 % 2 = 1
  OBVIOUS
<1> QED
  BY <1>1, <1>2 DEF Odd

(* Intersecting with a set of columns distributes over sums.               *)
LEMMA OddXorMeet ==
    ASSUME NEW n \in Int, NEW a \in SUBSET (0..n), NEW b \in SUBSET (0..n), NEW u
    PROVE  /\ Odd(Xor(a, b) \cap u) <=> ~(Odd(a \cap u) <=> Odd(b \cap u))
           /\ Odd(u \cap Xor(a, b)) <=> ~(Odd(u \cap a) <=> Odd(u \cap b))
<1>1. IsFiniteSet(0..n)
  BY FS_Interval
<1>2. IsFiniteSet(a) /\ IsFiniteSet(b)
  BY <1>1, FS_Subset
<1>3. /\ IsFiniteSet(a \cap u) /\ IsFiniteSet(b \cap u)
      /\ IsFiniteSet(u \cap a) /\ IsFiniteSet(u \cap b)
  BY <1>2, FS_Intersection
<1>4. Xor(a, b) \cap u = Xor(a \cap u, b \cap u) /\ u \cap Xor(a, b) = Xor(u \cap a, u \cap b)
  BY DEF Xor
<1> QED
  BY <1>3, <1>4, OddXor

-----------------------------------------------------------------------------
(* A new row k, whose first one is at k, is seen by the change that begins *)
(* with k; added to it, any other change it sees becomes one it does not.  *)
LEMMA SlackKept ==
    ASSUME TypeOK, Slack, NEW k \in (0..(lost - 1)) \ s, s \subseteq 0..(lost - 1),
           NEW line \in SUBSET (0..(lost - 1)), k \in line, \A l \in line : k <= l,
           NEW j \in (0..(lost - 1)) \ s, j # k
    PROVE  \E u \in SUBSET (0..j) : u \ (s \cup {k}) = {j} /\ Unseen(u) /\ ~Odd(line \cap u)
<1>1. lost \in Nat
  BY FragDecoderAssumption DEF TypeOK
<1>2. PICK u \in SUBSET (0..j) : u \ s = {j} /\ Unseen(u)
  BY DEF Slack
<1>3. PICK w \in SUBSET (0..k) : w \ s = {k} /\ Unseen(w)
  BY DEF Slack
<1>4. CASE ~Odd(line \cap u)
  BY <1>2, <1>4
<1>5. CASE Odd(line \cap u)
  <2>1. k <= j
    <3>1. line \cap u # {}
      BY <1>5, OddOnes
    <3>2. PICK i \in line \cap u : TRUE
      BY <3>1
    <3>3. k <= i /\ i <= j /\ i \in Int /\ k \in Int /\ j \in Int
      BY <1>1, <1>2, <3>2
    <3> QED
      BY <3>3
  <2>2. line \cap w = {k}
    <3>1. \A i \in line \cap w : i = k
      BY <1>1, <1>3
    <3>2. k \in w
      BY <1>3
    <3> QED
      BY <3>1, <3>2
  <2> DEFINE x == Xor(u, w)
  <2>3. u \in SUBSET (0..(lost - 1)) /\ w \in SUBSET (0..(lost - 1)) /\ lost - 1 \in Int
    BY <1>1, <1>2, <1>3
  <2>4. x \in SUBSET (0..j)
    BY <1>1, <1>2, <1>3, <2>1 DEF Xor
  <2>5. x \ (s \cup {k}) = {j}
    <3>1. \A i : i \in u /\ i \notin s <=> i = j
      BY <1>2
    <3>2. \A i : i \in w /\ i \notin s <=> i = k
      BY <1>3
    <3>3. \A i : i \in x /\ i \notin s /\ i # k <=> i = j
      BY <3>1, <3>2 DEF Xor
    <3> QED
      BY <3>3
  <2>6. Unseen(x)
    <3>1. \A i \in s : Odd(FragExtractLineFromBinaryMatrix(i) \cap Xor(u, w))
             <=> ~(Odd(FragExtractLineFromBinaryMatrix(i) \cap u)
                     <=> Odd(FragExtractLineFromBinaryMatrix(i) \cap w))
      BY <2>3, OddXorMeet
    <3> QED
      BY <1>2, <1>3, <3>1 DEF Unseen
  <2>7. ~Odd(line \cap x)
    <3>1. Odd(line \cap Xor(u, w)) <=> ~(Odd(line \cap u) <=> Odd(line \cap w))
      <4> HIDE DEF x
      <4> QED
        BY <2>3, OddXorMeet
    <3> QED
      BY <1>5, <2>2, <3>1, OddOnes
  <2> QED
    BY <2>4, <2>5, <2>6, <2>7
<1> QED
  BY <1>4, <1>5

-----------------------------------------------------------------------------
(* The parity rows never change, so the invariant looks ahead as it looks. *)
LEMMA ParityStays ==
    \A c : Parity(c)' = Parity(c)
BY DEF Parity, ParityMatrix, FragGetParityMatrixRow

(* What Heard says of the next state.                                      *)
LEMMA HeardNext ==
    /\ \A t : Odd(t)' <=> Odd(t)
    /\ Heard' <=>
        \A u \in SUBSET (0..(lost' - 1)) :
            Unseen(u)' /\ (pc' = "eliminate" => ~Odd(vector' \cap u)) =>
                \A c \in CodedHeard' : ~Odd(Unknown(c)' \cap u)
BY DEF Heard, Odd

(* Once every fragment was sent a coded one makes no more losses known.    *)
LEMMA AllSentStays ==
    ASSUME TypeOK, AllSent, NEW c \in Coded, Redundant(c)
    PROVE  missing' = missing /\ lost' = lost
<1> USE FragDecoderAssumption
<1>1. /\ missing' = Numbered(c, missing) /\ lost' = LostBy(c)
      /\ lost \in 0..FragNb /\ lastRx = FragNb + 1
  BY DEF Redundant, TypeOK, AllSent
<1>2. Gap(c) = {}
  BY <1>1 DEF Gap, Rows
<1>3. missing' = [i \in Rows |-> missing[i]]
  BY <1>1, <1>2 DEF Numbered
<1> QED
  BY <1>1, <1>2, <1>3, FS_EmptySet DEF TypeOK, LostBy

(* What sees none of these change keeps the invariant; before there are    *)
(* rows it holds by itself.                                                *)
LEMMA RankStays ==
    ASSUME RankInv, UNCHANGED <<missing, lost, lastRx, m2b, s, lines, status, pc, vector, CodedHeard>>
    PROVE  RankInv'
<1>1. /\ \A u : Unseen(u)' <=> Unseen(u)
      /\ \A c : Unknown(c)' = Unknown(c)
  BY ParityStays DEF Unseen, FragExtractLineFromBinaryMatrix, Unknown, Odd
<1>2. (Slack' <=> Slack) /\ (Heard' <=> Heard)
  BY <1>1, HeardNext DEF Slack, Heard
<1> QED
  BY <1>2 DEF RankInv, AllSent

(* Before there are rows and coded fragments the invariant holds.          *)
LEMMA RankAtFirst ==
    ASSUME TypeOK', s' = {}, CodedHeard' = {}
    PROVE  RankInv'
<1>1. Slack'
  <2> SUFFICES ASSUME NEW j \in 0..(lost' - 1)
               PROVE  \E u \in SUBSET (0..j) : u \ s' = {j} /\ Unseen(u)'
    BY DEF Slack
  <2>1. {j} \in SUBSET (0..j) /\ {j} \ s' = {j} /\ Unseen({j})'
    BY DEF Unseen, TypeOK
  <2> QED
    BY <2>1
<1>2. Heard'
  BY HeardNext
<1> QED
  BY <1>1, <1>2 DEF RankInv

(* The invariant, action by action.                                        *)
LEMMA RankEliminate ==
    ASSUME IInv, RankInv, Eliminate
    PROVE  RankInv'
<1> USE FragDecoderAssumption
<1> DEFINE k == BitArrayFindFirstOne(vector)
           line == FragExtractLineFromBinaryMatrix(k)
<1>1. /\ TypeOK /\ Numbering /\ Matrix /\ Places
      /\ pc = "eliminate" /\ status = ONGOING /\ AllSent
  BY DEF IInv, Unused, Eliminate, Places, Matrix
<1>2. /\ CodedHeard # {} => AllSent /\ lost # 0
      /\ s = {} \/ lines < lost
      /\ Slack /\ Heard
  BY <1>1 DEF RankInv
<1>3. vector # {} /\ vector \in SUBSET (0..(lost - 1)) /\ k \in s
  BY <1>1 DEF Places, Eliminate
<1>4. line \in SUBSET (0..(lost - 1))
  <2>1. k \in 0..(lost - 1)
    BY <1>1, <1>3 DEF Matrix
  <2> QED
    BY <1>1, <2>1, LineShape
<1>5. /\ vector' = Xor(vector, line)
      /\ UNCHANGED <<file, missing, lost, lastRx, m2b, s, lines, isActive, heard, late, sessions>>
      /\ IF vector' = {} THEN Completed ELSE UNCHANGED <<pc, row, status>>
  BY DEF Eliminate, Completed
<1> HIDE DEF k, line
<1>0. CodedHeard' = CodedHeard
  BY <1>5 DEF CodedHeard
<1>6. pc' = IF vector' = {} THEN "idle" ELSE "eliminate"
  <2>1. lines < lost
    BY <1>2, <1>3
  <2>2. lines \in Nat /\ lost \in Nat
    BY <1>1 DEF TypeOK
  <2> QED
    BY <1>1, <1>5, <2>1, <2>2 DEF Completed
<1>7. \A u : Unseen(u)' <=> Unseen(u)
  BY <1>5 DEF Unseen, FragExtractLineFromBinaryMatrix
<1>8. Slack'
  BY <1>2, <1>5, <1>7 DEF Slack
<1>9. Heard'
  <2> SUFFICES ASSUME NEW u \in SUBSET (0..(lost - 1)), Unseen(u),
                      pc' = "eliminate" => ~Odd(vector' \cap u)
               PROVE  \A c \in CodedHeard : ~Odd(Unknown(c) \cap u)
    <3>1. \A c : Unknown(c)' = Unknown(c)
      BY <1>5, ParityStays DEF Unknown
    <3> QED
      BY <1>0, <1>5, <1>7, <3>1, HeardNext
  <2>1. ~Odd(vector' \cap u)
    BY <1>6, OddOnes
  <2>2. ~Odd(line \cap u)
    BY <1>3 DEF Unseen, line
  <2>3. Odd(Xor(vector, line) \cap u) <=> ~(Odd(vector \cap u) <=> Odd(line \cap u))
    <3>1. lost - 1 \in Int
      BY <1>1 DEF TypeOK
    <3> QED
      BY <1>3, <1>4, <3>1, OddXorMeet
  <2>4. ~Odd(vector \cap u)
    BY <1>5, <2>1, <2>2, <2>3
  <2> QED
    BY <1>2, <2>4 DEF Heard
<1> QED
  BY <1>0, <1>1, <1>2, <1>5, <1>8, <1>9 DEF RankInv, AllSent

(* A new row sees one change more, and Slack loses just that one.          *)
LEMMA RankPush ==
    ASSUME IInv, RankInv, FragPushLineToBinaryMatrix
    PROVE  RankInv'
<1> USE FragDecoderAssumption
<1> DEFINE k == BitArrayFindFirstOne(vector)
<1>1. /\ TypeOK /\ Numbering /\ Matrix /\ Places
      /\ pc = "eliminate" /\ status = ONGOING /\ AllSent /\ sessions # 0
  BY DEF IInv, Unused, FragPushLineToBinaryMatrix, Places, Matrix
<1>2. /\ CodedHeard # {} => AllSent /\ lost # 0
      /\ s = {} \/ lines < lost
      /\ Slack /\ Heard
  BY <1>1 DEF RankInv
<1>3. vector # {} /\ vector \in SUBSET (0..(lost - 1))
  BY <1>1 DEF Places
<1>4. k \in vector /\ (\A l \in vector : k <= l) /\ k \notin s
  <2>1. vector \subseteq Nat
    BY <1>3
  <2> QED
    BY <1>3, <2>1, FirstOne DEF FragPushLineToBinaryMatrix
<1>5. /\ m2b' = [m2b EXCEPT ![k] = @ \cap vector]
      /\ s' = s \cup {k} /\ lines' = lines + 1
      /\ UNCHANGED <<missing, lost, lastRx, rawData, vector, isActive, heard, late, sessions>>
      /\ Completed
  BY DEF FragPushLineToBinaryMatrix
<1> HIDE DEF k
<1>0. CodedHeard' = CodedHeard
  BY <1>5 DEF CodedHeard
<1>6. lost \in Nat /\ lines \in Nat /\ lost # 0 /\ k \in 0..(lost - 1) /\ k \in Rows
  BY <1>1, <1>3, <1>4 DEF TypeOK, Rows
<1>7. lines + 1 <= lost
  <2>1. s \subseteq 0..(lost - 1) /\ lines = Cardinality(s) /\ s # {} => lines < lost
    BY <1>1, <1>2 DEF Matrix
  <2>2. s = {} => lines = 0
    BY <1>1, FS_EmptySet DEF Matrix
  <2> QED
    BY <1>2, <1>6, <2>2
<1>8. status' = ONGOING /\ pc' # "back" => pc' = "idle" /\ lines' < lost
  BY <1>1, <1>5, <1>6, <1>7 DEF Completed, ONGOING
<1>9. SUFFICES ASSUME pc' = "idle" PROVE Slack' /\ Heard'
  BY <1>1, <1>5, <1>6, <1>8 DEF RankInv, AllSent
<1>10. ASSUME NEW l \in s'
       PROVE  FragExtractLineFromBinaryMatrix(l)' =
                IF l = k THEN vector ELSE FragExtractLineFromBinaryMatrix(l)
  <2>1. m2b[k] = Rows
    BY <1>1, <1>4, <1>6 DEF Matrix
  <2>2. m2b'[k] = vector /\ \A i \in Rows : i # k => m2b'[i] = m2b[i]
    BY <1>1, <1>5, <1>6, <2>1 DEF TypeOK
  <2>3. CASE l = k
    <3>1. FragExtractLineFromBinaryMatrix(l)' = {i \in l..(lost - 1) : i \in vector}
      BY <1>5, <2>2, <2>3 DEF FragExtractLineFromBinaryMatrix
    <3>2. \A i \in vector : i \in l..(lost - 1)
      BY <1>3, <1>4, <1>6, <2>3
    <3>3. {i \in l..(lost - 1) : i \in vector} = vector
      BY <3>2
    <3> QED
      BY <2>3, <3>1, <3>3
  <2>4. CASE l # k
    <3>1. l \in Rows
      BY <1>1, <1>5, <2>4 DEF TypeOK
    <3> QED
      BY <1>5, <2>2, <2>4, <3>1 DEF FragExtractLineFromBinaryMatrix
  <2> QED
    BY <2>3, <2>4
<1>11. \A u : Unseen(u)' <=> Unseen(u) /\ ~Odd(vector \cap u)
  <2>1. \A u : Unseen(u)' <=> \A l \in s' : ~Odd(FragExtractLineFromBinaryMatrix(l)' \cap u)
    BY DEF Unseen, Odd
  <2>2. \A u, l : l \in s' => (FragExtractLineFromBinaryMatrix(l)' \cap u =
            IF l = k THEN vector \cap u ELSE FragExtractLineFromBinaryMatrix(l) \cap u)
    BY <1>10
  <2> QED
    BY <1>4, <1>5, <2>1, <2>2 DEF Unseen
<1>12. Slack'
  <2> SUFFICES ASSUME NEW j \in (0..(lost - 1)) \ (s \cup {k})
               PROVE  \E u \in SUBSET (0..j) :
                        u \ (s \cup {k}) = {j} /\ Unseen(u) /\ ~Odd(vector \cap u)
    BY <1>5, <1>11 DEF Slack
  <2>1. s \subseteq 0..(lost - 1)
    BY <1>1 DEF Matrix
  <2> QED
    BY <1>1, <1>2, <1>3, <1>4, <1>6, <2>1, SlackKept
<1>13. Heard'
  <2> SUFFICES ASSUME NEW u \in SUBSET (0..(lost - 1)), Unseen(u), ~Odd(vector \cap u)
               PROVE  \A c \in CodedHeard : ~Odd(Unknown(c) \cap u)
    <3>1. \A c : Unknown(c)' = Unknown(c)
      BY <1>5, ParityStays DEF Unknown
    <3> QED
      BY <1>0, <1>5, <1>11, <3>1, HeardNext
  <2> QED
    BY <1>2 DEF Heard
<1> QED
  BY <1>12, <1>13

(* A coded fragment becomes the vector to reduce.                          *)
LEMMA RankRedundant ==
    ASSUME TypeOK, Received, Numbering, Matrix, RankInv, pc = "idle", status = ONGOING,
           NEW c \in Coded, Redundant(c), CodedHeard' = CodedHeard \cup {c}, TypeOK'
    PROVE  RankInv'
<1> USE FragDecoderAssumption
<1>1. /\ missing' \in [Rows -> 0..FragNb] /\ lost' \in 0..FragNb
      /\ lastRx' = FragNb + 1
      /\ s = {} \/ (missing' = missing /\ lost' = lost /\ AllSent)
  BY CodedNumbers
<1>2. /\ UNCHANGED <<m2b, s, lines>>
      /\ IF lost' = 0
         THEN status' = FINISHED /\ pc' = pc
         ELSE /\ vector' = {missing'[i] - 1 : i \in Parity(c) \ {r \in Parity(c) : missing'[r] = 0}}
              /\ pc' = IF vector' = {} THEN "idle" ELSE "eliminate"
  BY DEF Redundant
<1>3. SUFFICES ASSUME lost' # 0 PROVE RankInv'
  BY <1>2 DEF RankInv, FINISHED, ONGOING
<1>4. vector' = Unknown(c)'
  <2>1. Parity(c) \ {r \in Parity(c) : missing'[r] = 0} = {r \in Parity(c) : missing'[r] # 0}
    OBVIOUS
  <2>2. Unknown(c)' = {missing'[i] - 1 : i \in {r \in Parity(c) : missing'[r] # 0}}
    BY ParityStays DEF Unknown
  <2> QED
    BY <1>2, <1>3, <2>1, <2>2
<1>5. /\ CodedHeard # {} => AllSent /\ lost # 0
      /\ s = {} \/ lines < lost
      /\ Slack /\ Heard
  BY DEF RankInv
<1>6. Slack'
  <2>1. CASE s = {}
    <3> SUFFICES ASSUME NEW j \in 0..(lost' - 1)
                 PROVE  \E u \in SUBSET (0..j) : u \ s' = {j} /\ Unseen(u)'
      BY DEF Slack
    <3>1. {j} \in SUBSET (0..j) /\ {j} \ s' = {j} /\ Unseen({j})'
      BY <1>1, <1>2, <2>1 DEF Unseen
    <3> QED
      BY <3>1
  <2>2. CASE missing' = missing /\ lost' = lost
    <3>1. \A u : Unseen(u)' <=> Unseen(u)
      BY <1>2, <2>2 DEF Unseen, FragExtractLineFromBinaryMatrix
    <3> QED
      BY <1>2, <1>5, <2>2, <3>1 DEF Slack
  <2> QED
    BY <1>1, <2>1, <2>2
<1>7. Heard'
  <2> SUFFICES ASSUME NEW u \in SUBSET (0..(lost' - 1)), Unseen(u)',
                      pc' = "eliminate" => ~Odd(vector' \cap u), NEW d \in CodedHeard'
               PROVE  ~Odd(Unknown(d)' \cap u)
    BY HeardNext
  <2>1. CASE d = c
    <3>1. ~Odd(vector' \cap u)
      <4>1. vector' = {} => vector' \cap u = {}
        OBVIOUS
      <4> QED
        BY <1>2, <1>3, <4>1, OddOnes
    <3> QED
      BY <1>4, <2>1, <3>1
  <2>2. CASE d # c
    <3>1. d \in CodedHeard /\ missing' = missing /\ lost' = lost
      <4>1. d \in CodedHeard
        BY <2>2
      <4>2. AllSent
        BY <1>5, <4>1
      <4>3. s = {} => missing' = missing /\ lost' = lost
        BY <4>2, AllSentStays
      <4> QED
        BY <1>1, <4>1, <4>3
    <3>2. Unseen(u)
      BY <1>2, <3>1 DEF Unseen, FragExtractLineFromBinaryMatrix, Odd
    <3>3. ~Odd(Unknown(d) \cap u)
      BY <1>5, <3>1, <3>2 DEF Heard
    <3>4. Unknown(d)' = Unknown(d)
      BY <3>1, ParityStays DEF Unknown
    <3> QED
      BY <3>3, <3>4
  <2> QED
    BY <2>1, <2>2
<1>8. AllSent' /\ (s' = {} \/ lines' < lost')
  BY <1>1, <1>2, <1>5 DEF AllSent
<1> QED
  BY <1>3, <1>6, <1>7, <1>8 DEF RankInv

(* A data fragment, whatever the decoder does with it.                     *)
LEMMA RankFragment ==
    ASSUME IInv, RankInv, NEW c \in 1..FragNb \cup Coded, DataFragment(c)
    PROVE  RankInv'
<1> USE FragDecoderAssumption
<1>1. TypeOK /\ TypeOK' /\ pc = "idle"
  BY InvFragment DEF IInv, DataFragment
<1>2. CASE status # ONGOING
  <2>1. status' # ONGOING
    BY <1>2 DEF DataFragment, OnDone, NOT_STARTED, ONGOING
  <2> QED
    BY <2>1 DEF RankInv
<1>3. CASE status = ONGOING
  <2>1. /\ Received /\ Numbering /\ Matrix /\ Places
        /\ FragDecoderProcess(c)
        /\ c <= FragNb => CodedHeard' = CodedHeard
        /\ c \in Coded => CodedHeard' = CodedHeard \cup {c}
    <3>1. heard' = heard \cup {c}
      BY <1>3 DEF DataFragment, Observed
    <3>2. c <= FragNb => c \notin Coded
      BY DEF Coded
    <3> QED
      BY <1>3, <3>1, <3>2 DEF IInv, Unused, DataFragment, ONGOING, FINISHED, NOT_STARTED, CodedHeard
  <2>2. /\ CodedHeard # {} => AllSent /\ lost # 0
        /\ s = {} \/ lines < lost
        /\ Slack /\ Heard
    BY <1>1, <1>3 DEF RankInv
  <2>3. CASE Dropped(c)
    <3>1. UNCHANGED <<decoderVars, loopVars, status, pc>> /\ c < lastRx
      BY <2>3 DEF Dropped
    <3>2. CodedHeard' = CodedHeard
      <4>1. lastRx <= FragNb + 1 /\ lastRx \in Nat /\ c \in Nat
        BY <1>1 DEF TypeOK, Coded
      <4> QED
        BY <2>1, <3>1, <4>1
    <3> QED
      BY <3>1, <3>2, RankStays DEF decoderVars, loopVars
  <2>4. CASE Uncoded(c)
    <3>1. c \in 1..FragNb /\ c >= lastRx /\ UNCHANGED <<m2b, s, lines, loopVars, status, pc>>
      BY <2>4 DEF Uncoded, Coded
    <3>2. ~AllSent /\ CodedHeard' = {}
      <4>1. ~AllSent /\ CodedHeard' = CodedHeard
        BY <1>1, <2>1, <3>1 DEF AllSent, TypeOK
      <4> QED
        BY <2>2, <4>1
    <3>3. s' = {}
      BY <1>3, <2>1, <3>1, <3>2 DEF Matrix
    <3> QED
      BY <1>1, <3>2, <3>3, RankAtFirst
  <2>5. CASE TooManyLost(c)
    BY <2>5 DEF TooManyLost, RankInv, FINISHED, ONGOING
  <2>6. CASE Redundant(c)
    <3>1. c \in Coded /\ CodedHeard' = CodedHeard \cup {c}
      BY <2>1, <2>6 DEF Redundant, Coded
    <3> QED
      BY <1>1, <1>3, <2>1, <2>6, <3>1, RankRedundant
  <2>7. CASE Overflow(c)
    BY <2>7 DEF Overflow, RankInv
  <2> QED
    BY <2>1, <2>3, <2>4, <2>5, <2>6, <2>7 DEF FragDecoderProcess
<1> QED
  BY <1>2, <1>3

-----------------------------------------------------------------------------
(* The invariant holds throughout, for a file of any length, any           *)
(* redundancy, any bounds and any parity rows.                             *)
THEOREM Rank == Spec => []RankInv
<1>1. Init => RankInv
  BY DEF Init, RankInv, FINISHED, ONGOING
<1>2. IInv /\ RankInv /\ [Next]_vars => RankInv'
  <2> SUFFICES ASSUME IInv, RankInv, [Next]_vars PROVE RankInv'
    OBVIOUS
  <2>1. CASE FragSessionSetup
    <3>1. s' = {} /\ CodedHeard' = {}
      BY <2>1 DEF FragSessionSetup, FragDecoderInit, CodedHeard
    <3>2. TypeOK'
      BY <2>1, InvSetup DEF IInv
    <3> QED
      BY <3>1, <3>2, RankAtFirst
  <2>2. CASE FragSessionDelete
    BY <2>2, RankStays DEF FragSessionDelete, decoderVars, loopVars, CodedHeard
  <2>3. CASE BackSubstitute
    <3>1. status' = ONGOING => pc' = "back"
      <4>1. IInv' /\ lost \in Nat
        BY <2>3, InvBackSubstitute DEF IInv, TypeOK
      <4> QED
        BY <2>3, <4>1 DEF BackSubstitute, ONGOING
    <3> QED
      BY <3>1 DEF RankInv
  <2>4. CASE UNCHANGED vars
    BY <2>4, RankStays DEF vars, decoderVars, loopVars, CodedHeard
  <2> QED
    BY <2>1, <2>2, <2>3, <2>4, RankEliminate, RankPush, RankFragment DEF Next
<1> QED
  BY <1>1, <1>2, Inv, PTL DEF Spec

-----------------------------------------------------------------------------
(* Missing fragments are as many as their numbers.                         *)
LEMMA AsManyFragments ==
    ASSUME TypeOK, Numbering, AllSent, NEW w \in SUBSET (0..(lost - 1))
    PROVE  Cardinality(Fragments(w)) = Cardinality(w)
<1> DEFINE f == [k \in w |-> FragFindMissingIndex(k)]
<1>1. \A k, l \in w : FragFindMissingIndex(k) = FragFindMissingIndex(l) => k = l
  BY Finds
<1>2. f \in Bijection(w, Fragments(w))
  <2>1. f \in [w -> Fragments(w)] /\ \A k \in w : f[k] = FragFindMissingIndex(k)
    BY DEF Fragments
  <2>2. \A i \in Fragments(w) : \E k \in w : f[k] = i
    BY <2>1 DEF Fragments
  <2> HIDE DEF f
  <2>3. f \in Injection(w, Fragments(w))
    BY <1>1, <2>1 DEF Injection, IsInjective
  <2>4. f \in Surjection(w, Fragments(w))
    BY <2>1, <2>2 DEF Surjection
  <2> QED
    BY <2>3, <2>4 DEF Bijection
<1>3. IsFiniteSet(w)
  <2>1. lost \in Nat
    BY FragDecoderAssumption DEF TypeOK
  <2> QED
    BY <2>1, FullMatrix
<1> HIDE DEF f
<1> QED
  BY <1>2, <1>3, FS_Bijection DEF ExistsBijection

(* A fragment that arrived in time is not missing, and none that is to     *)
(* come has been marked as received.                                       *)
ArrivedInv ==
    status = ONGOING =>
        /\ \A i \in Rows : lastRx <= i => missing[i] # 0
        /\ \A c \in (heard \ late) \ Coded : missing[c - 1] = 0

THEOREM Arrived == Spec => []ArrivedInv
<1> USE FragDecoderAssumption
<1>1. Init => ArrivedInv
  BY DEF Init, ArrivedInv, FINISHED, ONGOING
<1>2. IInv /\ ArrivedInv /\ [Next]_vars => ArrivedInv'
  <2> SUFFICES ASSUME IInv, ArrivedInv, [Next]_vars, status' = ONGOING PROVE ArrivedInv'
    BY DEF ArrivedInv
  <2>1. TypeOK
    BY DEF IInv
  <2>2. CASE FragSessionSetup
    BY <2>2 DEF FragSessionSetup, FragDecoderInit, ArrivedInv
  <2>3. ASSUME UNCHANGED <<lastRx, missing, heard, late>>, status = ONGOING
        PROVE  ArrivedInv'
    BY <2>3 DEF ArrivedInv
  <2>4. ASSUME NEW c \in 1..FragNb \cup Coded, DataFragment(c)
        PROVE  ArrivedInv'
    <3>1. status = ONGOING /\ FragDecoderProcess(c) /\ Observed(c)
      BY <2>1, <2>4 DEF DataFragment, OnDone, TypeOK, ONGOING, NOT_STARTED
    <3>2. /\ \A i \in Rows : lastRx <= i => missing[i] # 0
          /\ \A d \in (heard \ late) \ Coded : missing[d - 1] = 0 /\ d - 1 \in Rows
      <4>1. \A d \in heard \ Coded : d - 1 \in Rows
        BY <2>1 DEF TypeOK, Rows
      <4> QED
        BY <3>1, <4>1 DEF ArrivedInv
    <3>3. /\ heard' = heard \cup {c}
          /\ late' = IF c < lastRx /\ c \notin heard THEN late \cup {c} ELSE late
      BY <3>1 DEF Observed
    <3>4. lastRx \in 0..(FragNb + 1) /\ c \in Nat /\ \A i \in Rows : i \in Nat /\ i < FragNb
      BY <2>1 DEF TypeOK, Coded, Rows
    <3>5. CASE UNCHANGED <<lastRx, missing>> /\ (c < lastRx \/ c \in Coded)
      <4>1. ASSUME NEW d \in (heard' \ late') \ Coded
            PROVE  d \in (heard \ late) \ Coded
        BY <3>3, <3>5, <4>1
      <4> QED
        BY <3>2, <3>5, <4>1 DEF ArrivedInv
    <3>6. CASE Uncoded(c)
      <4>1. /\ c \in 1..FragNb /\ c >= lastRx /\ c - 1 \in Rows
            /\ missing' = Numbered(c, [missing EXCEPT ![c - 1] = 0])
            /\ lastRx' = LastRxBy(c)
        BY <3>6 DEF Uncoded, Coded, Rows
      <4>2. \A i \in Rows : missing'[i] = IF i \in Gap(c) THEN lost + i - lastRx + 1
                                          ELSE IF i = c - 1 THEN 0 ELSE missing[i]
        BY <2>1, <4>1 DEF Numbered, TypeOK
      <4>3. \A i \in Gap(c) : lastRx <= i /\ i < c - 1
        BY DEF Gap
      <4>4. lastRx' >= c
        BY <3>4, <4>1 DEF LastRxBy
      <4>5. \A i \in Rows : lastRx' <= i => missing'[i] # 0
        <5> SUFFICES ASSUME NEW i \in Rows, lastRx' <= i PROVE missing'[i] # 0
          OBVIOUS
        <5>1. i >= c /\ i # c - 1 /\ lastRx <= i
          BY <3>4, <4>1, <4>4 DEF LastRxBy
        <5>2. i \notin Gap(c)
          BY <3>4, <4>3, <5>1
        <5> QED
          BY <3>2, <4>2, <5>1, <5>2
      <4>6. ASSUME NEW d \in (heard' \ late') \ Coded
            PROVE  missing'[d - 1] = 0
        <5>1. CASE d = c
          <6>1. c - 1 \notin Gap(c)
            BY <3>4, <4>1, <4>3
          <6> QED
            BY <4>1, <4>2, <5>1, <6>1
        <5>2. CASE d # c
          <6>1. d \in (heard \ late) \ Coded
            BY <3>3, <4>6, <5>2
          <6>2. missing[d - 1] = 0 /\ d - 1 \in Rows
            BY <3>2, <6>1
          <6>3. d - 1 \notin Gap(c)
            BY <3>2, <4>3, <6>2
          <6> QED
            BY <4>2, <6>2, <6>3
        <5> QED
          BY <5>1, <5>2
      <4> QED
        BY <4>5, <4>6 DEF ArrivedInv
    <3>7. CASE Redundant(c)
      <4>1. /\ c \in Coded /\ missing' = Numbered(c, missing) /\ lastRx' = LastRxBy(c)
            /\ c > FragNb
        BY <3>7 DEF Redundant, Coded
      <4>2. lastRx' = FragNb + 1
        BY <3>4, <4>1 DEF LastRxBy
      <4>3. \A i \in Rows : missing'[i] = IF i \in Gap(c) THEN lost + i - lastRx + 1
                                          ELSE missing[i]
        BY <4>1 DEF Numbered
      <4>4. ASSUME NEW d \in (heard' \ late') \ Coded
            PROVE  missing'[d - 1] = 0
        <5>1. d \in (heard \ late) \ Coded
          BY <3>3, <4>1, <4>4
        <5>2. missing[d - 1] = 0 /\ d - 1 \in Rows
          BY <3>2, <5>1
        <5>3. d - 1 \notin Gap(c)
          BY <3>2, <5>2 DEF Gap
        <5> QED
          BY <4>3, <5>2, <5>3
      <4>5. \A i \in Rows : ~(lastRx' <= i)
        BY <3>4, <4>2
      <4> QED
        BY <4>4, <4>5 DEF ArrivedInv
    <3> QED
      BY <2>4, <3>1, <3>5, <3>6, <3>7
         DEF FragDecoderProcess, Dropped, TooManyLost, Overflow, decoderVars, Coded
  <2>5. CASE Eliminate \/ FragPushLineToBinaryMatrix \/ BackSubstitute
    <3>1. status = ONGOING
      BY <2>5 DEF IInv, Unused, Places, Eliminate, FragPushLineToBinaryMatrix, BackSubstitute
    <3> QED
      BY <2>3, <2>5, <3>1 DEF Eliminate, FragPushLineToBinaryMatrix, BackSubstitute
  <2>6. CASE FragSessionDelete \/ UNCHANGED vars
    BY <2>3, <2>6 DEF FragSessionDelete, decoderVars, vars
  <2> QED
    BY <2>2, <2>4, <2>5, <2>6 DEF Next
<1> QED
  BY <1>1, <1>2, Inv, PTL DEF Spec

(* A session ends with the first coded fragment by which those that came   *)
(* in time determine the file: while it goes on the matrix lacks a row,    *)
(* and the change that leaves unseen none of them sees either.             *)
THEOREM EndsInTime == Spec => []EndsWhenDetermined
<1>1. IInv /\ RankInv /\ ArrivedInv => EndsWhenDetermined
  <2> SUFFICES ASSUME IInv, RankInv, ArrivedInv, pc = "idle", status = ONGOING, CodedHeard # {}
               PROVE  ~Determined(heard \ late)
    BY DEF EndsWhenDetermined, Ongoing, CodedHeard
  <2> USE FragDecoderAssumption
  <2>1. TypeOK /\ Numbering /\ Matrix /\ AllSent /\ lost # 0 /\ Slack /\ Heard
    BY DEF IInv, Unused, RankInv, ONGOING, FINISHED, NOT_STARTED
  <2>2. lost \in Nat /\ s \subseteq 0..(lost - 1) /\ heard \subseteq 1..FragNb \cup Coded
    BY <2>1 DEF TypeOK, Matrix
  <2>3. PICK j \in (0..(lost - 1)) \ s : TRUE
    <3>1. CASE s = {}
      <4>1. 0 \in 0..(lost - 1)
        BY <2>1, <2>2
      <4> QED
        BY <3>1, <4>1
    <3>2. CASE lines < lost
      <4>1. Cardinality(0..(lost - 1)) = lost
        BY <2>2, FS_Interval
      <4>2. lines = Cardinality(s) /\ lines \in Nat
        BY <2>1 DEF Matrix, TypeOK
      <4>3. s # 0..(lost - 1)
        BY <2>2, <3>2, <4>1, <4>2
      <4> QED
        BY <2>2, <4>3
    <3> QED
      BY <3>1, <3>2 DEF RankInv
  <2>4. PICK u \in SUBSET (0..j) : u \ s = {j} /\ Unseen(u)
    BY <2>1 DEF Slack
  <2>5. u \in SUBSET (0..(lost - 1)) /\ j \in u
    BY <2>2, <2>4
  <2>6. /\ Fragments(u) \in (SUBSET Rows) \ {{}}
        /\ \A i \in Fragments(u) : missing[i] # 0
    <3>1. \A k \in u : FragFindMissingIndex(k) \in Rows /\ missing[FragFindMissingIndex(k)] = k + 1
      BY <2>1, <2>5, Finds
    <3>2. \A k \in u : k + 1 # 0
      BY <2>2, <2>5
    <3>3. FragFindMissingIndex(j) \in Fragments(u)
      BY <2>5 DEF Fragments
    <3> QED
      BY <3>1, <3>2, <3>3 DEF Fragments
  <2>7. ASSUME NEW c \in CodedHeard
        PROVE  Cardinality(Parity(c) \cap Fragments(u)) % 2 # 1
    <3>1. Parity(c) \in SUBSET Rows
      BY ParityRows DEF CodedHeard
    <3>2. Unknown(c) \cap u \in SUBSET (0..(lost - 1))
      BY <2>5
    <3>3. Parity(c) \cap Fragments(u) = Fragments(Unknown(c) \cap u)
      <4>1. ASSUME NEW i \in Parity(c) \cap Fragments(u)
            PROVE  i \in Fragments(Unknown(c) \cap u)
        <5>1. PICK k \in u : i = FragFindMissingIndex(k)
          BY DEF Fragments
        <5>2. missing[i] = k + 1 /\ k + 1 # 0 /\ k = missing[i] - 1
          BY <2>1, <2>2, <2>5, <5>1, Finds
        <5>3. k \in Unknown(c)
          BY <5>2 DEF Unknown
        <5> QED
          BY <5>1, <5>3 DEF Fragments
      <4>2. ASSUME NEW i \in Fragments(Unknown(c) \cap u)
            PROVE  i \in Parity(c) \cap Fragments(u)
        <5>1. PICK k \in Unknown(c) \cap u : i = FragFindMissingIndex(k)
          BY DEF Fragments
        <5>2. PICK r \in Parity(c) : missing[r] # 0 /\ k = missing[r] - 1
          BY <5>1 DEF Unknown
        <5>3. i = r
          BY <2>1, <3>1, <5>1, <5>2, Finds
        <5> QED
          BY <5>1, <5>2, <5>3 DEF Fragments
      <4> QED
        BY <4>1, <4>2
    <3>4. ~Odd(Unknown(c) \cap u)
      BY <2>1, <2>4, <2>5 DEF Heard
    <3>5. Cardinality(Fragments(Unknown(c) \cap u)) = Cardinality(Unknown(c) \cap u)
      BY <2>1, <3>2, AsManyFragments
    <3> QED
      BY <3>3, <3>4, <3>5 DEF Odd
  <2>8. ASSUME NEW c \in heard \ late
        PROVE  Cardinality(SumOf(c) \cap Fragments(u)) % 2 # 1
    <3>1. CASE c \in Coded
      <4>1. ~(c <= FragNb)
        BY <3>1 DEF Coded
      <4> QED
        BY <2>7, <3>1, <4>1 DEF SumOf, CodedHeard
    <3>2. CASE c \notin Coded
      <4>1. c <= FragNb /\ missing[c - 1] = 0
        BY <2>2, <3>2 DEF ArrivedInv
      <4>2. SumOf(c) \cap Fragments(u) = {}
        BY <2>6, <4>1 DEF SumOf
      <4> QED
        BY <4>2, FS_EmptySet
    <3> QED
      BY <3>1, <3>2
  <2> QED
    BY <2>6, <2>8 DEF Determined
<1> QED
  BY <1>1, Inv, Rank, Arrived, PTL
=============================================================================
