------------------------- MODULE MacCommandsProofs -------------------------
(***************************************************************************)
(* The store of pending MAC commands, for any commands, sizes and number   *)
(* of slots: the linked slots always hold one sequence, every operation of *)
(* LoRaMacCommands.c does to it what it promises, and from that follow the *)
(* properties of the frames and of what is forgotten, and that the store   *)
(* implements MacCommandsAbs.                                              *)
(*                                                                         *)
(* What the operators compute is proved by induction over the natural      *)
(* numbers and over sequences, stated for sets: UpTo, SequenceInduction    *)
(* and Recursion below.                                                    *)
(***************************************************************************)
EXTENDS MacCommands, WellFoundedInduction, SequenceTheorems, FiniteSetTheorems, TLAPS

-----------------------------------------------------------------------------
(* Induction, as statements about sets.                                    *)

(* A set of naturals that is not empty has a lowest element.               *)
LEMMA LowestProperties ==
    ASSUME NEW S \in SUBSET Nat, S # {}
    PROVE  Lowest(S) \in S /\ \A m \in S : Lowest(S) <= m
<1>1. \E x \in S : \A y \in S : <<y, x>> \notin OpToRel(<, Nat)
    BY NatLessThanWellFounded, WFMin
<1>2. \A x, y \in Nat : <<y, x>> \notin OpToRel(<, Nat) => x <= y
    BY DEF OpToRel
<1> QED BY <1>1, <1>2 DEF Lowest

(* What holds at 0 and is handed on up to N holds at all of 0..N.          *)
LEMMA UpTo ==
    ASSUME NEW N \in Nat, NEW T, 0 \in T, \A n \in 0..(N - 1) : n \in T => n + 1 \in T
    PROVE  \A n \in 0..N : n \in T
<1> SUFFICES ASSUME {n \in 0..N : n \notin T} # {} PROVE FALSE
    OBVIOUS
<1> DEFINE x == Lowest({n \in 0..N : n \notin T})
<1>1. x \in 0..N /\ x \notin T /\ \A y \in 0..N : y \notin T => x <= y
    BY LowestProperties
<1> HIDE DEF x
<1>2. x # 0 /\ x - 1 \in 0..(N - 1) /\ x - 1 \in T
    BY <1>1
<1> QED BY <1>1, <1>2

(* What holds of << >> and survives Append holds of all sequences.         *)
LEMMA SequenceInduction ==
    ASSUME NEW X, NEW T, << >> \in T,
           \A s \in Seq(X), x \in X : s \in T => Append(s, x) \in T
    PROVE  Seq(X) \subseteq T
<1> SUFFICES ASSUME NEW s \in Seq(X) PROVE s \in T
    OBVIOUS
<1> DEFINE U == {n \in 0..Len(s) : SubSeq(s, 1, n) \in T}
<1>0. Len(s) \in Nat /\ \A n \in 1..Len(s) : s[n] \in X
    OBVIOUS
<1>1. 0 \in U
    <2>1. SubSeq(s, 1, 0) = << >>
        BY SubSeqEmpty
    <2>2. SubSeq(s, 1, 0) \in T
        BY <2>1, Zenon
    <2> QED BY <1>0, <2>2
<1>2. \A n \in 0..(Len(s) - 1) : n \in U => n + 1 \in U
    <2> SUFFICES ASSUME NEW n \in 0..(Len(s) - 1), n \in U PROVE n + 1 \in U
        OBVIOUS
    <2>1. n + 1 \in 0..Len(s) /\ s[n + 1] \in X
        BY <1>0
    <2>2. SubSeq(s, 1, n) \in Seq(X)
        BY <1>0, SubSeqProperties, Z3
    <2>3. SubSeq(s, 1, n + 1) = Append(SubSeq(s, 1, n), s[n + 1])
        BY <1>0
    <2> QED BY <2>1, <2>2, <2>3
<1>3. Len(s) \in U
    <2> HIDE DEF U
    <2> QED BY <1>0, <1>1, <1>2, UpTo
<1> QED BY <1>0, <1>3, SubSeqFull

(* A recursion over 0..N, step by step through values of X, has a solution. *)
Steps(step, N, X) == step \in [1..N -> [X -> X]]
Solution(f, base, step, N, X) ==
    f \in [0..N -> X] /\ f[0] = base /\ \A n \in 1..N : f[n] = step[n][f[n - 1]]

(* So the function such a recursion defines exists, which is what a CHOSEN *)
(* definition needs.                                                       *)
LEMMA Recursion ==
    ASSUME NEW X, NEW N \in Nat, NEW base, base \in X, NEW step, Steps(step, N, X)
    PROVE  \E f : Solution(f, base, step, N, X)
<1> USE DEF Steps
<1> DEFINE Solves(f, k) == f[0] = base /\ \A n \in 1..k : f[n] = step[n][f[n - 1]]
           Solved == {k \in 0..N : \E f \in [0..k -> X] : Solves(f, k)}
<1>1. 0 \in Solved
    <2> DEFINE f == [n \in 0..0 |-> base]
    <2>1. f \in [0..0 -> X] /\ Solves(f, 0)
        OBVIOUS
    <2> HIDE DEF f, Solves
    <2>2. \E g \in [0..0 -> X] : Solves(g, 0)
        BY <2>1
    <2> QED BY <2>2
<1>2. \A k \in 0..(N - 1) : k \in Solved => k + 1 \in Solved
    <2> SUFFICES ASSUME NEW k \in 0..(N - 1), NEW f \in [0..k -> X], Solves(f, k)
                 PROVE  \E h \in [0..(k + 1) -> X] : Solves(h, k + 1)
        <3> HIDE DEF Solves
        <3> QED OBVIOUS
    <2> DEFINE h == [n \in 0..(k + 1) |-> IF n = k + 1 THEN step[n][f[k]] ELSE f[n]]
    <2>1. h[k + 1] = step[k + 1][f[k]] /\ \A n \in 0..k : h[n] = f[n]
        OBVIOUS
    <2>2. h \in [0..(k + 1) -> X]
        OBVIOUS
    <2> HIDE DEF h
    <2>3. \A n \in 1..(k + 1) : h[n] = step[n][h[n - 1]]
        BY <2>1
    <2>4. h[0] = base
        BY <2>1
    <2> QED BY <2>2, <2>3, <2>4
<1>3. N \in Solved
    <2> HIDE DEF Solved, Solves
    <2>1. \A n \in 0..N : n \in Solved
        BY <1>1, <1>2, UpTo
    <2> QED BY <2>1
<1> QED BY <1>3 DEF Solution

-----------------------------------------------------------------------------
(* Selected.                                                               *)

(* The walk that picks, as Selected defines it.                            *)
LEMMA SelectedWalk ==
    ASSUME NEW X, NEW s \in Seq(X), NEW S
    PROVE  \E picked :
            /\ picked[0] = << >>
            /\ \A n \in 1..Len(s) :
                picked[n] = IF s[n] \in S THEN Append(picked[n - 1], s[n]) ELSE picked[n - 1]
            /\ Selected(s, S) = picked[Len(s)]
<1> DEFINE Y == Seq(X)
           N == Len(s)
           empty == << >>
           Step(n, p) == IF s[n] \in S THEN Append(p, s[n]) ELSE p
           step == [n \in 1..N |-> [p \in Y |-> Step(n, p)]]
<1>1. N \in Nat /\ empty \in Y /\ step \in [1..N -> [Y -> Y]]
    OBVIOUS
<1> HIDE DEF Y, N, empty, Step
<1>2. \A n \in 1..N, p \in Y : step[n][p] = Step(n, p)
    OBVIOUS
<1> HIDE DEF step
<1>3. PICK f \in [0..N -> Y] : f[0] = empty /\ \A n \in 1..N : f[n] = step[n][f[n - 1]]
    <2>1. Steps(step, N, Y)
        BY <1>1 DEF Steps
    <2>2. \E f : Solution(f, empty, step, N, Y)
        BY <1>1, <2>1, Recursion
    <2> QED BY <2>2 DEF Solution
<1>4. \A n \in 1..N : n - 1 \in 0..N
    BY <1>1
<1>5. \A n \in 1..N : f[n] = Step(n, f[n - 1])
    BY <1>2, <1>3, <1>4
<1> DEFINE Walk(g) == [n \in 0..N |-> IF n = 0 THEN empty ELSE Step(n, g[n - 1])]
           picked == CHOOSE g : g = Walk(g)
<1>6. f = Walk(f)
    BY <1>1, <1>3, <1>5
<1>7. picked = Walk(picked)
    <2> HIDE DEF Walk
    <2> QED BY <1>6
<1>8. Selected(s, S) = picked[N]
    BY DEF Selected, Y, N, empty, Step
<1> HIDE DEF picked
<1>9. picked[0] = empty /\ \A n \in 1..N : picked[n] = Step(n, picked[n - 1])
    BY <1>1, <1>4, <1>7
<1> HIDE DEF Walk
<1> QED BY <1>8, <1>9 DEF N, empty, Step

(* Selecting from nothing.                                                 *)
LEMMA SelectedEmpty ==
    ASSUME NEW S
    PROVE  Selected(<< >>, S) = << >>
<1> DEFINE s == << >>
<1>1. s \in Seq(Nat) /\ Len(s) = 0
    OBVIOUS
<1> HIDE DEF s
<1>2. PICK p : /\ p[0] = << >>
               /\ \A n \in 1..Len(s) :
                    p[n] = IF s[n] \in S THEN Append(p[n - 1], s[n]) ELSE p[n - 1]
               /\ Selected(s, S) = p[Len(s)]
    BY <1>1, SelectedWalk
<1> QED BY <1>1, <1>2 DEF s

(* Selecting from a sequence with one more element.                        *)
LEMMA SelectedAppend ==
    ASSUME NEW X, NEW s \in Seq(X), NEW x \in X, NEW S
    PROVE  Selected(Append(s, x), S) =
            IF x \in S THEN Append(Selected(s, S), x) ELSE Selected(s, S)
<1> DEFINE t == Append(s, x)
           N == Len(s)
           Step(seq, n, p) == IF seq[n] \in S THEN Append(p, seq[n]) ELSE p
<1>1. t \in Seq(X) /\ N \in Nat /\ Len(t) = N + 1 /\ t[N + 1] = x
    OBVIOUS
<1>2. \A n \in 1..N : t[n] = s[n]
    OBVIOUS
<1> HIDE DEF t
<1>3. PICK p : /\ p[0] = << >>
               /\ \A n \in 1..N : p[n] = Step(s, n, p[n - 1])
               /\ Selected(s, S) = p[N]
    BY SelectedWalk
<1>4. PICK q : /\ q[0] = << >>
               /\ \A n \in 1..Len(t) : q[n] = Step(t, n, q[n - 1])
               /\ Selected(t, S) = q[Len(t)]
    BY <1>1, SelectedWalk
<1> DEFINE Same == {n \in 0..N : q[n] = p[n]}
<1>5. 0 \in Same
    BY <1>1, <1>3, <1>4
<1>6. \A n \in 0..(N - 1) : n \in Same => n + 1 \in Same
    <2> SUFFICES ASSUME NEW n \in 0..(N - 1), q[n] = p[n] PROVE q[n + 1] = p[n + 1]
        BY <1>1
    <2>1. n + 1 \in 1..N /\ n + 1 \in 1..Len(t) /\ n + 1 - 1 = n
        BY <1>1
    <2> QED BY <1>2, <1>3, <1>4, <2>1
<1>7. q[N] = p[N]
    <2>1. N \in Same
        <3> HIDE DEF Same, N, Step
        <3>1. \A n \in 0..N : n \in Same
            BY <1>1, <1>5, <1>6, UpTo
        <3> QED BY <1>1, <3>1
    <2> QED BY <2>1
<1>8. N + 1 \in 1..Len(t) /\ N + 1 - 1 = N
    BY <1>1
<1>9. q[N + 1] = IF x \in S THEN Append(q[N], x) ELSE q[N]
    BY <1>1, <1>4, <1>8
<1> QED BY <1>1, <1>3, <1>4, <1>7, <1>9 DEF t

-----------------------------------------------------------------------------
(* TotalSize.                                                              *)

(* Every command takes at least its identifier.                            *)
LEMMA SizeNat == \A cid \in Cids : Size(cid) \in Nat /\ Size(cid) > 0
BY SizeAssumption DEF Size, CidFieldSize

(* The walk that adds the sizes up, as TotalSize defines it.               *)
LEMMA TotalSizeWalk ==
    ASSUME NEW s \in Seq(Cids)
    PROVE  \E total :
            /\ total[0] = 0
            /\ \A n \in 1..Len(s) : total[n] = total[n - 1] + Size(s[n])
            /\ TotalSize(s) = total[Len(s)]
<1> DEFINE Y == Nat
           N == Len(s)
           Step(n, p) == p + Size(s[n])
           step == [n \in 1..N |-> [p \in Y |-> Step(n, p)]]
<1>1. N \in Nat /\ 0 \in Y /\ step \in [1..N -> [Y -> Y]]
    BY SizeNat
<1> HIDE DEF Y, N, Step
<1>2. \A n \in 1..N, p \in Y : step[n][p] = Step(n, p)
    OBVIOUS
<1> HIDE DEF step
<1>3. PICK f \in [0..N -> Y] : f[0] = 0 /\ \A n \in 1..N : f[n] = step[n][f[n - 1]]
    <2>1. Steps(step, N, Y)
        BY <1>1 DEF Steps
    <2>2. \E f : Solution(f, 0, step, N, Y)
        BY <1>1, <2>1, Recursion
    <2> QED BY <2>2 DEF Solution
<1>4. \A n \in 1..N : n - 1 \in 0..N
    BY <1>1
<1>5. \A n \in 1..N : f[n] = Step(n, f[n - 1])
    BY <1>2, <1>3, <1>4
<1> DEFINE Walk(g) == [n \in 0..N |-> IF n = 0 THEN 0 ELSE Step(n, g[n - 1])]
           walk == CHOOSE g : g = Walk(g)
<1>6. f = Walk(f)
    BY <1>1, <1>3, <1>5
<1>7. walk = Walk(walk)
    <2> HIDE DEF Walk
    <2> QED BY <1>6
<1>8. TotalSize(s) = walk[N]
    BY DEF TotalSize, N, Step
<1> HIDE DEF walk
<1>9. walk[0] = 0 /\ \A n \in 1..N : walk[n] = Step(n, walk[n - 1])
    BY <1>1, <1>4, <1>7
<1> HIDE DEF Walk
<1> QED BY <1>8, <1>9 DEF N, Step

(* No command takes no bytes.                                              *)
LEMMA TotalSizeEmpty ==
    TotalSize(<< >>) = 0
<1> DEFINE s == << >>
<1>1. s \in Seq(Cids) /\ Len(s) = 0
    OBVIOUS
<1> HIDE DEF s
<1>2. PICK p : /\ p[0] = 0
               /\ \A n \in 1..Len(s) : p[n] = p[n - 1] + Size(s[n])
               /\ TotalSize(s) = p[Len(s)]
    BY <1>1, TotalSizeWalk
<1> QED BY <1>1, <1>2 DEF s

(* One more command takes its own size.                                    *)
LEMMA TotalSizeAppend ==
    ASSUME NEW s \in Seq(Cids), NEW x \in Cids
    PROVE  TotalSize(Append(s, x)) = TotalSize(s) + Size(x)
<1> DEFINE t == Append(s, x)
           N == Len(s)
           Step(seq, n, p) == p + Size(seq[n])
<1>1. t \in Seq(Cids) /\ N \in Nat /\ Len(t) = N + 1 /\ t[N + 1] = x
    OBVIOUS
<1>2. \A n \in 1..N : t[n] = s[n]
    OBVIOUS
<1> HIDE DEF t
<1>3. PICK p : /\ p[0] = 0
               /\ \A n \in 1..N : p[n] = Step(s, n, p[n - 1])
               /\ TotalSize(s) = p[N]
    BY TotalSizeWalk
<1>4. PICK q : /\ q[0] = 0
               /\ \A n \in 1..Len(t) : q[n] = Step(t, n, q[n - 1])
               /\ TotalSize(t) = q[Len(t)]
    BY <1>1, TotalSizeWalk
<1> DEFINE Same == {n \in 0..N : q[n] = p[n]}
<1>5. 0 \in Same
    BY <1>1, <1>3, <1>4
<1>6. \A n \in 0..(N - 1) : n \in Same => n + 1 \in Same
    <2> SUFFICES ASSUME NEW n \in 0..(N - 1), q[n] = p[n] PROVE q[n + 1] = p[n + 1]
        BY <1>1
    <2>1. n + 1 \in 1..N /\ n + 1 \in 1..Len(t) /\ n + 1 - 1 = n
        BY <1>1
    <2> QED BY <1>2, <1>3, <1>4, <2>1
<1>7. q[N] = p[N]
    <2>1. N \in Same
        <3> HIDE DEF Same, N, Step
        <3>1. \A n \in 0..N : n \in Same
            BY <1>1, <1>5, <1>6, UpTo
        <3> QED BY <1>1, <3>1
    <2> QED BY <2>1
<1>8. N + 1 \in 1..Len(t) /\ N + 1 - 1 = N
    BY <1>1
<1>9. q[N + 1] = q[N] + Size(x)
    BY <1>1, <1>4, <1>8
<1> QED BY <1>1, <1>3, <1>4, <1>7, <1>9 DEF t

-----------------------------------------------------------------------------
(* AddAll.                                                                 *)

Store == [slots : [Slots -> [cid : Cids \cup {NoCid}, next : 0..NumOfMacCommands]],
          First : 0..NumOfMacCommands, Last : 0..NumOfMacCommands, SerializedCmdsSize : Nat]

(* MallocNewMacCommandSlot finds a free slot when there is one.            *)
LEMMA LowestFree ==
    ASSUME NEW c, FreeSlots(c) # {}
    PROVE  /\ Lowest(FreeSlots(c)) \in Slots
           /\ c.slots[Lowest(FreeSlots(c))] = FreeSlot
<1>1. FreeSlots(c) \in SUBSET Nat
    BY SlotAssumption DEF FreeSlots, Slots
<1>2. Lowest(FreeSlots(c)) \in FreeSlots(c)
    BY <1>1, LowestProperties
<1> QED BY <1>2 DEF FreeSlots

(* LoRaMacCommandsAddCmd keeps the types.                                  *)
LEMMA AddCmdType ==
    ASSUME NEW c \in Store, NEW cid \in Cids
    PROVE  AddCmd(c, cid) \in Store
<1>1. CASE FreeSlots(c) = {}
    BY <1>1 DEF AddCmd
<1>2. CASE FreeSlots(c) # {}
    <2> DEFINE e == Lowest(FreeSlots(c))
               slots == IF c.Last # NULL THEN [c.slots EXCEPT ![c.Last].next = e] ELSE c.slots
    <2>1. e \in Slots /\ e \in 0..NumOfMacCommands /\ e # NULL
        BY <1>2, LowestFree, SlotAssumption DEF Slots, NULL
    <2> HIDE DEF e
    <2>2. slots \in [Slots -> [cid : Cids \cup {NoCid}, next : 0..NumOfMacCommands]]
        BY <2>1 DEF Store, Slots, NULL
    <2> HIDE DEF slots
    <2>3. AddCmd(c, cid) = [slots |-> [slots EXCEPT ![e] = [cid |-> cid, next |-> NULL]],
                            First |-> IF c.First = NULL THEN e ELSE c.First, Last |-> e,
                            SerializedCmdsSize |-> c.SerializedCmdsSize + Size(cid)]
        BY <1>2 DEF AddCmd, LinkedListAdd, Store, e, slots
    <2>4. c.SerializedCmdsSize + Size(cid) \in Nat
        BY SizeNat DEF Store
    <2>5. [slots EXCEPT ![e] = [cid |-> cid, next |-> NULL]]
            \in [Slots -> [cid : Cids \cup {NoCid}, next : 0..NumOfMacCommands]]
        BY <2>1, <2>2, SlotAssumption DEF NULL
    <2>6. (IF c.First = NULL THEN e ELSE c.First) \in 0..NumOfMacCommands
        BY <2>1 DEF Store
    <2> QED BY <2>1, <2>3, <2>4, <2>5, <2>6 DEF Store
<1> QED BY <1>1, <1>2

(* The walk that adds the answers, as AddAll defines it.                   *)
LEMMA AddAllWalk ==
    ASSUME NEW c \in Store, NEW s \in Seq(Cids)
    PROVE  \E added :
            /\ added[0] = c
            /\ \A n \in 1..Len(s) : added[n] = AddCmd(added[n - 1], s[n])
            /\ AddAll(c, s) = added[Len(s)]
<1> DEFINE Y == Store
           N == Len(s)
           Step(n, p) == AddCmd(p, s[n])
           step == [n \in 1..N |-> [p \in Y |-> Step(n, p)]]
<1>1. N \in Nat /\ c \in Y /\ step \in [1..N -> [Y -> Y]]
    BY AddCmdType
<1> HIDE DEF Y, N, Step
<1>2. \A n \in 1..N, p \in Y : step[n][p] = Step(n, p)
    OBVIOUS
<1> HIDE DEF step
<1>3. PICK f \in [0..N -> Y] : f[0] = c /\ \A n \in 1..N : f[n] = step[n][f[n - 1]]
    <2>1. Steps(step, N, Y)
        BY <1>1 DEF Steps
    <2>2. \E f : Solution(f, c, step, N, Y)
        BY <1>1, <2>1, Recursion
    <2> QED BY <2>2 DEF Solution
<1>4. \A n \in 1..N : n - 1 \in 0..N
    BY <1>1
<1>5. \A n \in 1..N : f[n] = Step(n, f[n - 1])
    BY <1>2, <1>3, <1>4
<1> DEFINE Walk(g) == [n \in 0..N |-> IF n = 0 THEN c ELSE Step(n, g[n - 1])]
           walk == CHOOSE g : g = Walk(g)
<1>6. f = Walk(f)
    BY <1>1, <1>3, <1>5
<1>7. walk = Walk(walk)
    <2> HIDE DEF Walk
    <2> QED BY <1>6
<1>8. AddAll(c, s) = walk[N]
    BY DEF AddAll, N, Step
<1> HIDE DEF walk
<1>9. walk[0] = c /\ \A n \in 1..N : walk[n] = Step(n, walk[n - 1])
    BY <1>1, <1>4, <1>7
<1> HIDE DEF Walk
<1> QED BY <1>8, <1>9 DEF N, Step

(* A downlink without commands in it.                                      *)
LEMMA AddAllEmpty ==
    ASSUME NEW c \in Store
    PROVE  AddAll(c, << >>) = c
<1> DEFINE s == << >>
<1>1. s \in Seq(Cids) /\ Len(s) = 0
    OBVIOUS
<1> HIDE DEF s
<1>2. PICK p : /\ p[0] = c
               /\ \A n \in 1..Len(s) : p[n] = AddCmd(p[n - 1], s[n])
               /\ AddAll(c, s) = p[Len(s)]
    BY <1>1, AddAllWalk
<1> QED BY <1>1, <1>2 DEF s

(* The answer to one more command is added last.                           *)
LEMMA AddAllAppend ==
    ASSUME NEW c \in Store, NEW s \in Seq(Cids), NEW x \in Cids
    PROVE  AddAll(c, Append(s, x)) = AddCmd(AddAll(c, s), x)
<1> DEFINE t == Append(s, x)
           N == Len(s)
           Step(seq, n, p) == AddCmd(p, seq[n])
<1>1. t \in Seq(Cids) /\ N \in Nat /\ Len(t) = N + 1 /\ t[N + 1] = x
    OBVIOUS
<1>2. \A n \in 1..N : t[n] = s[n]
    OBVIOUS
<1> HIDE DEF t
<1>3. PICK p : /\ p[0] = c
               /\ \A n \in 1..N : p[n] = Step(s, n, p[n - 1])
               /\ AddAll(c, s) = p[N]
    BY AddAllWalk
<1>4. PICK q : /\ q[0] = c
               /\ \A n \in 1..Len(t) : q[n] = Step(t, n, q[n - 1])
               /\ AddAll(c, t) = q[Len(t)]
    BY <1>1, AddAllWalk
<1> DEFINE Same == {n \in 0..N : q[n] = p[n]}
<1>5. 0 \in Same
    BY <1>1, <1>3, <1>4
<1>6. \A n \in 0..(N - 1) : n \in Same => n + 1 \in Same
    <2> SUFFICES ASSUME NEW n \in 0..(N - 1), q[n] = p[n] PROVE q[n + 1] = p[n + 1]
        BY <1>1
    <2>1. n + 1 \in 1..N /\ n + 1 \in 1..Len(t) /\ n + 1 - 1 = n
        BY <1>1
    <2> QED BY <1>2, <1>3, <1>4, <2>1
<1>7. q[N] = p[N]
    <2>1. N \in Same
        <3> HIDE DEF Same, N, Step
        <3>1. \A n \in 0..N : n \in Same
            BY <1>1, <1>5, <1>6, UpTo
        <3> QED BY <1>1, <3>1
    <2> QED BY <2>1
<1>8. N + 1 \in 1..Len(t) /\ N + 1 - 1 = N
    BY <1>1
<1>9. q[N + 1] = AddCmd(q[N], x)
    BY <1>1, <1>4, <1>8
<1> QED BY <1>1, <1>3, <1>4, <1>7, <1>9 DEF t

-----------------------------------------------------------------------------
(* The list in the slots.                                                  *)

CidsOf(c, w) == [i \in 1..Len(w) |-> c.slots[w[i]].cid]

(* c holds the slots w, in this order, and nothing else.                   *)
Chain(c, w) ==
    /\ w \in Seq(Slots)
    /\ \A i, j \in 1..Len(w) : w[i] = w[j] => i = j
    /\ \A i \in 1..Len(w) : /\ c.slots[w[i]].cid \in Cids
                            /\ c.slots[w[i]].next = IF i = Len(w) THEN NULL ELSE w[i + 1]
    /\ \A s \in Slots : (\A i \in 1..Len(w) : w[i] # s) => c.slots[s] = FreeSlot
    /\ c.First = IF Len(w) = 0 THEN NULL ELSE w[1]
    /\ c.Last = IF Len(w) = 0 THEN NULL ELSE w[Len(w)]

Lists(c, w) ==
    /\ c \in Store
    /\ Chain(c, w)
    /\ c.SerializedCmdsSize = TotalSize(CidsOf(c, w))

(* A list is no longer than the slots, and fills them when none is free.   *)
LEMMA ChainLength ==
    ASSUME NEW c, NEW w, Chain(c, w)
    PROVE  /\ Len(w) \in 0..NumOfMacCommands
           /\ Len(w) = NumOfMacCommands <=> FreeSlots(c) = {}
<1>0. w \in [1..Len(w) -> Slots] /\ Len(w) \in Nat
    BY DEF Chain
<1>1. w \in Injection(1..Len(w), 1..NumOfMacCommands)
    BY <1>0 DEF Chain, Injection, IsInjective, Slots
<1>2. /\ IsFiniteSet(1..NumOfMacCommands)
      /\ Cardinality(1..NumOfMacCommands) = NumOfMacCommands
      /\ Cardinality(1..Len(w)) = Len(w)
    <2>1. \A n \in Nat : IsFiniteSet(1..n) /\ Cardinality(1..n) = n
        BY FS_Interval
    <2> QED BY <1>0, <2>1, SlotAssumption
<1>3. /\ Len(w) <= NumOfMacCommands
      /\ Len(w) = NumOfMacCommands <=> w \in Surjection(1..Len(w), 1..NumOfMacCommands)
    BY <1>1, <1>2, FS_Injection
<1>4. w \in Surjection(1..Len(w), 1..NumOfMacCommands)
            <=> \A s \in Slots : \E i \in 1..Len(w) : w[i] = s
    BY <1>0 DEF Surjection, Slots
<1>5. (\A s \in Slots : \E i \in 1..Len(w) : w[i] = s) <=> FreeSlots(c) = {}
    <2>0. \A i \in 1..Len(w) : c.slots[w[i]] # FreeSlot
        BY CidAssumption DEF Chain, FreeSlot
    <2>1. \A s \in Slots : s \in FreeSlots(c) <=> \A i \in 1..Len(w) : w[i] # s
        BY <1>0, <2>0 DEF Chain, FreeSlots
    <2> QED BY <2>1 DEF FreeSlots
<1> QED BY <1>0, <1>3, <1>4, <1>5, SlotAssumption

(* Walking from First along next yields the slots the chain names, each    *)
(* once.                                                                   *)
LEMMA ElementsAre ==
    ASSUME NEW c, NEW w, Chain(c, w)
    PROVE  Elements(c) = w
<1> DEFINE next == [e \in 0..NumOfMacCommands |-> IF e = NULL THEN NULL ELSE c.slots[e].next]
           Walk(g) == [n \in Slots |-> IF n = 1 THEN c.First ELSE next[g[n - 1]]]
           reached == CHOOSE g : g = Walk(g)
           at == [n \in Slots |-> IF n <= Len(w) THEN w[n] ELSE NULL]
<1>0. /\ Len(w) \in 0..NumOfMacCommands /\ NumOfMacCommands \in Nat \ {0}
      /\ w \in [1..Len(w) -> Slots]
    <2>1. w \in [1..Len(w) -> Slots]
        BY DEF Chain
    <2>2. Len(w) \in 0..NumOfMacCommands
        BY ONLY ChainLength, Chain(c, w)
    <2> QED BY <2>1, <2>2, SlotAssumption
<1>a. \A n \in Slots : at[n] = IF n <= Len(w) THEN w[n] ELSE NULL
    OBVIOUS
<1>b. \A e \in 0..NumOfMacCommands : next[e] = IF e = NULL THEN NULL ELSE c.slots[e].next
    OBVIOUS
<1>c. \A n \in Slots : n \in Nat /\ n >= 1 /\ n <= NumOfMacCommands
    BY <1>0 DEF Slots
<1>d. at = [n \in Slots |-> at[n]]
    OBVIOUS
<1> HIDE DEF at, next
<1>e. \A n \in Slots : at[n] = IF n = 1 THEN c.First ELSE next[at[n - 1]]
    <2> SUFFICES ASSUME NEW n \in Slots
                 PROVE  at[n] = IF n = 1 THEN c.First ELSE next[at[n - 1]]
        OBVIOUS
    <2>1. CASE n = 1
        <3>1. c.First = IF Len(w) = 0 THEN NULL ELSE w[1]
            BY DEF Chain
        <3> QED BY <1>0, <1>a, <2>1, <3>1
    <2>2. CASE n # 1 /\ n - 1 <= Len(w)
        <3>1. n - 1 \in 1..Len(w) /\ n - 1 \in Slots
            BY <1>0, <1>c, <2>2 DEF Slots
        <3>2. w[n - 1] \in 0..NumOfMacCommands /\ w[n - 1] # NULL /\ at[n - 1] = w[n - 1]
            BY <1>0, <1>a, <1>c, <2>2, <3>1 DEF Slots, NULL
        <3>3. next[at[n - 1]] = IF n - 1 = Len(w) THEN NULL ELSE w[n - 1 + 1]
            BY <1>b, <3>1, <3>2 DEF Chain
        <3>4. n - 1 + 1 = n /\ (n <= Len(w) <=> n - 1 # Len(w))
            BY <1>0, <1>c, <3>1
        <3> QED BY <1>a, <2>2, <3>3, <3>4
    <2>3. CASE n # 1 /\ ~(n - 1 <= Len(w))
        <3>1. n - 1 \in Slots /\ ~(n <= Len(w)) /\ NULL \in 0..NumOfMacCommands
            BY <1>0, <1>c, <2>3 DEF Slots, NULL
        <3>2. at[n - 1] = NULL /\ at[n] = NULL
            BY <1>a, <2>3, <3>1
        <3> QED BY <1>b, <2>3, <3>1, <3>2
    <2> QED BY <2>1, <2>2, <2>3
<1>1. at = Walk(at)
    BY <1>d, <1>e
<1>2. reached = Walk(reached)
    <2> HIDE DEF Walk
    <2> QED BY <1>1
<1> HIDE DEF reached
<1> DEFINE Same == {n \in 0..NumOfMacCommands : n = 0 \/ reached[n] = at[n]}
<1>3. \A n \in Slots : reached[n] = at[n]
    <2>1. 0 \in Same
        BY <1>0
    <2>2. \A n \in 0..(NumOfMacCommands - 1) : n \in Same => n + 1 \in Same
        <3> SUFFICES ASSUME NEW n \in 0..(NumOfMacCommands - 1), n = 0 \/ reached[n] = at[n]
                     PROVE  reached[n + 1] = at[n + 1]
            BY <1>0
        <3>1. n + 1 \in Slots /\ (n # 0 => n + 1 # 1) /\ n + 1 - 1 = n
            BY <1>0 DEF Slots
        <3>2. reached[n + 1] = IF n + 1 = 1 THEN c.First ELSE next[reached[n + 1 - 1]]
            BY <1>2, <3>1
        <3>3. at[n + 1] = IF n + 1 = 1 THEN c.First ELSE next[at[n + 1 - 1]]
            BY <1>e, <3>1
        <3> QED BY <3>1, <3>2, <3>3
    <2>3. \A n \in 0..NumOfMacCommands : n \in Same
        <3> HIDE DEF Same
        <3> QED BY <1>0, <2>1, <2>2, UpTo
    <2>4. \A n \in Slots : n \in 0..NumOfMacCommands /\ n # 0
        BY <1>0 DEF Slots
    <2> QED BY <2>3, <2>4
<1>4. Elements(c) = [n \in {m \in Slots : reached[m] # NULL} |-> reached[n]]
    BY DEF Elements, reached, next
<1>5. {m \in Slots : reached[m] # NULL} = 1..Len(w)
    BY <1>0, <1>3, <1>a DEF Slots, NULL
<1>6. [n \in 1..Len(w) |-> reached[n]] = w
    BY <1>0, <1>3, <1>a DEF Slots
<1> QED BY <1>4, <1>5, <1>6

(* The commands are those of the slots in the list.                        *)
LEMMA CommandsAre ==
    ASSUME NEW c, NEW w, Chain(c, w)
    PROVE  Commands(c) = CidsOf(c, w) /\ CidsOf(c, w) \in Seq(Cids)
             /\ Len(CidsOf(c, w)) = Len(w)
<1>1. Elements(c) = w /\ DOMAIN w = 1..Len(w) /\ Len(w) \in Nat
    BY ElementsAre DEF Chain
<1>2. CidsOf(c, w) \in [1..Len(w) -> Cids]
    BY DEF Chain, CidsOf
<1> QED BY <1>1, <1>2 DEF Commands, CidsOf

(* LoRaMacCommandsAddCmd appends its command when a slot is free.          *)
LEMMA AddLists ==
    ASSUME NEW c, NEW w, Lists(c, w), NEW cid \in Cids, FreeSlots(c) # {}
    PROVE  \E v : Lists(AddCmd(c, cid), v)
             /\ CidsOf(AddCmd(c, cid), v) = Append(CidsOf(c, w), cid)
<1> DEFINE e == Lowest(FreeSlots(c))
           d == AddCmd(c, cid)
           v == Append(w, e)
           N == Len(w)
           slots == IF c.Last # NULL THEN [c.slots EXCEPT ![c.Last].next = e] ELSE c.slots
<1>1. /\ e \in Slots /\ e # NULL /\ c.slots[e] = FreeSlot
      /\ w \in Seq(Slots) /\ N \in Nat /\ \A i \in 1..N : w[i] \in Slots
      /\ c.slots \in [Slots -> [cid : Cids \cup {NoCid}, next : 0..NumOfMacCommands]]
    <2>1. e \in Slots /\ c.slots[e] = FreeSlot
        BY LowestFree
    <2>2. w \in Seq(Slots) /\ N \in Nat /\ \A i \in 1..N : w[i] \in Slots
        BY DEF Lists, Chain
    <2>3. c.slots \in [Slots -> [cid : Cids \cup {NoCid}, next : 0..NumOfMacCommands]]
        BY DEF Lists, Store
    <2>4. \A s \in Slots : s # NULL
        BY SlotAssumption DEF Slots, NULL
    <2> HIDE DEF e, N
    <2> QED BY <2>1, <2>2, <2>3, <2>4
<1>2. \A i \in 1..N : w[i] # e
    BY <1>1, CidAssumption DEF Lists, Chain, FreeSlot
<1>3. d = [slots |-> [slots EXCEPT ![e] = [cid |-> cid, next |-> NULL]],
           First |-> IF c.First = NULL THEN e ELSE c.First, Last |-> e,
           SerializedCmdsSize |-> c.SerializedCmdsSize + Size(cid)]
    BY DEF AddCmd, LinkedListAdd, Lists, Store
<1>4. d \in Store
    BY AddCmdType DEF Lists
<1>5. /\ c.First = IF N = 0 THEN NULL ELSE w[1]
      /\ c.Last = IF N = 0 THEN NULL ELSE w[N]
      /\ \A i \in 1..N : w[i] # NULL
      /\ \A i \in 1..N : c.slots[w[i]].next = IF i = N THEN NULL ELSE w[i + 1]
      /\ \A i, j \in 1..N : w[i] = w[j] => i = j
    BY <1>1 DEF Lists, Chain, Slots, NULL
<1>6. /\ v \in Seq(Slots) /\ Len(v) = N + 1 /\ v[N + 1] = e
      /\ \A i \in 1..N : v[i] = w[i]
    BY <1>1
<1> HIDE DEF d, e, v, N
<1>7. /\ d.slots[e] = [cid |-> cid, next |-> NULL]
      /\ \A s \in Slots : s # e => d.slots[s] = slots[s]
    BY <1>1, <1>3
<1>8. ASSUME NEW s \in Slots
      PROVE  /\ slots[s].cid = c.slots[s].cid
             /\ N # 0 /\ s = w[N] => slots[s].next = e
             /\ N = 0 \/ s # w[N] => slots[s] = c.slots[s]
    <2>1. CASE N = 0
        BY <1>5, <2>1
    <2>2. CASE N # 0
        <3>1. N \in 1..N /\ w[N] \in Slots /\ c.Last = w[N] /\ w[N] # NULL
            BY <1>1, <1>5, <2>2
        <3>2. slots = [c.slots EXCEPT ![w[N]].next = e]
            BY <3>1
        <3> HIDE DEF slots
        <3>3. s # w[N] => slots[s] = c.slots[s]
            BY <1>1, <3>2
        <3>4. s = w[N] => slots[s] = [c.slots[s] EXCEPT !.next = e]
            BY <1>1, <3>2
        <3>5. c.slots[s] \in [cid : Cids \cup {NoCid}, next : 0..NumOfMacCommands]
            BY <1>1
        <3> QED BY <2>2, <3>3, <3>4, <3>5
    <2> QED BY <2>1, <2>2
<1> HIDE DEF slots
<1>9. Chain(d, v)
    <2>1. \A i, j \in 1..Len(v) : v[i] = v[j] => i = j
        BY <1>1, <1>2, <1>5, <1>6
    <2>2. ASSUME NEW i \in 1..Len(v)
          PROVE  /\ d.slots[v[i]].cid \in Cids
                 /\ d.slots[v[i]].next = IF i = Len(v) THEN NULL ELSE v[i + 1]
        <3>1. CASE i = N + 1
            BY <1>6, <1>7, <3>1
        <3>2. CASE i \in 1..N
            <4>1. v[i] = w[i] /\ w[i] \in Slots /\ d.slots[w[i]] = slots[w[i]] /\ i # Len(v)
                BY <1>1, <1>2, <1>6, <1>7, <3>2
            <4>2. slots[w[i]].cid \in Cids
                BY <1>8, <3>2, <4>1 DEF Lists, Chain, N
            <4>3. slots[w[i]].next = v[i + 1]
                <5>1. CASE i = N
                    BY <1>1, <1>6, <1>8, <3>2, <4>1, <5>1
                <5>2. CASE i # N
                    <6>1. i + 1 \in 1..N /\ w[i] # w[N] /\ v[i + 1] = w[i + 1]
                        BY <1>1, <1>5, <1>6, <3>2, <5>2
                    <6>2. slots[w[i]] = c.slots[w[i]]
                        BY <1>8, <4>1, <6>1
                    <6>3. c.slots[w[i]].next = w[i + 1]
                        BY <1>5, <3>2, <5>2
                    <6> QED BY <6>1, <6>2, <6>3
                <5> QED BY <5>1, <5>2
            <4> QED BY <4>1, <4>2, <4>3
        <3> QED BY <1>1, <1>6, <3>1, <3>2
    <2>3. ASSUME NEW s \in Slots, \A i \in 1..Len(v) : v[i] # s
          PROVE  d.slots[s] = FreeSlot
        <3>1. s # e /\ \A i \in 1..N : w[i] # s
            BY <1>1, <1>6, <2>3
        <3>2. c.slots[s] = FreeSlot
            BY <3>1 DEF Lists, Chain, N
        <3>3. N = 0 \/ s # w[N]
            BY <1>1, <3>1
        <3> QED BY <1>7, <1>8, <3>1, <3>2, <3>3
    <2>4. /\ d.First = IF Len(v) = 0 THEN NULL ELSE v[1]
          /\ d.Last = IF Len(v) = 0 THEN NULL ELSE v[Len(v)]
        BY <1>1, <1>3, <1>5, <1>6
    <2> QED BY <1>6, <2>1, <2>2, <2>3, <2>4 DEF Chain
<1>10. CidsOf(d, v) = Append(CidsOf(c, w), cid)
    <2> DEFINE a == CidsOf(d, v)
               b == Append(CidsOf(c, w), cid)
    <2>1. a \in Seq(Cids) /\ Len(a) = N + 1
        BY <1>6, <1>9, CommandsAre
    <2>2. CidsOf(c, w) \in Seq(Cids) /\ Len(CidsOf(c, w)) = N
        BY CommandsAre DEF Lists, N
    <2>3. b \in Seq(Cids) /\ Len(b) = N + 1
        BY <2>2
    <2>4. ASSUME NEW i \in 1..(N + 1) PROVE a[i] = b[i]
        <3>1. a[i] = d.slots[v[i]].cid
            BY <1>6 DEF CidsOf
        <3>2. CASE i = N + 1
            BY <1>1, <1>6, <1>7, <2>2, <3>1, <3>2
        <3>3. CASE i \in 1..N
            <4>1. b[i] = c.slots[w[i]].cid
                BY <2>2, <3>3 DEF CidsOf, N
            <4>2. d.slots[w[i]].cid = c.slots[w[i]].cid
                BY <1>1, <1>2, <1>7, <1>8, <3>3
            <4> QED BY <1>6, <3>1, <3>3, <4>1, <4>2
        <3>4. i = N + 1 \/ i \in 1..N
            BY <1>1
        <3> HIDE DEF a, b
        <3> QED BY <3>2, <3>3, <3>4
    <2> HIDE DEF a, b
    <2>5. a = b
        BY <2>1, <2>3, <2>4, SeqEqual
    <2> QED BY <2>5 DEF a, b
<1>11. d.SerializedCmdsSize = TotalSize(CidsOf(d, v))
    <2>1. CidsOf(c, w) \in Seq(Cids)
        BY CommandsAre DEF Lists
    <2>2. TotalSize(Append(CidsOf(c, w), cid)) = TotalSize(CidsOf(c, w)) + Size(cid)
        BY <2>1, TotalSizeAppend
    <2> QED BY <1>3, <1>10, <2>2 DEF Lists
<1> QED BY <1>4, <1>9, <1>10, <1>11 DEF Lists, d

-----------------------------------------------------------------------------
(* Removing one element.                                                   *)

Without(s, i) == [j \in 1..(Len(s) - 1) |-> IF j < i THEN s[j] ELSE s[j + 1]]

(* Without removes exactly that element.                                   *)
LEMMA WithoutProperties ==
    ASSUME NEW X, NEW s \in Seq(X), NEW i \in 1..Len(s)
    PROVE  /\ Without(s, i) \in Seq(X)
           /\ Len(Without(s, i)) = Len(s) - 1
           /\ \A j \in 1..(Len(s) - 1) : Without(s, i)[j] = IF j < i THEN s[j] ELSE s[j + 1]
<1>1. Len(s) - 1 \in Nat /\ Without(s, i) \in [1..(Len(s) - 1) -> X]
    BY DEF Without
<1>2. Without(s, i) \in Seq(X) /\ Len(Without(s, i)) = Len(s) - 1
    BY <1>1
<1> QED BY <1>2 DEF Without

(* Sizes add up to a natural number.                                       *)
LEMMA TotalSizeNat == \A s \in Seq(Cids) : TotalSize(s) \in Nat
<1> DEFINE T == {s \in Seq(Cids) : TotalSize(s) \in Nat}
<1>1. << >> \in T
    BY TotalSizeEmpty
<1>2. \A s \in Seq(Cids), x \in Cids : s \in T => Append(s, x) \in T
    BY TotalSizeAppend, SizeNat
<1>3. Seq(Cids) \subseteq T
    <2> HIDE DEF T
    <2> QED BY <1>1, <1>2, SequenceInduction
<1> QED BY <1>3

(* Removing a command frees its bytes: what RemoveCmd subtracts.           *)
LEMMA TotalSizeWithout ==
    ASSUME NEW s \in Seq(Cids), NEW i \in 1..Len(s)
    PROVE  TotalSize(s) = TotalSize(Without(s, i)) + Size(s[i])
<1> DEFINE T == {r \in Seq(Cids) : \A k \in 1..Len(r) :
                    TotalSize(r) = TotalSize(Without(r, k)) + Size(r[k])}
<1>1. << >> \in T
    OBVIOUS
<1>2. ASSUME NEW r \in Seq(Cids), NEW x \in Cids, r \in T
      PROVE  Append(r, x) \in T
    <2> DEFINE a == Append(r, x)
    <2>1. /\ a \in Seq(Cids) /\ Len(a) = Len(r) + 1 /\ Len(r) \in Nat
          /\ a[Len(r) + 1] = x /\ \A k \in 1..Len(r) : a[k] = r[k] /\ r[k] \in Cids
        OBVIOUS
    <2>2. TotalSize(a) = TotalSize(r) + Size(x)
        BY TotalSizeAppend
    <2> HIDE DEF a
    <2>3. ASSUME NEW k \in 1..Len(a)
          PROVE  TotalSize(a) = TotalSize(Without(a, k)) + Size(a[k])
        <3>1. CASE k = Len(r) + 1
            <4>1. Without(a, k) \in Seq(Cids) /\ Len(Without(a, k)) = Len(r)
                BY <2>1, WithoutProperties
            <4>2. \A j \in 1..Len(r) : Without(a, k)[j] = r[j]
                BY <2>1, <3>1 DEF Without
            <4>3. Without(a, k) = r
                BY <4>1, <4>2, SeqEqual
            <4> QED BY <2>1, <2>2, <3>1, <4>3
        <3>2. CASE k \in 1..Len(r)
            <4> DEFINE p == Without(a, k)
                       q == Append(Without(r, k), x)
            <4>1. p \in Seq(Cids) /\ Len(p) = Len(r)
                BY <2>1, WithoutProperties
            <4>2. Without(r, k) \in Seq(Cids) /\ Len(Without(r, k)) = Len(r) - 1
                BY <3>2, WithoutProperties
            <4>3. q \in Seq(Cids) /\ Len(q) = Len(r)
                BY <2>1, <4>2
            <4>4. ASSUME NEW j \in 1..Len(r) PROVE p[j] = q[j]
                <5>1. p[j] = IF j < k THEN a[j] ELSE a[j + 1]
                    BY <2>1 DEF Without
                <5>2. CASE j = Len(r)
                    BY <2>1, <3>2, <4>2, <5>1, <5>2
                <5>3. CASE j # Len(r)
                    <6>1. j \in 1..(Len(r) - 1) /\ j + 1 \in 1..Len(r)
                        BY <2>1, <5>3
                    <6>2. q[j] = Without(r, k)[j]
                        BY <4>2, <6>1
                    <6>3. Without(r, k)[j] = IF j < k THEN r[j] ELSE r[j + 1]
                        BY <6>1 DEF Without
                    <6> HIDE DEF p, q
                    <6> QED BY <2>1, <5>1, <6>1, <6>2, <6>3
                <5> QED BY <5>2, <5>3
            <4> HIDE DEF p, q
            <4>5. p = q
                BY <4>1, <4>3, <4>4, SeqEqual
            <4>6. TotalSize(p) = TotalSize(Without(r, k)) + Size(x)
                BY <4>2, <4>5, TotalSizeAppend DEF q
            <4>7. TotalSize(r) = TotalSize(Without(r, k)) + Size(r[k])
                BY <1>2, <3>2
            <4>8. TotalSize(Without(r, k)) \in Nat /\ Size(x) \in Nat /\ Size(r[k]) \in Nat
                BY <2>1, <3>2, <4>2, TotalSizeNat, SizeNat
            <4> QED BY <2>1, <2>2, <3>2, <4>6, <4>7, <4>8 DEF p
        <3> QED BY <2>1, <3>1, <3>2
    <2> QED BY <2>1, <2>3 DEF a
<1>3. Seq(Cids) \subseteq T
    <2> HIDE DEF T
    <2> QED BY <1>1, <1>2, SequenceInduction
<1> QED BY <1>3

(* LinkedListGetPrevious finds the element before one that is in the list. *)
LEMMA PreviousIs ==
    ASSUME NEW c, NEW w, Chain(c, w), NEW i \in 1..Len(w)
    PROVE  LinkedListGetPrevious(c, w[i]) = IF i = 1 THEN NULL ELSE w[i - 1]
<1> DEFINE before == {j \in DOMAIN w : c.slots[w[j]].next = w[i]}
           N == Len(w)
<1>0. N \in Nat /\ i \in 1..N /\ i \in Nat
    BY DEF Chain
<1>1. DOMAIN w = 1..N
    BY DEF Chain
<1>2. \A j \in 1..N : w[j] \in Slots /\ w[j] # NULL
    <2>1. \A s \in Slots : s # NULL
        BY SlotAssumption DEF Slots, NULL
    <2> QED BY <2>1 DEF Chain
<1>3. \A j, k \in 1..N : w[j] = w[k] => j = k
    BY DEF Chain
<1>4. \A j \in 1..N : c.slots[w[j]].next = IF j = N THEN NULL ELSE w[j + 1]
    BY DEF Chain
<1>5. c.First = w[1]
    BY <1>0 DEF Chain
<1>6. LinkedListGetPrevious(c, w[i]) =
            IF w[i] = c.First \/ before = {} THEN NULL ELSE w[Lowest(before)]
    <2>1. Elements(c) = w
        BY ElementsAre
    <2> QED BY <2>1 DEF LinkedListGetPrevious
<1>7. \A j \in before : j \in 1..N /\ c.slots[w[j]].next = w[i]
    BY <1>1
<1>8. i # 1 => i - 1 \in before
    <2>1. i # 1 => i - 1 \in 1..N /\ i - 1 # N /\ i - 1 + 1 = i
        BY <1>0
    <2>2. i # 1 => c.slots[w[i - 1]].next = w[i]
        BY <1>4, <2>1
    <2> QED BY <1>1, <2>1, <2>2
<1> HIDE DEF before, N
<1>9. CASE i = 1
    BY <1>5, <1>6, <1>9
<1>10. CASE i # 1
    <2>1. w[i] # c.First
        <3>1. 1 \in 1..N
            BY <1>0
        <3> QED BY <1>0, <1>3, <1>5, <1>10, <3>1
    <2>2. ASSUME NEW j \in before PROVE j = i - 1
        <3>1. j \in 1..N /\ j # N /\ w[j + 1] = w[i]
            BY <1>0, <1>2, <1>4, <1>7
        <3>2. j + 1 \in 1..N
            BY <1>0, <3>1
        <3>3. j + 1 = i
            BY <1>0, <1>3, <3>1, <3>2
        <3> QED BY <1>0, <3>1, <3>3
    <2>3. before \in SUBSET Nat
        BY <1>0, <1>7
    <2>4. Lowest(before) = i - 1
        BY <1>8, <1>10, <2>2, <2>3, LowestProperties
    <2> QED BY <1>6, <1>8, <1>10, <2>1, <2>4
<1> QED BY <1>9, <1>10

(* LoRaMacCommandsRemoveCmd takes one element out and leaves the others as *)
(* they are.                                                               *)
LEMMA RemoveLists ==
    ASSUME NEW c, NEW w, Lists(c, w), NEW i \in 1..Len(w)
    PROVE  /\ Lists(RemoveCmd(c, w[i]), Without(w, i))
           /\ \A s \in Slots : s # w[i] => RemoveCmd(c, w[i]).slots[s].cid = c.slots[s].cid
<1> DEFINE e == w[i]
           d == RemoveCmd(c, e)
           v == Without(w, i)
           N == Len(w)
           prev == IF i = 1 THEN NULL ELSE w[i - 1]
           next == IF i = N THEN NULL ELSE w[i + 1]
           slots == IF prev # NULL THEN [c.slots EXCEPT ![prev].next = next] ELSE c.slots
           Slot == [cid : Cids \cup {NoCid}, next : 0..NumOfMacCommands]
<1>0. N \in Nat /\ i \in 1..N /\ i \in Nat /\ w \in Seq(Slots) /\ Chain(c, w)
    BY DEF Lists, Chain
<1>1. \A j \in 1..N : w[j] \in Slots /\ w[j] # NULL /\ w[j] \in 0..NumOfMacCommands
    <2>1. \A s \in Slots : s # NULL /\ s \in 0..NumOfMacCommands
        BY SlotAssumption DEF Slots, NULL
    <2> QED BY <1>0, <2>1
<1>2. \A j, k \in 1..N : w[j] = w[k] => j = k
    BY <1>0 DEF Chain
<1>3. \A j \in 1..N : c.slots[w[j]].next = IF j = N THEN NULL ELSE w[j + 1]
    BY <1>0 DEF Chain
<1>4. /\ c.First = w[1] /\ c.Last = w[N]
      /\ c.slots \in [Slots -> Slot]
    BY <1>0 DEF Chain, Lists, Store
<1>5. /\ v \in Seq(Slots) /\ Len(v) = N - 1
      /\ \A j \in 1..(N - 1) : v[j] = IF j < i THEN w[j] ELSE w[j + 1]
    BY <1>0, WithoutProperties
<1>6. /\ i # 1 => i - 1 \in 1..N
      /\ i # N => i + 1 \in 1..N
      /\ prev \in 0..NumOfMacCommands /\ next \in 0..NumOfMacCommands
      /\ prev # NULL <=> i # 1
    <2>1. (i # 1 => i - 1 \in 1..N) /\ (i # N => i + 1 \in 1..N)
        BY <1>0
    <2>2. NULL \in 0..NumOfMacCommands
        BY SlotAssumption DEF NULL
    <2> QED BY <1>1, <2>1, <2>2
<1>7. LinkedListGetPrevious(c, e) = prev /\ c.slots[e].next = next /\ e \in Slots
    BY <1>0, <1>1, <1>3, PreviousIs
<1>8. d = [slots |-> [slots EXCEPT ![e] = FreeSlot],
           First |-> IF c.First = e THEN next ELSE c.First,
           Last |-> IF c.Last = e THEN prev ELSE c.Last,
           SerializedCmdsSize |-> c.SerializedCmdsSize - Size(c.slots[e].cid)]
    <2> DEFINE r == LinkedListRemove(c, e)
    <2>1. r = [slots |-> slots,
               First |-> IF c.First = e THEN next ELSE c.First,
               Last |-> IF c.Last = e THEN prev ELSE c.Last,
               SerializedCmdsSize |-> c.SerializedCmdsSize]
        <3>1. c \in Store
            BY DEF Lists
        <3> HIDE DEF e, prev, next, slots
        <3>2. r = [c EXCEPT !.First = IF @ = e THEN next ELSE @,
                            !.Last = IF @ = e THEN prev ELSE @,
                            !.slots = slots]
            BY <1>7 DEF LinkedListRemove, slots
        <3> HIDE DEF r
        <3> QED BY <3>1, <3>2 DEF Store
    <2>2. d = [r EXCEPT !.SerializedCmdsSize = @ - Size(c.slots[e].cid), !.slots[e] = FreeSlot]
        BY DEF RemoveCmd
    <2> HIDE DEF r, d, slots, e, prev, next
    <2> QED BY <2>1, <2>2
<1>9. slots \in [Slots -> Slot]
    <2>1. CASE i = 1
        BY <1>4, <2>1
    <2>2. CASE i # 1
        <3>1. prev \in Slots /\ prev # NULL
            BY <1>1, <1>6, <2>2
        <3> HIDE DEF prev, next
        <3> QED BY <1>4, <1>6, <3>1
    <2> QED BY <2>1, <2>2
<1>10. ASSUME NEW s \in Slots
       PROVE  /\ slots[s].cid = c.slots[s].cid
              /\ i # 1 /\ s = w[i - 1] => slots[s].next = next
              /\ i = 1 \/ s # w[i - 1] => slots[s] = c.slots[s]
    <2>1. CASE i = 1
        BY <2>1
    <2>2. CASE i # 1
        <3>1. prev = w[i - 1] /\ prev \in Slots /\ slots = [c.slots EXCEPT ![prev].next = next]
            BY <1>1, <1>6, <2>2
        <3> HIDE DEF slots, prev, next
        <3>2. s # prev => slots[s] = c.slots[s]
            BY <1>4, <3>1
        <3>3. s = prev => slots[s] = [c.slots[s] EXCEPT !.next = next]
            BY <1>4, <3>1
        <3>4. c.slots[s] \in Slot
            BY <1>4
        <3> QED BY <2>2, <3>1, <3>2, <3>3, <3>4
    <2> QED BY <2>1, <2>2
<1> HIDE DEF slots, d, v
<1>11. /\ d.slots[e] = FreeSlot
       /\ \A s \in Slots : s # e => d.slots[s] = slots[s]
    BY <1>7, <1>8, <1>9
<1>12. ASSUME NEW s \in Slots, s # e PROVE d.slots[s].cid = c.slots[s].cid
    BY <1>10, <1>11, <1>12
<1>13. Chain(d, v)
    <2>1. ASSUME NEW j \in 1..(N - 1), NEW k \in 1..(N - 1), v[j] = v[k] PROVE j = k
        <3>1. j \in 1..N /\ k \in 1..N /\ j + 1 \in 1..N /\ k + 1 \in 1..N
            BY <1>0
        <3> QED BY <1>0, <1>2, <1>5, <2>1, <3>1
    <2>2. ASSUME NEW j \in 1..(N - 1)
          PROVE  /\ d.slots[v[j]].cid \in Cids
                 /\ d.slots[v[j]].next = IF j = N - 1 THEN NULL ELSE v[j + 1]
        <3> DEFINE k == IF j < i THEN j ELSE j + 1
        <3>1. k \in 1..N /\ k # i /\ v[j] = w[k]
            BY <1>0, <1>5
        <3>2. w[k] \in Slots /\ w[k] # e
            BY <1>0, <1>1, <1>2, <3>1
        <3>3. d.slots[v[j]] = slots[w[k]] /\ slots[w[k]].cid = c.slots[w[k]].cid
            BY <1>10, <1>11, <3>1, <3>2
        <3>4. c.slots[w[k]].cid \in Cids
            BY <1>0, <3>1 DEF Chain
        <3>5. CASE j = i - 1
            <4>1. k = i - 1 /\ i # 1 /\ slots[w[k]].next = next
                BY <1>0, <1>10, <3>2, <3>5
            <4>2. i # N => j + 1 \in 1..(N - 1) /\ v[j + 1] = w[i + 1] /\ j # N - 1
                BY <1>0, <1>5, <3>5
            <4>3. i = N <=> j = N - 1
                BY <1>0, <3>5
            <4> QED BY <3>3, <3>4, <4>1, <4>2, <4>3
        <3>6. CASE j # i - 1
            <4>1. i = 1 \/ (i - 1 \in 1..N /\ k # i - 1)
                BY <1>0, <3>6
            <4>2. i = 1 \/ w[k] # w[i - 1]
                BY <1>2, <3>1, <4>1
            <4>3. slots[w[k]] = c.slots[w[k]]
                BY <1>10, <3>2, <4>2
            <4>4. c.slots[w[k]].next = IF k = N THEN NULL ELSE w[k + 1]
                BY <1>3, <3>1
            <4>5. k = N <=> j = N - 1
                BY <1>0, <3>6
            <4>6. j # N - 1 => v[j + 1] = w[k + 1]
                <5>1. j # N - 1 => j + 1 \in 1..(N - 1)
                    BY <1>0
                <5> QED BY <1>0, <1>5, <3>6, <5>1
            <4> HIDE DEF k
            <4> QED BY <3>3, <3>4, <4>3, <4>4, <4>5, <4>6
        <3> QED BY <3>5, <3>6
    <2>3. ASSUME NEW s \in Slots, \A j \in 1..(N - 1) : v[j] # s
          PROVE  d.slots[s] = FreeSlot
        <3>1. CASE s = e
            BY <1>11, <3>1
        <3>2. CASE s # e
            <4>1. ASSUME NEW k \in 1..N PROVE w[k] # s
                <5>1. CASE k < i
                    <6>1. k \in 1..(N - 1) /\ v[k] = w[k]
                        BY <1>0, <1>5, <5>1
                    <6> QED BY <2>3, <6>1
                <5>2. CASE k > i
                    <6>1. k - 1 \in 1..(N - 1) /\ ~(k - 1 < i) /\ k - 1 + 1 = k
                        BY <1>0, <5>2
                    <6>2. v[k - 1] = w[k]
                        BY <1>5, <6>1
                    <6> QED BY <2>3, <6>1, <6>2
                <5>3. k < i \/ k > i \/ k = i
                    BY <1>0
                <5> QED BY <3>2, <5>1, <5>2, <5>3
            <4>2. c.slots[s] = FreeSlot
                BY <1>0, <4>1 DEF Chain
            <4>3. i = 1 \/ s # w[i - 1]
                BY <1>6, <4>1
            <4> QED BY <1>10, <1>11, <3>2, <4>2, <4>3
        <3> QED BY <3>1, <3>2
    <2>4. d.First = IF N - 1 = 0 THEN NULL ELSE v[1]
        <3>1. CASE i = 1
            <4>1. d.First = next
                BY <1>4, <1>8, <3>1
            <4>2. N - 1 # 0 => 1 \in 1..(N - 1) /\ v[1] = w[2] /\ i # N
                BY <1>0, <1>5, <3>1
            <4> QED BY <1>0, <3>1, <4>1, <4>2
        <3>2. CASE i # 1
            <4>0. 1 < i /\ 1 < N
                BY <1>0, <3>2
            <4>1. 1 \in 1..N /\ 1 \in 1..(N - 1) /\ 1 < i /\ N - 1 # 0
                <5> HIDE DEF N
                <5> QED BY <1>0, <4>0
            <4>2. c.First # e
                BY <1>0, <1>2, <1>4, <3>2, <4>1
            <4> QED BY <1>4, <1>5, <1>8, <4>1, <4>2
        <3> QED BY <3>1, <3>2
    <2>5. d.Last = IF N - 1 = 0 THEN NULL ELSE v[N - 1]
        <3>1. CASE i = N
            <4>1. d.Last = prev
                BY <1>4, <1>8, <3>1
            <4>2. N - 1 # 0 => N - 1 \in 1..(N - 1) /\ v[N - 1] = w[i - 1] /\ i # 1
                BY <1>0, <1>5, <3>1
            <4> QED BY <1>0, <3>1, <4>1, <4>2
        <3>2. CASE i # N
            <4>1. N \in 1..N /\ N - 1 \in 1..(N - 1) /\ ~(N - 1 < i) /\ N - 1 + 1 = N
                BY <1>0, <3>2
            <4>2. c.Last # e
                BY <1>0, <1>2, <1>4, <3>2, <4>1
            <4>3. v[N - 1] = w[N] /\ N - 1 # 0
                BY <1>5, <4>1
            <4> QED BY <1>4, <1>8, <4>2, <4>3
        <3> QED BY <3>1, <3>2
    <2> QED BY <1>5, <2>1, <2>2, <2>3, <2>4, <2>5 DEF Chain
<1>14. CidsOf(d, v) = Without(CidsOf(c, w), i)
    <2> DEFINE a == CidsOf(d, v)
               b == Without(CidsOf(c, w), i)
    <2>1. a \in Seq(Cids) /\ Len(a) = N - 1
        BY <1>5, <1>13, CommandsAre
    <2>2. CidsOf(c, w) \in Seq(Cids) /\ Len(CidsOf(c, w)) = N
        BY <1>0, CommandsAre
    <2>3. /\ b \in Seq(Cids) /\ Len(b) = N - 1
          /\ \A j \in 1..(N - 1) :
                b[j] = IF j < i THEN CidsOf(c, w)[j] ELSE CidsOf(c, w)[j + 1]
        BY <1>0, <2>2, WithoutProperties
    <2>4. ASSUME NEW j \in 1..(N - 1) PROVE a[j] = b[j]
        <3> DEFINE k == IF j < i THEN j ELSE j + 1
        <3>1. k \in 1..N /\ k # i /\ v[j] = w[k]
            BY <1>0, <1>5
        <3>2. w[k] \in Slots /\ w[k] # e
            BY <1>0, <1>1, <1>2, <3>1
        <3>3. a[j] = d.slots[w[k]].cid
            BY <1>5, <3>1 DEF CidsOf
        <3>4. b[j] = CidsOf(c, w)[k]
            BY <2>3
        <3>5. CidsOf(c, w)[k] = c.slots[w[k]].cid
            BY <3>1 DEF CidsOf
        <3> QED BY <1>12, <3>2, <3>3, <3>4, <3>5
    <2> HIDE DEF a, b
    <2>5. a = b
        BY <2>1, <2>3, <2>4, SeqEqual
    <2> QED BY <2>5 DEF a, b
<1>15. d.SerializedCmdsSize = TotalSize(CidsOf(d, v)) /\ d.SerializedCmdsSize \in Nat
    <2>1. CidsOf(c, w) \in Seq(Cids) /\ Len(CidsOf(c, w)) = N
        BY <1>0, CommandsAre
    <2>2. CidsOf(c, w)[i] = c.slots[e].cid
        BY <1>0 DEF CidsOf
    <2>3. TotalSize(CidsOf(c, w)) = TotalSize(Without(CidsOf(c, w), i)) + Size(c.slots[e].cid)
        BY <1>0, <2>1, <2>2, TotalSizeWithout
    <2>4. TotalSize(Without(CidsOf(c, w), i)) \in Nat
        BY <1>0, <2>1, WithoutProperties, TotalSizeNat
    <2>5. Size(c.slots[e].cid) \in Nat
        BY <1>0, SizeNat DEF Chain
    <2>6. c.SerializedCmdsSize = TotalSize(CidsOf(c, w))
        BY DEF Lists
    <2> QED BY <1>8, <1>14, <2>3, <2>4, <2>5, <2>6
<1>16. d \in Store
    <2>1. d.slots \in [Slots -> Slot]
        <3>1. FreeSlot \in Slot
            BY SlotAssumption DEF FreeSlot, NULL
        <3> QED BY <1>7, <1>8, <1>9, <3>1
    <2>2. d.First \in 0..NumOfMacCommands /\ d.Last \in 0..NumOfMacCommands
        BY <1>6, <1>8 DEF Lists, Store
    <2>3. d = [slots |-> d.slots, First |-> d.First, Last |-> d.Last,
               SerializedCmdsSize |-> d.SerializedCmdsSize]
        BY <1>8
    <2> QED BY <1>15, <2>1, <2>2, <2>3 DEF Store
<1> QED BY <1>12, <1>13, <1>15, <1>16 DEF Lists, d, v

-----------------------------------------------------------------------------
(* What Selected does to whole sequences.                                  *)

(* What is selected comes from both.                                       *)
LEMMA SelectedType ==
    ASSUME NEW X, NEW S, NEW s \in Seq(X)
    PROVE  Selected(s, S) \in Seq(X) /\ Selected(s, S) \in Seq(X \cap S)
<1> DEFINE T == {r \in Seq(X) : Selected(r, S) \in Seq(X) /\ Selected(r, S) \in Seq(X \cap S)}
<1>1. << >> \in T
    <2>1. Selected(<< >>, S) = << >>
        BY SelectedEmpty
    <2>2. << >> \in Seq(X) /\ << >> \in Seq(X \cap S)
        OBVIOUS
    <2> QED BY <2>1, <2>2
<1>2. ASSUME NEW r \in Seq(X), NEW x \in X, r \in T
      PROVE  Append(r, x) \in T
    <2>1. Append(r, x) \in Seq(X)
        OBVIOUS
    <2>2. Selected(Append(r, x), S) = IF x \in S THEN Append(Selected(r, S), x)
                                      ELSE Selected(r, S)
        BY SelectedAppend
    <2>3. Selected(r, S) \in Seq(X) /\ Selected(r, S) \in Seq(X \cap S)
        BY <1>2
    <2>4. x \in S => Append(Selected(r, S), x) \in Seq(X)
          /\ Append(Selected(r, S), x) \in Seq(X \cap S)
        BY <2>3
    <2> QED BY <2>1, <2>2, <2>3, <2>4
<1>3. Seq(X) \subseteq T
    <2> HIDE DEF T
    <2> QED BY <1>1, <1>2, SequenceInduction
<1> QED BY <1>3

(* Selecting from two sequences one after the other.                       *)
LEMMA SelectedConcat ==
    ASSUME NEW X, NEW S, NEW s \in Seq(X), NEW t \in Seq(X)
    PROVE  Selected(s \o t, S) = Selected(s, S) \o Selected(t, S)
<1> DEFINE T == {r \in Seq(X) : Selected(s \o r, S) = Selected(s, S) \o Selected(r, S)}
<1>1. << >> \in T
    <2>1. s \o << >> = s /\ Selected(s, S) \o << >> = Selected(s, S)
        BY SelectedType
    <2>2. << >> \in Seq(X) /\ Selected(<< >>, S) = << >>
        BY SelectedEmpty
    <2> QED BY <2>1, <2>2
<1>2. ASSUME NEW r \in Seq(X), NEW x \in X, r \in T
      PROVE  Append(r, x) \in T
    <2> DEFINE p == Selected(s, S)
               q == Selected(r, S)
    <2>1. /\ Append(r, x) \in Seq(X) /\ s \o r \in Seq(X)
          /\ s \o Append(r, x) = Append(s \o r, x)
        OBVIOUS
    <2>2. Selected(s \o Append(r, x), S) =
                IF x \in S THEN Append(Selected(s \o r, S), x) ELSE Selected(s \o r, S)
        BY <2>1, SelectedAppend
    <2>3. Selected(Append(r, x), S) = IF x \in S THEN Append(q, x) ELSE q
        BY SelectedAppend
    <2>4. p \in Seq(X) /\ q \in Seq(X)
        BY SelectedType
    <2>5. Selected(s \o r, S) = p \o q
        BY <1>2
    <2> HIDE DEF p, q
    <2>6. p \o Append(q, x) = Append(p \o q, x)
        BY <2>4
    <2> QED BY <2>1, <2>2, <2>3, <2>5, <2>6 DEF p
<1>3. Seq(X) \subseteq T
    <2> HIDE DEF T
    <2> QED BY <1>1, <1>2, SequenceInduction
<1> QED BY <1>3

(* Selecting everything, or nothing.                                       *)
LEMMA SelectedAllOrNone ==
    ASSUME NEW X, NEW S, NEW s \in Seq(X)
    PROVE  /\ (\A i \in 1..Len(s) : s[i] \in S) => Selected(s, S) = s
           /\ (\A i \in 1..Len(s) : s[i] \notin S) => Selected(s, S) = << >>
<1> DEFINE All(r) == \A i \in 1..Len(r) : r[i] \in S
           None(r) == \A i \in 1..Len(r) : r[i] \notin S
           T == {r \in Seq(X) : /\ All(r) => Selected(r, S) = r
                                /\ None(r) => Selected(r, S) = << >>}
<1>1. << >> \in T
    BY SelectedEmpty
<1>2. ASSUME NEW r \in Seq(X), NEW x \in X, r \in T
      PROVE  Append(r, x) \in T
    <2> DEFINE a == Append(r, x)
    <2>1. a \in Seq(X)
        OBVIOUS
    <2>2. Selected(a, S) = IF x \in S THEN Append(Selected(r, S), x) ELSE Selected(r, S)
        BY SelectedAppend
    <2>3. /\ Len(r) + 1 \in 1..Len(a) /\ a[Len(r) + 1] = x
          /\ \A i \in 1..Len(r) : i \in 1..Len(a) /\ a[i] = r[i]
        OBVIOUS
    <2>4. (All(r) => Selected(r, S) = r) /\ (None(r) => Selected(r, S) = << >>)
        BY <1>2
    <2>5. (All(a) => All(r) /\ x \in S) /\ (None(a) => None(r) /\ x \notin S)
        <3> HIDE DEF a
        <3> QED BY <2>3
    <2> HIDE DEF All, None
    <2> QED BY <2>1, <2>2, <2>4, <2>5
<1>3. Seq(X) \subseteq T
    <2> HIDE DEF T
    <2> QED BY <1>1, <1>2, SequenceInduction
<1> QED BY <1>3

(* The commands of a list with one more slot.                              *)
LEMMA CidsOfAppend ==
    ASSUME NEW c, NEW w \in Seq(Slots), NEW x \in Slots
    PROVE  CidsOf(c, Append(w, x)) = Append(CidsOf(c, w), c.slots[x].cid)
<1> DEFINE X == {c.slots[s].cid : s \in Slots}
           a == CidsOf(c, Append(w, x))
           b == Append(CidsOf(c, w), c.slots[x].cid)
           N == Len(w)
<1>1. N \in Nat /\ Len(Append(w, x)) = N + 1 /\ \A i \in 1..N : Append(w, x)[i] = w[i]
      /\ w[i] \in Slots
    OBVIOUS
<1>2. CidsOf(c, w) \in [1..N -> X] /\ c.slots[x].cid \in X
    BY <1>1 DEF CidsOf
<1>3. CidsOf(c, w) \in Seq(X) /\ Len(CidsOf(c, w)) = N
    BY <1>1, <1>2
<1>4. a \in [1..(N + 1) -> X]
    BY <1>1 DEF CidsOf
<1>5. a \in Seq(X) /\ Len(a) = N + 1
    BY <1>1, <1>4
<1>6. b \in Seq(X) /\ Len(b) = N + 1
    BY <1>2, <1>3
<1>7. \A i \in 1..(N + 1) : a[i] = b[i]
    BY <1>1, <1>3 DEF CidsOf
<1> HIDE DEF a, b, X
<1>8. a = b
    BY <1>5, <1>6, <1>7, SeqEqual
<1> QED BY <1>8 DEF a, b

(* The commands of a list are those of slots.                              *)
LEMMA CidsOfType ==
    ASSUME NEW c, NEW w \in Seq(Slots)
    PROVE  CidsOf(c, w) \in Seq({c.slots[s].cid : s \in Slots}) /\ Len(CidsOf(c, w)) = Len(w)
<1>1. Len(w) \in Nat /\ CidsOf(c, w) \in [1..Len(w) -> {c.slots[s].cid : s \in Slots}]
    BY DEF CidsOf
<1> QED BY <1>1

(* Selecting slots by their command selects the commands.                  *)
LEMMA SelectedCids ==
    ASSUME NEW c, NEW C, NEW w \in Seq(Slots)
    PROVE  CidsOf(c, Selected(w, {s \in Slots : c.slots[s].cid \in C}))
             = Selected(CidsOf(c, w), C)
<1> DEFINE K == {s \in Slots : c.slots[s].cid \in C}
           T == {r \in Seq(Slots) : CidsOf(c, Selected(r, K)) = Selected(CidsOf(c, r), C)}
<1>1. << >> \in T
    <2>1. CidsOf(c, << >>) = << >>
        BY DEF CidsOf
    <2> QED BY <2>1, SelectedEmpty
<1>2. ASSUME NEW r \in Seq(Slots), NEW x \in Slots, r \in T
      PROVE  Append(r, x) \in T
    <2> DEFINE X == {c.slots[s].cid : s \in Slots}
               y == c.slots[x].cid
    <2>1. Append(r, x) \in Seq(Slots) /\ y \in X
        OBVIOUS
    <2>2. Selected(Append(r, x), K) = IF x \in K THEN Append(Selected(r, K), x)
                                      ELSE Selected(r, K)
        BY SelectedAppend
    <2>3. CidsOf(c, Append(r, x)) = Append(CidsOf(c, r), y)
        BY CidsOfAppend
    <2>4. CidsOf(c, r) \in Seq(X)
        BY CidsOfType
    <2>5. Selected(Append(CidsOf(c, r), y), C) =
                IF y \in C THEN Append(Selected(CidsOf(c, r), C), y)
                ELSE Selected(CidsOf(c, r), C)
        <3> DEFINE z == CidsOf(c, r)
        <3> HIDE DEF X, y, z
        <3>1. y \in X /\ z \in Seq(X)
            BY <2>1, <2>4 DEF z
        <3>2. Selected(Append(z, y), C) = IF y \in C THEN Append(Selected(z, C), y)
                                          ELSE Selected(z, C)
            BY <3>1, SelectedAppend
        <3> QED BY <3>2 DEF z
    <2>6. Selected(r, K) \in Seq(Slots)
        BY SelectedType
    <2>7. CidsOf(c, Append(Selected(r, K), x)) = Append(CidsOf(c, Selected(r, K)), y)
        BY <2>6, CidsOfAppend
    <2>8. x \in K <=> y \in C
        OBVIOUS
    <2>9. CidsOf(c, Selected(r, K)) = Selected(CidsOf(c, r), C)
        BY <1>2
    <2> HIDE DEF K, y
    <2> QED BY <2>1, <2>2, <2>3, <2>5, <2>7, <2>8, <2>9
<1>3. Seq(Slots) \subseteq T
    <2> HIDE DEF T
    <2> QED BY <1>1, <1>2, SequenceInduction
<1> QED BY <1>3

-----------------------------------------------------------------------------
(* Removing several elements.                                              *)

(* The list after the first n elements have been looked at.                *)
Rest(w, R, n) == Selected(SubSeq(w, 1, n), Slots \ R) \o SubSeq(w, n + 1, Len(w))

(* r is s without one element, x.                                          *)
Drops(s, x, r) == \E p \in 1..Len(s) : s[p] = x /\ r = Without(s, p)

(* An element in the middle of a sequence, dropped.                        *)
LEMMA DropMiddle ==
    ASSUME NEW X, NEW a \in Seq(X), NEW x \in X, NEW d \in Seq(X)
    PROVE  Drops(Append(a, x) \o d, x, a \o d)
<1> DEFINE q == Append(a, x) \o d
           p == Len(a) + 1
           M == Len(a)
           K == Len(d)
           e == Append(a, x)
           z == a \o d
           y == Without(q, p)
<1>0. M \in Nat /\ K \in Nat /\ p = M + 1 /\ p \in 1..(M + 1 + K)
    OBVIOUS
<1>1. /\ e \in Seq(X) /\ Len(e) = M + 1 /\ e[M + 1] = x
      /\ \A i \in 1..M : e[i] = a[i]
    BY AppendProperties
<1>8. q = e \o d
    OBVIOUS
<1> HIDE DEF e, M, K, p, q
<1>2. /\ q \in Seq(X) /\ Len(q) = M + 1 + K
      /\ \A i \in 1..(M + 1 + K) : q[i] = IF i <= M + 1 THEN e[i] ELSE d[i - (M + 1)]
    <2>1. q = e \o d
        BY <1>8
    <2>2. /\ e \o d \in Seq(X) /\ Len(e \o d) = Len(e) + Len(d)
          /\ \A i \in 1..(Len(e) + Len(d)) :
                (e \o d)[i] = IF i <= Len(e) THEN e[i] ELSE d[i - Len(e)]
        BY <1>1, ConcatProperties
    <2> QED BY <1>1, <2>1, <2>2 DEF K
<1>3. p \in 1..Len(q) /\ q[p] = x
    BY <1>0, <1>1, <1>2
<1>4. /\ z \in Seq(X) /\ Len(z) = M + K
      /\ \A i \in 1..(M + K) : z[i] = IF i <= M THEN a[i] ELSE d[i - M]
    BY ConcatProperties DEF M, K
<1>5. /\ y \in Seq(X) /\ Len(y) = M + K
      /\ \A i \in 1..(M + K) : y[i] = IF i < p THEN q[i] ELSE q[i + 1]
    <2>1. Len(q) - 1 = M + K
        BY <1>0, <1>2
    <2>2. /\ y \in Seq(X) /\ Len(y) = Len(q) - 1
          /\ \A i \in 1..(Len(q) - 1) : y[i] = IF i < p THEN q[i] ELSE q[i + 1]
        BY <1>2, <1>3, WithoutProperties
    <2> QED BY <2>1, <2>2
<1> HIDE DEF y, z
<1>6. ASSUME NEW i \in 1..(M + K) PROVE z[i] = y[i]
    <2>1. CASE i <= M
        <3>1. i < p /\ i \in 1..M /\ i \in 1..(M + 1 + K) /\ i <= M + 1
            BY <1>0, <2>1
        <3> QED BY <1>1, <1>2, <1>4, <1>5, <2>1, <3>1
    <2>2. CASE ~(i <= M)
        <3> DEFINE j == i + 1
        <3>1. ~(i < p) /\ j \in 1..(M + 1 + K) /\ ~(j <= M + 1) /\ j - (M + 1) = i - M
            BY <1>0, <2>2
        <3>2. z[i] = d[i - M]
            BY <1>4, <2>2
        <3>3. y[i] = q[j]
            BY <1>5, <3>1
        <3> HIDE DEF j
        <3>4. q[j] = d[j - (M + 1)]
            BY <1>2, <3>1
        <3> QED BY <3>1, <3>2, <3>3, <3>4
    <2> QED BY <2>1, <2>2
<1>7. z = y
    BY <1>4, <1>5, <1>6, SeqEqual
<1>9. Drops(q, x, z)
    BY <1>3, <1>7 DEF y, Drops
<1> QED BY <1>9 DEF q, z

(* Looking at one more element drops it or leaves the list alone.          *)
LEMMA RestStep ==
    ASSUME NEW w \in Seq(Slots), NEW R, NEW n \in 1..Len(w)
    PROVE  IF w[n] \in R THEN Drops(Rest(w, R, n - 1), w[n], Rest(w, R, n))
                         ELSE Rest(w, R, n) = Rest(w, R, n - 1)
<1> DEFINE N == Len(w)
           x == w[n]
           z == SubSeq(w, 1, n - 1)
           y == SubSeq(w, 1, n)
           d == SubSeq(w, n + 1, N)
           b == SubSeq(w, n, N)
           K == Slots \ R
           a == Selected(z, K)
           q == Append(a, x) \o d
           X == Slots
<1>0. N \in Nat /\ n \in 1..N /\ n \in Int /\ x \in X /\ \A i \in 1..N : w[i] \in X
    OBVIOUS
<1>1. z \in Seq(X) /\ y = Append(z, x)
    BY <1>0
<1>2. d \in Seq(X)
    BY <1>0
<1>3. b = <<x>> \o d
    BY <1>0, SubSeqRecursiveFirst
<1>4. x \in K <=> x \notin R
    BY <1>0
<1>5. Rest(w, R, n) = Selected(y, K) \o d /\ Rest(w, R, n - 1) = a \o b
    <2>1. n - 1 + 1 = n
        BY <1>0
    <2> QED BY <2>1 DEF Rest
<1> HIDE DEF N, x, z, y, d, b, K, X
<1>6. a \in Seq(X)
    BY <1>1, SelectedType
<1>7. Selected(y, K) = IF x \in K THEN Append(a, x) ELSE a
    BY <1>0, <1>1, SelectedAppend
<1> HIDE DEF a
<1>8. a \o b = q
    <2>1. <<x>> \in Seq(X)
        BY <1>0
    <2> DEFINE u == <<x>>
    <2> HIDE DEF u
    <2>2. (a \o u) \o d = a \o (u \o d)
        BY <1>2, <1>6, <2>1, ConcatAssociative DEF u
    <2>3. Append(a, x) = a \o u
        BY <1>0, <1>6, AppendIsConcat DEF u
    <2> QED BY <1>3, <2>2, <2>3 DEF u
<1>9. Drops(q, x, a \o d)
    BY <1>0, <1>2, <1>6, DropMiddle
<1>10. Rest(w, R, n) = IF x \in R THEN a \o d ELSE q
    BY <1>4, <1>5, <1>7
<1>11. Rest(w, R, n - 1) = q
    BY <1>5, <1>8
<1> HIDE DEF q
<1> QED BY <1>9, <1>10, <1>11 DEF x

(* A loop that removes the elements in R, started on a list, keeps a list  *)
(* at every step.                                                          *)
LEMMA RemoveRun ==
    ASSUME NEW c, NEW w, Lists(c, w), NEW R, NEW g, g[0] = c,
           \A n \in 1..Len(w) : Lists(g[n - 1], Rest(w, R, n - 1)) =>
                g[n] = IF w[n] \in R THEN RemoveCmd(g[n - 1], w[n]) ELSE g[n - 1]
    PROVE  \A n \in 0..Len(w) :
                /\ Lists(g[n], Rest(w, R, n))
                /\ \A s \in Slots : s \notin R => g[n].slots[s].cid = c.slots[s].cid
<1> DEFINE N == Len(w)
           Good(n) == /\ Lists(g[n], Rest(w, R, n))
                      /\ \A s \in Slots : s \notin R => g[n].slots[s].cid = c.slots[s].cid
           T == {n \in 0..N : Good(n)}
<1>0. w \in Seq(Slots) /\ N \in Nat
    BY DEF Lists, Chain
<1>1. 0 \in T
    <2>1. SubSeq(w, 1, 0) = << >> /\ SubSeq(w, 0 + 1, Len(w)) = w
        BY <1>0, SubSeqFull, SubSeqEmpty
    <2>2. Rest(w, R, 0) = << >> \o w
        BY <2>1, SelectedEmpty DEF Rest
    <2>3. << >> \o w = w
        BY <1>0
    <2>4. Good(0)
        BY <2>2, <2>3
    <2> HIDE DEF Good
    <2> QED BY <1>0, <2>4
<1>2. ASSUME NEW k \in 0..(N - 1), k \in T
      PROVE  k + 1 \in T
    <2> DEFINE n == k + 1
    <2>1. n \in 1..N /\ n - 1 = k /\ n \in 0..N
        BY <1>0
    <2>2. Good(k)
        BY <1>2
    <2> HIDE DEF n
    <2>3. g[n] = IF w[n] \in R THEN RemoveCmd(g[k], w[n]) ELSE g[k]
        BY <2>1, <2>2
    <2>4. IF w[n] \in R THEN Drops(Rest(w, R, k), w[n], Rest(w, R, n))
                        ELSE Rest(w, R, n) = Rest(w, R, k)
        BY <1>0, <2>1, RestStep
    <2>5. Good(n)
        <3>1. CASE w[n] \in R
            <4>1. PICK p \in 1..Len(Rest(w, R, k)) :
                    /\ Rest(w, R, k)[p] = w[n]
                    /\ Rest(w, R, n) = Without(Rest(w, R, k), p)
                BY <2>4, <3>1 DEF Drops
            <4>2. /\ Lists(RemoveCmd(g[k], w[n]), Rest(w, R, n))
                  /\ \A s \in Slots : s # w[n] =>
                        RemoveCmd(g[k], w[n]).slots[s].cid = g[k].slots[s].cid
                BY <2>2, <4>1, RemoveLists
            <4>3. \A s \in Slots : s \notin R => s # w[n]
                BY <3>1
            <4> QED BY <2>2, <2>3, <3>1, <4>2, <4>3
        <3>2. CASE w[n] \notin R
            BY <2>2, <2>3, <2>4, <3>2
        <3> QED BY <3>1, <3>2
    <2> HIDE DEF Good
    <2> QED BY <2>1, <2>5 DEF n
<1>3. \A n \in 0..N : n \in T
    <2> HIDE DEF T, N
    <2> QED BY <1>0, <1>1, <1>2, UpTo
<1> QED BY <1>3

(* The loops of LoRaMacCommandsRemoveNoneStickyCmds, of                    *)
(* LoRaMacCommandsRemoveStickyAnsCmds and at the end of                    *)
(* LoRaMacCommandsSerializeCmds leave the elements outside R, in order.    *)
LEMMA RemoveAllLists ==
    ASSUME NEW c, NEW w, Lists(c, w), NEW R
    PROVE  LET v == Selected(w, Slots \ R)
           IN  /\ Lists(RemoveAll(c, R), v)
               /\ CidsOf(RemoveAll(c, R), v) = CidsOf(c, v)
<1> DEFINE es == Elements(c)
           N == Len(es)
           Step(n, x) == IF es[n] \in R THEN RemoveCmd(x, es[n]) ELSE x
           step == [n \in 1..N |-> [x \in Store |-> IF Step(n, x) \in Store
                                                     THEN Step(n, x) ELSE x]]
           Walk(g) == [n \in 0..N |-> IF n = 0 THEN c ELSE Step(n, g[n - 1])]
           left == CHOOSE g : g = Walk(g)
           d == RemoveAll(c, R)
<1>0. es = w
    BY ElementsAre DEF Lists
<1>1. Lists(c, es) /\ es \in Seq(Slots) /\ N \in Nat /\ c \in Store
    BY <1>0 DEF Lists, Chain
<1>2. d = left[N]
    BY DEF RemoveAll
<1> HIDE DEF es, d
<1>3. step \in [1..N -> [Store -> Store]]
    <2> HIDE DEF Step
    <2> QED OBVIOUS
<1>4. \A n \in 1..N, x \in Store : step[n][x] = IF Step(n, x) \in Store THEN Step(n, x) ELSE x
    <2> HIDE DEF Step
    <2> QED OBVIOUS
<1> HIDE DEF step
<1>5. PICK f \in [0..N -> Store] : f[0] = c /\ \A n \in 1..N : f[n] = step[n][f[n - 1]]
    <2>1. Steps(step, N, Store)
        BY <1>3 DEF Steps
    <2>2. \E f : Solution(f, c, step, N, Store)
        BY <1>1, <2>1, Recursion
    <2> QED BY <2>2 DEF Solution
<1>6. \A n \in 1..N : n - 1 \in 0..N
    BY <1>1
<1>7. ASSUME NEW n \in 1..N, Lists(f[n - 1], Rest(es, R, n - 1))
      PROVE  f[n] = Step(n, f[n - 1])
    <2>1. es[n] \in R => Drops(Rest(es, R, n - 1), es[n], Rest(es, R, n))
        BY <1>1, RestStep
    <2>2. ASSUME es[n] \in R PROVE RemoveCmd(f[n - 1], es[n]) \in Store
        <3>1. PICK p \in 1..Len(Rest(es, R, n - 1)) :
                /\ Rest(es, R, n - 1)[p] = es[n]
                /\ Rest(es, R, n) = Without(Rest(es, R, n - 1), p)
            BY <2>1, <2>2 DEF Drops
        <3> QED BY <1>7, <3>1, RemoveLists DEF Lists
    <2>3. f[n - 1] \in Store
        BY <1>6
    <2>4. Step(n, f[n - 1]) \in Store
        BY <2>2, <2>3
    <2>5. f[n] = step[n][f[n - 1]]
        BY <1>5
    <2> HIDE DEF Step
    <2> QED BY <1>4, <2>3, <2>4, <2>5
<1>8. \A n \in 0..N : Lists(f[n], Rest(es, R, n))
    BY <1>1, <1>5, <1>7, RemoveRun
<1>9. f = Walk(f)
    <2>1. \A n \in 1..N : f[n] = Step(n, f[n - 1])
        BY <1>6, <1>7, <1>8
    <2> HIDE DEF Step
    <2> QED BY <1>1, <1>5, <2>1
<1>10. left = Walk(left)
    <2> HIDE DEF Walk
    <2> QED BY <1>9
<1> HIDE DEF left
<1>11. left[0] = c /\ \A n \in 1..N : left[n] = Step(n, left[n - 1])
    <2> HIDE DEF Step
    <2> QED BY <1>1, <1>6, <1>10
<1>12. /\ Lists(left[N], Rest(es, R, N))
       /\ \A s \in Slots : s \notin R => left[N].slots[s].cid = c.slots[s].cid
    <2>1. N \in 0..N
        BY <1>1
    <2> QED BY <1>1, <1>11, <2>1, RemoveRun
<1>13. Rest(es, R, N) = Selected(es, Slots \ R)
    <2>1. SubSeq(es, 1, N) = es /\ SubSeq(es, N + 1, N) = << >>
        BY <1>1, SubSeqFull, SubSeqEmpty
    <2>2. Selected(es, Slots \ R) \in Seq(Slots)
        BY <1>1, SelectedType
    <2>3. Selected(es, Slots \ R) \o << >> = Selected(es, Slots \ R)
        BY <2>2
    <2> QED BY <2>1, <2>3 DEF Rest
<1>14. CidsOf(d, Selected(es, Slots \ R)) = CidsOf(c, Selected(es, Slots \ R))
    <2> DEFINE v == Selected(es, Slots \ R)
    <2>1. v \in Seq(Slots \cap (Slots \ R))
        BY <1>1, SelectedType
    <2> HIDE DEF v
    <2>2. \A i \in 1..Len(v) : v[i] \in Slots /\ v[i] \notin R
        BY <2>1
    <2>3. \A i \in 1..Len(v) : d.slots[v[i]].cid = c.slots[v[i]].cid
        BY <1>2, <1>12, <2>2
    <2>4. CidsOf(d, v) = CidsOf(c, v)
        BY <2>3 DEF CidsOf
    <2> QED BY <2>4 DEF v
<1> QED BY <1>0, <1>2, <1>12, <1>13, <1>14 DEF d

(* Two sets that agree on the elements select the same.                    *)
LEMMA SelectedSame ==
    ASSUME NEW X, NEW A, NEW B, \A x \in X : x \in A <=> x \in B, NEW s \in Seq(X)
    PROVE  Selected(s, A) = Selected(s, B)
<1> DEFINE T == {r \in Seq(X) : Selected(r, A) = Selected(r, B)}
<1>1. << >> \in T
    <2>1. Selected(<< >>, A) = << >> /\ Selected(<< >>, B) = << >>
        BY SelectedEmpty
    <2>2. << >> \in Seq(X)
        OBVIOUS
    <2> QED BY <2>1, <2>2
<1>2. ASSUME NEW r \in Seq(X), NEW x \in X, r \in T PROVE Append(r, x) \in T
    <2>1. Selected(Append(r, x), A) = IF x \in A THEN Append(Selected(r, A), x)
                                      ELSE Selected(r, A)
        BY SelectedAppend
    <2>2. Selected(Append(r, x), B) = IF x \in B THEN Append(Selected(r, B), x)
                                      ELSE Selected(r, B)
        BY SelectedAppend
    <2>3. Append(r, x) \in Seq(X)
        OBVIOUS
    <2> DEFINE t == Append(r, x)
    <2> HIDE DEF t
    <2>4. Selected(r, A) = Selected(r, B) /\ (x \in A <=> x \in B)
        BY <1>2
    <2>5. Selected(t, A) = Selected(t, B)
        BY <2>1, <2>2, <2>4, Zenon DEF t
    <2>6. t \in T
        BY <2>3, <2>5 DEF t
    <2> QED BY <2>6 DEF t
<1>3. Seq(X) \subseteq T
    <2> HIDE DEF T
    <2> QED BY <1>1, <1>2, SequenceInduction
<1> QED BY <1>3

-----------------------------------------------------------------------------
(* The operations of LoRaMacCommands.c, as what they do to the sequence.   *)

(* c stores the commands cmds.                                             *)
Holds(c, cmds) == \E w : Lists(c, w) /\ CidsOf(c, w) = cmds

(* What a store that holds cmds looks like from outside.                   *)
LEMMA HoldsProperties ==
    ASSUME NEW c, NEW cmds, Holds(c, cmds)
    PROVE  /\ c \in Store /\ cmds \in Seq(Cids) /\ Commands(c) = cmds
           /\ c.SerializedCmdsSize = TotalSize(cmds)
           /\ Len(cmds) \in 0..NumOfMacCommands
           /\ Len(cmds) = NumOfMacCommands <=> FreeSlots(c) = {}
<1>1. PICK w : Lists(c, w) /\ CidsOf(c, w) = cmds
    BY DEF Holds
<1>2. Chain(c, w) /\ c \in Store /\ c.SerializedCmdsSize = TotalSize(cmds)
    BY <1>1 DEF Lists
<1>3. Commands(c) = cmds /\ cmds \in Seq(Cids) /\ Len(cmds) = Len(w)
    BY <1>1, <1>2, CommandsAre
<1> QED BY <1>2, <1>3, ChainLength

(* LoRaMacCommandsInit.                                                    *)
LEMMA HoldsInit == Holds(CommandsInit, << >>)
<1> DEFINE c == CommandsInit
           w == << >>
<1>1. /\ c.slots = [s \in Slots |-> FreeSlot] /\ c.First = NULL /\ c.Last = NULL
      /\ c.SerializedCmdsSize = 0
    BY DEF CommandsInit
<1>2. c \in Store
    BY SlotAssumption DEF CommandsInit, Store, FreeSlot, NULL
<1> HIDE DEF c
<1>3. w \in Seq(Slots) /\ Len(w) = 0
    OBVIOUS
<1>4. CidsOf(c, w) = << >>
    BY <1>3 DEF CidsOf
<1> HIDE DEF w
<1>5. Chain(c, w)
    BY <1>1, <1>3 DEF Chain
<1>6. c.SerializedCmdsSize = TotalSize(CidsOf(c, w))
    BY <1>1, <1>4, TotalSizeEmpty
<1>7. Lists(c, w)
    BY <1>2, <1>5, <1>6 DEF Lists
<1> QED BY <1>4, <1>7 DEF Holds, c

(* LoRaMacCommandsAddCmd.                                                  *)
LEMMA HoldsAdd ==
    ASSUME NEW c, NEW cmds, Holds(c, cmds), NEW cid \in Cids
    PROVE  Holds(AddCmd(c, cid), IF Len(cmds) < NumOfMacCommands THEN Append(cmds, cid)
                                 ELSE cmds)
<1>1. PICK w : Lists(c, w) /\ CidsOf(c, w) = cmds
    BY DEF Holds
<1>2. Len(cmds) < NumOfMacCommands <=> FreeSlots(c) # {}
    BY HoldsProperties, SlotAssumption
<1>3. CASE FreeSlots(c) = {}
    BY <1>2, <1>3 DEF AddCmd
<1>4. CASE FreeSlots(c) # {}
    BY <1>1, <1>2, <1>4, AddLists DEF Holds
<1> QED BY <1>3, <1>4

(* A loop that removes all commands outside C.                             *)
LEMMA HoldsRemove ==
    ASSUME NEW c, NEW cmds, Holds(c, cmds), NEW R, NEW C,
           \A s \in Slots : s \in R <=> c.slots[s].cid \notin C
    PROVE  Holds(RemoveAll(c, R), Selected(cmds, C))
<1>1. PICK w : Lists(c, w) /\ CidsOf(c, w) = cmds
    BY DEF Holds
<1> DEFINE K == {s \in Slots : c.slots[s].cid \in C}
           v == Selected(w, Slots \ R)
<1>2. Slots \ R = K
    OBVIOUS
<1>3. Lists(RemoveAll(c, R), v) /\ CidsOf(RemoveAll(c, R), v) = CidsOf(c, v)
    BY <1>1, RemoveAllLists
<1>4. CidsOf(c, Selected(w, K)) = Selected(cmds, C)
    BY <1>1, SelectedCids DEF Lists, Chain
<1> HIDE DEF K
<1>5. CidsOf(c, v) = Selected(cmds, C)
    BY <1>2, <1>4
<1> HIDE DEF v
<1> QED BY <1>3, <1>5 DEF Holds

(* LoRaMacCommandsRemoveNoneStickyCmds.                                    *)
LEMMA HoldsRemoveNoneSticky ==
    ASSUME NEW c, NEW cmds, Holds(c, cmds)
    PROVE  Holds(RemoveNoneStickyCmds(c), Selected(cmds, StickyCids))
<1> DEFINE R == {s \in Slots : ~IsSticky(c.slots[s].cid)}
<1>1. \A s \in Slots : s \in R <=> c.slots[s].cid \notin StickyCids
    BY DEF IsSticky
<1>2. RemoveNoneStickyCmds(c) = RemoveAll(c, R)
    BY DEF RemoveNoneStickyCmds
<1> HIDE DEF R
<1> QED BY <1>1, <1>2, HoldsRemove

(* LoRaMacCommandsRemoveStickyAnsCmds.                                     *)
LEMMA HoldsRemoveSticky ==
    ASSUME NEW c, NEW cmds, Holds(c, cmds)
    PROVE  Holds(RemoveStickyAnsCmds(c), Selected(cmds, NotSticky))
<1> DEFINE R == {s \in Slots : IsSticky(c.slots[s].cid)}
           C == (Cids \cup {NoCid}) \ StickyCids
<1>1. \A s \in Slots : s \in R <=> c.slots[s].cid \notin C
    <2>1. \A s \in Slots : c.slots[s].cid \in Cids \cup {NoCid}
        BY HoldsProperties DEF Store
    <2> QED BY <2>1 DEF IsSticky
<1>2. RemoveStickyAnsCmds(c) = RemoveAll(c, R)
    BY DEF RemoveStickyAnsCmds
<1>3. \A x \in Cids : x \in C <=> x \in NotSticky
    BY DEF NotSticky
<1> HIDE DEF R, C
<1>4. Holds(RemoveAll(c, R), Selected(cmds, C))
    BY <1>1, HoldsRemove
<1>5. cmds \in Seq(Cids)
    BY HoldsProperties
<1>6. Selected(cmds, C) = Selected(cmds, NotSticky)
    BY <1>3, <1>5, SelectedSame
<1> QED BY <1>2, <1>4, <1>6

(* Part of the commands takes no more room than all of them.               *)
LEMMA TotalSizePrefix ==
    ASSUME NEW s \in Seq(Cids)
    PROVE  \A n \in 0..Len(s) : TotalSize(SubSeq(s, 1, n)) <= TotalSize(s)
<1> DEFINE N == Len(s)
           T == {k \in 0..N : TotalSize(SubSeq(s, 1, N - k)) <= TotalSize(s)}
<1>0. N \in Nat /\ \A i \in 1..N : s[i] \in Cids
    OBVIOUS
<1>1. 0 \in T
    <2> DEFINE j == N - 0
    <2>1. j = N
        BY <1>0
    <2> HIDE DEF j
    <2>2. SubSeq(s, 1, j) = s
        BY <2>1, SubSeqFull
    <2>3. TotalSize(s) \in Nat
        BY TotalSizeNat
    <2> DEFINE total == TotalSize(SubSeq(s, 1, j))
    <2>4. total = TotalSize(s)
        BY <2>2, Zenon
    <2> HIDE DEF total
    <2>5. total <= TotalSize(s)
        BY <2>3, <2>4
    <2> QED BY <1>0, <2>5 DEF j, total
<1>2. ASSUME NEW k \in 0..(N - 1), k \in T PROVE k + 1 \in T
    <2> DEFINE n == N - k
               a == SubSeq(s, 1, n - 1)
               b == SubSeq(s, 1, n)
    <2>1. n \in 1..N /\ n - 1 = N - (k + 1) /\ k + 1 \in 0..N
        BY <1>0
    <2> HIDE DEF n
    <2>2. a \in Seq(Cids) /\ b = Append(a, s[n]) /\ s[n] \in Cids
        BY <1>0, <2>1
    <2>3. TotalSize(b) <= TotalSize(s)
        BY <1>2 DEF n
    <2> HIDE DEF a, b
    <2>4. TotalSize(b) = TotalSize(a) + Size(s[n])
        BY <2>2, TotalSizeAppend
    <2>5. TotalSize(a) \in Nat /\ TotalSize(b) \in Nat /\ TotalSize(s) \in Nat
          /\ Size(s[n]) \in Nat
        BY <2>2, <2>4, TotalSizeNat, SizeNat
    <2>6. TotalSize(a) <= TotalSize(s)
        BY <2>3, <2>4, <2>5
    <2> QED BY <2>1, <2>6 DEF a
<1>3. \A k \in 0..N : k \in T
    <2> HIDE DEF T, N
    <2> QED BY <1>0, <1>1, <1>2, UpTo
<1> SUFFICES ASSUME NEW n \in 0..N PROVE TotalSize(SubSeq(s, 1, n)) <= TotalSize(s)
    OBVIOUS
<1>4. N - n \in T /\ N - (N - n) = n
    BY <1>0, <1>3
<1> QED BY <1>4

(* The part of a sequence that NumOfMacCommands slots take.                *)
Capped(s) == SubSeq(s, 1, IF Len(s) < NumOfMacCommands THEN Len(s) ELSE NumOfMacCommands)

(* A sequence that fits is not cut.                                        *)
LEMMA CappedShort ==
    ASSUME NEW s \in Seq(Cids), Len(s) <= NumOfMacCommands
    PROVE  Capped(s) = s
<1>1. (IF Len(s) < NumOfMacCommands THEN Len(s) ELSE NumOfMacCommands) = Len(s)
    BY SlotAssumption
<1>2. Capped(s) = SubSeq(s, 1, Len(s))
    BY <1>1, Zenon DEF Capped
<1> QED BY <1>2, SubSeqFull

(* What is there already is never cut, only what is added to it.           *)
LEMMA CappedConcat ==
    ASSUME NEW s \in Seq(Cids), Len(s) <= NumOfMacCommands, NEW t \in Seq(Cids)
    PROVE  \E z \in Seq(Cids) : Capped(s \o t) = s \o z
<1> DEFINE q == s \o t
           M == Len(s)
           N == Len(t)
           K == IF M + N < NumOfMacCommands THEN M + N ELSE NumOfMacCommands
           z == SubSeq(t, 1, K - M)
           x == SubSeq(q, 1, K)
           y == s \o z
<1>0. M \in Nat /\ N \in Nat /\ K \in Nat /\ M <= K /\ K <= M + N /\ NumOfMacCommands \in Nat
    BY SlotAssumption
<1>1. /\ q \in Seq(Cids) /\ Len(q) = M + N
      /\ \A i \in 1..(M + N) : q[i] = IF i <= M THEN s[i] ELSE t[i - M]
    BY ConcatProperties
<1>2. Capped(q) = x
    BY <1>1, Zenon DEF Capped
<1> HIDE DEF K, q, M, N
<1>3. z \in Seq(Cids) /\ Len(z) = K - M /\ \A i \in 1..(K - M) : z[i] = t[i]
    <2>1. K - M \in 0..N
        BY <1>0
    <2> QED BY <2>1 DEF N
<1> HIDE DEF z
<1>4. /\ y \in Seq(Cids) /\ Len(y) = K
      /\ \A i \in 1..K : y[i] = IF i <= M THEN s[i] ELSE z[i - M]
    <2>1. M + Len(z) = K
        BY <1>0, <1>3
    <2>2. /\ y \in Seq(Cids) /\ Len(y) = Len(s) + Len(z)
          /\ \A i \in 1..(Len(s) + Len(z)) : y[i] = IF i <= Len(s) THEN s[i] ELSE z[i - Len(s)]
        BY <1>3, ConcatProperties
    <2> QED BY <2>1, <2>2 DEF M
<1>5. x \in Seq(Cids) /\ Len(x) = K /\ \A i \in 1..K : x[i] = q[i]
    <2>1. K \in 0..Len(q)
        BY <1>0, <1>1
    <2> QED BY <1>1, <2>1
<1> HIDE DEF x, y
<1>6. ASSUME NEW i \in 1..K PROVE x[i] = y[i]
    <2>1. i \in 1..(M + N) /\ (~(i <= M) => i - M \in 1..(K - M))
        BY <1>0
    <2>2. CASE i <= M
        BY <1>1, <1>4, <1>5, <2>1, <2>2
    <2>3. CASE ~(i <= M)
        <3>1. x[i] = t[i - M]
            BY <1>1, <1>5, <2>1, <2>3
        <3>2. y[i] = z[i - M]
            BY <1>4, <2>3
        <3>3. z[i - M] = t[i - M]
            BY <1>3, <2>1, <2>3
        <3> QED BY <3>1, <3>2, <3>3
    <2> QED BY <2>2, <2>3
<1>7. x = y
    BY <1>4, <1>5, <1>6, SeqEqual
<1> QED BY <1>2, <1>3, <1>7 DEF q, y

(* One more element is taken while there is room and dropped afterwards.   *)
LEMMA CappedAppend ==
    ASSUME NEW s \in Seq(Cids), NEW x \in Cids
    PROVE  /\ Len(s) < NumOfMacCommands => /\ Capped(s) = s
                                           /\ Capped(Append(s, x)) = Append(s, x)
           /\ ~(Len(s) < NumOfMacCommands) =>
                /\ Len(Capped(s)) = NumOfMacCommands
                /\ Capped(Append(s, x)) = Capped(s)
<1> DEFINE t == Append(s, x)
<1>1. t \in Seq(Cids) /\ Len(t) = Len(s) + 1 /\ \A i \in 1..Len(s) : t[i] = s[i]
    BY AppendProperties
<1>2. Len(s) \in Nat /\ NumOfMacCommands \in Nat
    BY SlotAssumption
<1> HIDE DEF t
<1>3. ASSUME Len(s) < NumOfMacCommands PROVE Capped(s) = s /\ Capped(t) = t
    <2>1. Len(s) <= NumOfMacCommands /\ Len(t) <= NumOfMacCommands
        BY <1>1, <1>2, <1>3
    <2> QED BY <1>1, <2>1, CappedShort
<1>4. ASSUME ~(Len(s) < NumOfMacCommands)
      PROVE  Len(Capped(s)) = NumOfMacCommands /\ Capped(t) = Capped(s)
    <2> DEFINE N == NumOfMacCommands
               a == SubSeq(s, 1, N)
               b == SubSeq(t, 1, N)
    <2>1. Capped(s) = a
        BY <1>4 DEF Capped
    <2>2. ~(Len(t) < NumOfMacCommands)
        BY <1>1, <1>2, <1>4
    <2>3. Capped(t) = b
        BY <2>2 DEF Capped
    <2> HIDE DEF N
    <2>4. N \in 0..Len(s) /\ N \in 0..Len(t) /\ N \in Nat
        BY <1>1, <1>2, <1>4 DEF N
    <2>5. a \in Seq(Cids) /\ Len(a) = N /\ \A i \in 1..N : a[i] = s[i]
        BY <2>4
    <2>6. b \in Seq(Cids) /\ Len(b) = N /\ \A i \in 1..N : b[i] = t[i]
        BY <1>1, <2>4
    <2> HIDE DEF a, b
    <2>7. \A i \in 1..N : a[i] = b[i]
        BY <1>1, <2>4, <2>5, <2>6
    <2>8. a = b
        BY <2>5, <2>6, <2>7, SeqEqual
    <2> QED BY <2>1, <2>3, <2>5, <2>8 DEF N
<1> QED BY <1>3, <1>4 DEF t

(* The answers of a downlink are appended, as many as there are slots for. *)
LEMMA HoldsAddAll ==
    ASSUME NEW c, NEW cmds, Holds(c, cmds), NEW answers \in Seq(Cids)
    PROVE  Holds(AddAll(c, answers), Capped(cmds \o answers))
<1> DEFINE T == {r \in Seq(Cids) : Holds(AddAll(c, r), Capped(cmds \o r))}
<1>0. cmds \in Seq(Cids) /\ Len(cmds) <= NumOfMacCommands /\ c \in Store
    BY HoldsProperties, SlotAssumption
<1>1. << >> \in T
    <2> DEFINE s == << >>
    <2>1. s \in Seq(Cids) /\ cmds \o s = cmds
        BY <1>0
    <2>2. AddAll(c, s) = c
        BY <1>0, AddAllEmpty
    <2>3. Capped(cmds) = cmds
        BY <1>0, CappedShort
    <2> HIDE DEF s
    <2>4. Holds(AddAll(c, s), Capped(cmds \o s))
        BY <2>1, <2>2, <2>3
    <2> QED BY <2>1, <2>4 DEF s
<1>2. ASSUME NEW r \in Seq(Cids), NEW x \in Cids, r \in T PROVE Append(r, x) \in T
    <2> DEFINE q == cmds \o r
               t == Append(r, x)
    <2>1. t \in Seq(Cids) /\ q \in Seq(Cids) /\ cmds \o t = Append(q, x)
        BY <1>0
    <2>2. Holds(AddAll(c, r), Capped(q))
        BY <1>2
    <2>3. AddAll(c, t) = AddCmd(AddAll(c, r), x)
        BY <1>0, AddAllAppend
    <2> HIDE DEF q, t
    <2>4. Holds(AddAll(c, t), IF Len(Capped(q)) < NumOfMacCommands
                              THEN Append(Capped(q), x) ELSE Capped(q))
        BY <2>2, <2>3, HoldsAdd
    <2>5. (IF Len(Capped(q)) < NumOfMacCommands THEN Append(Capped(q), x) ELSE Capped(q)) =
                Capped(Append(q, x))
        BY <2>1, CappedAppend, SlotAssumption
    <2>6. t \in T
        BY <2>1, <2>4, <2>5
    <2> QED BY <2>6 DEF t
<1>3. Seq(Cids) \subseteq T
    <2> HIDE DEF T
    <2> QED BY <1>1, <1>2, SequenceInduction
<1> QED BY <1>3

(* The commands before the first unfit one fit; if all fit there is no     *)
(* unfit one.                                                              *)
LEMMA FirstUnfitProperties ==
    ASSUME NEW c, NEW cmds, Holds(c, cmds), NEW available \in Nat
    PROVE  LET k == FirstUnfit(c, available)
           IN  /\ k \in 1..(Len(cmds) + 1)
               /\ TotalSize(SubSeq(cmds, 1, k - 1)) <= available
               /\ TotalSize(cmds) <= available => k = Len(cmds) + 1
<1> DEFINE N == Len(cmds)
           S == {i \in DOMAIN cmds : TotalSize(SubSeq(cmds, 1, i)) > available} \cup {N + 1}
           k == FirstUnfit(c, available)
<1>0. cmds \in Seq(Cids) /\ Commands(c) = cmds
    BY HoldsProperties
<1>1. N \in Nat /\ DOMAIN cmds = 1..N
    BY <1>0
<1>2. k = Lowest(S)
    BY <1>0 DEF FirstUnfit
<1>3. S \in SUBSET Nat /\ N + 1 \in S
    BY <1>1
<1> HIDE DEF k
<1>4. k \in S /\ \A m \in S : k <= m
    <2> HIDE DEF S
    <2> QED BY <1>2, <1>3, LowestProperties
<1>5. k \in 1..(N + 1)
    BY <1>1, <1>4
<1>6. TotalSize(SubSeq(cmds, 1, k - 1)) <= available
    <2> DEFINE j == k - 1
               a == SubSeq(cmds, 1, j)
    <2>1. j \in 0..N /\ ~(k <= j)
        BY <1>1, <1>5
    <2> HIDE DEF j
    <2>2. a \in Seq(Cids)
        BY <1>0, <2>1
    <2>3. CASE j = 0
        <3>1. a = << >>
            BY <2>1, <2>3
        <3>2. TotalSize(a) = 0
            BY <3>1, TotalSizeEmpty, Zenon
        <3> HIDE DEF a
        <3>3. TotalSize(a) <= available
            BY <3>2
        <3> QED BY <3>3 DEF a, j
    <2>4. CASE j # 0
        <3>1. j \in DOMAIN cmds /\ j \notin S
            BY <1>1, <1>4, <2>1, <2>4
        <3>2. ~(TotalSize(a) > available)
            BY <3>1
        <3> HIDE DEF a
        <3>3. TotalSize(a) \in Nat
            BY <2>2, TotalSizeNat
        <3>4. TotalSize(a) <= available
            BY <3>2, <3>3
        <3> QED BY <3>4 DEF a, j
    <2> QED BY <2>3, <2>4
<1>7. ASSUME TotalSize(cmds) <= available PROVE k = N + 1
    <2>1. ASSUME NEW i \in 1..N PROVE ~(TotalSize(SubSeq(cmds, 1, i)) > available)
        <3> DEFINE a == SubSeq(cmds, 1, i)
        <3>1. i \in 0..N
            BY <1>1
        <3>2. a \in Seq(Cids)
            BY <1>0, <1>1
        <3>3. TotalSize(a) <= TotalSize(cmds)
            BY <1>0, <3>1, TotalSizePrefix
        <3> HIDE DEF a
        <3>4. TotalSize(a) \in Nat /\ TotalSize(cmds) \in Nat
            BY <1>0, <3>2, TotalSizeNat
        <3>5. ~(TotalSize(a) > available)
            BY <1>7, <3>3, <3>4
        <3> QED BY <3>5 DEF a
    <2>2. \A i \in S : i = N + 1
        BY <1>1, <2>1
    <2> QED BY <1>4, <2>2
<1> QED BY <1>5, <1>6, <1>7 DEF k

(* LoRaMacCommandsSerializeCmds keeps the commands before the first unfit  *)
(* one.                                                                    *)
LEMMA HoldsSerialize ==
    ASSUME NEW c, NEW cmds, Holds(c, cmds), NEW available \in Nat
    PROVE  Holds(SerializeCmds(c, available), SubSeq(cmds, 1, FirstUnfit(c, available) - 1))
<1>1. PICK w : Lists(c, w) /\ CidsOf(c, w) = cmds
    BY DEF Holds
<1> DEFINE N == Len(w)
           k == FirstUnfit(c, available)
           R == {Elements(c)[i] : i \in k..Len(Elements(c))}
           a == SubSeq(w, 1, k - 1)
           b == SubSeq(w, k, N)
           v == Selected(w, Slots \ R)
<1>2. Chain(c, w)
    BY <1>1 DEF Lists
<1>3. /\ w \in Seq(Slots) /\ N \in Nat /\ Elements(c) = w /\ Len(cmds) = N
      /\ \A i, j \in 1..N : w[i] = w[j] => i = j
    <2>1. Elements(c) = w
        BY <1>2, ElementsAre
    <2>2. Len(cmds) = N
        BY <1>1, <1>2, CommandsAre
    <2> QED BY <1>2, <2>1, <2>2 DEF Chain
<1>4. k \in 1..(N + 1)
    BY <1>3, FirstUnfitProperties
<1>5. R = {w[i] : i \in k..N}
    BY <1>3
<1>6. SerializeCmds(c, available) = RemoveAll(c, R)
    BY DEF SerializeCmds
<1> HIDE DEF k, R
<1>7. Lists(RemoveAll(c, R), v) /\ CidsOf(RemoveAll(c, R), v) = CidsOf(c, v)
    BY <1>1, RemoveAllLists
<1>8. v = a
    <2> DEFINE K == Slots \ R
    <2>1. /\ a \in Seq(Slots) /\ Len(a) = k - 1
          /\ \A i \in 1..(k - 1) : a[i] = w[i]
        BY <1>3, <1>4
    <2>2. /\ b \in Seq(Slots) /\ Len(b) = N - k + 1
          /\ \A i \in 1..(N - k + 1) : b[i] = w[k + i - 1]
        BY <1>3, <1>4
    <2>3. \A i \in 1..(k - 1) : w[i] \in K
        BY <1>3, <1>4, <1>5
    <2>4. \A i \in 1..(N - k + 1) : w[k + i - 1] \notin K
        BY <1>3, <1>4, <1>5
    <2>5. a \o b = w
        <3> DEFINE n == k - 1
        <3>1. n + 1 = k /\ n \in 0..N /\ n \in (1 - 1)..N /\ 1 \in 1..(N + 1) /\ N \in n..N
            BY <1>3, <1>4
        <3> HIDE DEF n
        <3>2. SubSeq(w, 1, n) \o SubSeq(w, n + 1, N) = SubSeq(w, 1, N)
            BY <1>3, <3>1, ConcatAdjacentSubSeq
        <3>3. SubSeq(w, 1, N) = w
            BY <1>3, SubSeqFull
        <3> QED BY <3>1, <3>2, <3>3 DEF n
    <2> HIDE DEF a, b, K
    <2>6. Selected(a, K) = a
        BY <2>1, <2>3, SelectedAllOrNone
    <2>7. Selected(b, K) = << >>
        BY <2>2, <2>4, SelectedAllOrNone
    <2>8. Selected(a \o b, K) = Selected(a, K) \o Selected(b, K)
        BY <2>1, <2>2, SelectedConcat
    <2>9. a \o << >> = a
        BY <2>1
    <2> QED BY <2>5, <2>6, <2>7, <2>8, <2>9, Zenon DEF K
<1>9. CidsOf(c, a) = SubSeq(cmds, 1, k - 1)
    <2> DEFINE x == CidsOf(c, a)
               y == SubSeq(cmds, 1, k - 1)
               n == k - 1
    <2>1. n \in 0..N /\ Len(a) = n /\ \A i \in 1..n : a[i] = w[i]
        BY <1>3, <1>4
    <2>2. cmds \in Seq(Cids) /\ \A i \in 1..N : cmds[i] = c.slots[w[i]].cid
        BY <1>1, <1>2, CommandsAre DEF CidsOf
    <2> HIDE DEF n, a
    <2>3. y = SubSeq(cmds, 1, n)
        BY DEF n
    <2> HIDE DEF y
    <2>4. y \in Seq(Cids) /\ Len(y) = n /\ \A i \in 1..n : y[i] = cmds[i]
        BY <1>3, <2>1, <2>2, <2>3
    <2>5. x = [i \in 1..n |-> c.slots[a[i]].cid]
        BY <2>1 DEF CidsOf
    <2> HIDE DEF x
    <2>6. \A i \in 1..n : x[i] = y[i] /\ x[i] \in Cids
        BY <2>1, <2>2, <2>4, <2>5
    <2>7. x \in [1..n -> Cids]
        BY <2>5, <2>6
    <2>8. n \in Nat
        BY <1>3, <2>1
    <2>9. x \in Seq(Cids) /\ Len(x) = n
        BY <2>7, <2>8
    <2>10. x = y
        BY <2>4, <2>6, <2>9, SeqEqual
    <2> QED BY <2>10 DEF x, y
<1> HIDE DEF v, a
<1>10. CidsOf(c, v) = SubSeq(cmds, 1, k - 1)
    BY <1>8, <1>9
<1>11. Holds(RemoveAll(c, R), SubSeq(cmds, 1, k - 1))
    BY <1>7, <1>10 DEF Holds
<1> QED BY <1>6, <1>11 DEF k

(* Prefixes.                                                               *)
LEMMA PrefixConcat ==
    ASSUME NEW X, NEW s \in Seq(X), NEW t \in Seq(X)
    PROVE  IsPrefix(s, s \o t)
<1> DEFINE q == s \o t
           N == Len(s)
           a == SubSeq(q, 1, N)
<1>1. /\ q \in Seq(X) /\ Len(q) = N + Len(t)
      /\ \A i \in 1..N : q[i] = s[i]
    BY ConcatProperties
<1>2. N \in Nat /\ Len(t) \in Nat
    OBVIOUS
<1> HIDE DEF q
<1>3. N \in 0..Len(q)
    BY <1>1, <1>2
<1> HIDE DEF N
<1>4. a \in Seq(X) /\ Len(a) = N /\ \A i \in 1..N : a[i] = q[i]
    BY <1>1, <1>2, <1>3
<1> HIDE DEF a
<1>5. \A i \in 1..N : a[i] = s[i]
    BY <1>1, <1>4
<1>6. a = s
    BY <1>4, <1>5, SeqEqual DEF N
<1>7. SubSeq(s, 1, N) = s
    BY SubSeqFull DEF N
<1>8. N <= Len(q) /\ SubSeq(s, 1, N) = a
    BY <1>1, <1>2, <1>6, <1>7
<1> QED BY <1>8 DEF IsPrefix, N, a, q

(* A sequence is a prefix of itself.                                       *)
LEMMA PrefixSame ==
    ASSUME NEW X, NEW s \in Seq(X)
    PROVE  IsPrefix(s, s)
BY DEF IsPrefix

(* Selecting again selects the same.                                       *)
LEMMA SelectedTwice ==
    ASSUME NEW X, NEW S, NEW s \in Seq(X)
    PROVE  Selected(Selected(s, S), S) = Selected(s, S)
<1> DEFINE t == Selected(s, S)
           Y == X \cap S
<1>1. t \in Seq(Y)
    BY SelectedType
<1> HIDE DEF t
<1>2. \A i \in 1..Len(t) : t[i] \in Y
    BY <1>1
<1>3. \A i \in 1..Len(t) : t[i] \in S
    BY <1>2
<1> HIDE DEF Y
<1>4. Selected(t, S) = t
    BY <1>1, <1>3, SelectedAllOrNone
<1> QED BY <1>4 DEF t

(* Appending appends to what is selected.                                  *)
LEMMA SelectedPrefix ==
    ASSUME NEW X, NEW S, NEW s \in Seq(X), NEW t \in Seq(X)
    PROVE  IsPrefix(Selected(s, S), Selected(s \o t, S))
<1> DEFINE a == Selected(s, S)
           b == Selected(t, S)
           q == s \o t
<1>1. a \in Seq(X) /\ b \in Seq(X)
    BY SelectedType
<1>2. Selected(q, S) = a \o b
    BY SelectedConcat
<1> HIDE DEF a, b, q
<1>3. IsPrefix(a, a \o b)
    BY <1>1, PrefixConcat
<1>4. IsPrefix(a, Selected(q, S))
    BY <1>2, <1>3, Zenon
<1> QED BY <1>4 DEF a, q

-----------------------------------------------------------------------------
(* PrepareFrame.                                                           *)

(* The elements before the k-th are all of them when k is one past the     *)
(* last.                                                                   *)
LEMMA ClippedPrefix ==
    ASSUME NEW cmds \in Seq(Cids), NEW k \in 1..(Len(cmds) + 1)
    PROVE  k - 1 \in 0..Len(cmds) /\ (k = Len(cmds) + 1 => SubSeq(cmds, 1, k - 1) = cmds)
<1>1. Len(cmds) \in Nat
    OBVIOUS
<1>2. k - 1 \in 0..Len(cmds)
    BY <1>1
<1>3. ASSUME k = Len(cmds) + 1 PROVE SubSeq(cmds, 1, k - 1) = cmds
    <2> DEFINE j == k - 1
    <2>1. j = Len(cmds)
        BY <1>1, <1>3
    <2> HIDE DEF j
    <2>2. SubSeq(cmds, 1, j) = cmds
        BY <2>1, SubSeqFull
    <2> QED BY <2>2 DEF j
<1> QED BY <1>2, <1>3

(* Preparing a frame clips the list from its tail, and only for want of     *)
(* room; what stays fits into FOpts beside application data.               *)
LEMMA HoldsPrepared ==
    ASSUME NEW c, NEW cmds, Holds(c, cmds), NEW app \in Nat, maxPayload \in Nat
    PROVE  \E n \in 0..Len(cmds) :
            /\ Holds(PreparedCommands(c, app), SubSeq(cmds, 1, n))
            /\ maxPayload >= c.SerializedCmdsSize => SubSeq(cmds, 1, n) = cmds
            /\ app > 0 /\ ~SkippedAppData(c, app) =>
                    TotalSize(SubSeq(cmds, 1, n)) <= MaxFOptsLength
<1> DEFINE size == c.SerializedCmdsSize
           d == PreparedCommands(c, app)
           Fits(n) == TotalSize(SubSeq(cmds, 1, n)) <= MaxFOptsLength
           Whole(n) == SubSeq(cmds, 1, n) = cmds
           k(available) == FirstUnfit(c, available)
<1>0. /\ cmds \in Seq(Cids) /\ size = TotalSize(cmds) /\ size \in Nat /\ Len(cmds) \in Nat
      /\ MaxFOptsLength \in Nat
    BY HoldsProperties, TotalSizeNat, LengthAssumption
<1>1. ASSUME NEW available \in Nat
      PROVE  /\ k(available) - 1 \in 0..Len(cmds)
             /\ Holds(SerializeCmds(c, available), SubSeq(cmds, 1, k(available) - 1))
             /\ TotalSize(SubSeq(cmds, 1, k(available) - 1)) <= available
             /\ size <= available => Whole(k(available) - 1)
    <2> DEFINE u == FirstUnfit(c, available)
    <2>1. /\ u \in 1..(Len(cmds) + 1)
          /\ TotalSize(SubSeq(cmds, 1, u - 1)) <= available
          /\ TotalSize(cmds) <= available => u = Len(cmds) + 1
        BY FirstUnfitProperties
    <2>2. Holds(SerializeCmds(c, available), SubSeq(cmds, 1, u - 1))
        BY HoldsSerialize
    <2> HIDE DEF u
    <2>3. u - 1 \in 0..Len(cmds) /\ (u = Len(cmds) + 1 => SubSeq(cmds, 1, u - 1) = cmds)
        BY <1>0, <2>1, ClippedPrefix
    <2>4. size <= available => Whole(u - 1)
        BY <1>0, <2>1, <2>3
    <2> HIDE DEF Whole
    <2> QED BY <2>1, <2>2, <2>3, <2>4 DEF u
<1> DEFINE Good(n) == /\ Holds(d, SubSeq(cmds, 1, n))
                      /\ maxPayload >= size => Whole(n)
                      /\ app > 0 /\ ~SkippedAppData(c, app) => Fits(n)
<1>2. CASE size = 0
    <2> DEFINE n == Len(cmds)
    <2>1. SubSeq(cmds, 1, n) = cmds
        BY <1>0, SubSeqFull
    <2>2. d = c
        BY <1>2 DEF PreparedCommands
    <2>3. TotalSize(cmds) <= MaxFOptsLength
        BY <1>0, <1>2
    <2> HIDE DEF n, d
    <2>4. Holds(d, SubSeq(cmds, 1, n)) /\ Whole(n) /\ Fits(n)
        BY <2>1, <2>2, <2>3, Zenon
    <2> HIDE DEF Whole, Fits
    <2>5. Good(n) /\ n \in 0..Len(cmds)
        BY <1>0, <2>4 DEF n
    <2> HIDE DEF Good
    <2> QED BY <2>5 DEF Good, d, Whole, Fits
<1>3. CASE size # 0 /\ app > 0 /\ size <= MaxFOptsLength
    <2> DEFINE n == k(MaxFOptsLength) - 1
    <2>1. d = SerializeCmds(c, MaxFOptsLength)
        BY <1>3 DEF PreparedCommands
    <2> HIDE DEF d, Whole
    <2>2. n \in 0..Len(cmds) /\ Holds(d, SubSeq(cmds, 1, n)) /\ Whole(n) /\ Fits(n)
        BY <1>0, <1>1, <1>3, <2>1
    <2> HIDE DEF n, Fits
    <2>3. Good(n)
        BY <2>2
    <2> HIDE DEF Good
    <2> QED BY <2>2, <2>3 DEF Good, d, Whole, Fits
<1>4. CASE size # 0 /\ ~(app > 0 /\ size <= MaxFOptsLength)
    <2> DEFINE n == k(maxPayload) - 1
    <2>1. d = SerializeCmds(c, maxPayload)
        BY <1>4 DEF PreparedCommands
    <2>2. ~(app > 0 /\ ~SkippedAppData(c, app))
        BY <1>0, <1>4 DEF SkippedAppData
    <2> HIDE DEF d, Whole
    <2>3. n \in 0..Len(cmds) /\ Holds(d, SubSeq(cmds, 1, n)) /\ (maxPayload >= size => Whole(n))
        BY <1>0, <1>1, <2>1
    <2> HIDE DEF n, Fits
    <2>4. Good(n)
        BY <2>2, <2>3
    <2> HIDE DEF Good
    <2> QED BY <2>3, <2>4 DEF Good, d, Whole, Fits
<1> QED BY <1>2, <1>3, <1>4

(* What a frame carries is what the list then holds.                       *)
LEMMA FrameCarries ==
    ASSUME NEW c, NEW cmds, NEW app \in Nat, Holds(PreparedCommands(c, app), cmds)
    PROVE  LET f == PreparedFrame(c, app)
           IN  /\ f.app = app /\ f.skipped = SkippedAppData(c, app)
               /\ f.fopts \in Seq(Cids) /\ f.payload \in Seq(Cids)
               /\ f.fopts = IF app > 0 /\ ~f.skipped THEN cmds ELSE << >>
               /\ f.payload = IF app = 0 THEN cmds ELSE << >>
               /\ ~f.skipped => f.fopts \o f.payload = cmds
<1> DEFINE f == PreparedFrame(c, app)
           skipped == SkippedAppData(c, app)
           empty == << >>
           fopts == IF app > 0 /\ ~skipped THEN cmds ELSE empty
           payload == IF app = 0 THEN cmds ELSE empty
<1>1. Commands(PreparedCommands(c, app)) = cmds /\ cmds \in Seq(Cids)
    BY HoldsProperties
<1>2. f = [app |-> app, fopts |-> fopts, payload |-> payload, skipped |-> skipped]
    BY <1>1 DEF PreparedFrame
<1>3. empty \in Seq(Cids) /\ cmds \o empty = cmds /\ empty \o cmds = cmds
    BY <1>1
<1>4. app = 0 => ~skipped
    BY DEF SkippedAppData
<1> HIDE DEF f, skipped, empty
<1>5. fopts \in Seq(Cids) /\ payload \in Seq(Cids)
    BY <1>1, <1>3
<1>6. ~skipped => fopts \o payload = cmds
    <2>1. CASE app = 0
        <3>1. fopts = empty /\ payload = cmds
            BY <2>1
        <3> HIDE DEF fopts, payload
        <3> QED BY <1>3, <3>1
    <2>2. CASE app > 0
        <3>1. ~skipped => fopts = cmds /\ payload = empty
            BY <2>2
        <3> HIDE DEF fopts, payload
        <3> QED BY <1>3, <3>1
    <2>3. app = 0 \/ app > 0
        OBVIOUS
    <2> HIDE DEF fopts, payload
    <2> QED BY <2>1, <2>2, <2>3, Zenon
<1> HIDE DEF fopts, payload
<1>7. f.app = app /\ f.fopts = fopts /\ f.payload = payload /\ f.skipped = skipped
    BY <1>2
<1>8. fopts = (IF app > 0 /\ ~skipped THEN cmds ELSE << >>)
    BY Zenon DEF fopts, empty
<1>9. payload = (IF app = 0 THEN cmds ELSE << >>)
    BY Zenon DEF payload, empty
<1> QED BY <1>5, <1>6, <1>7, <1>8, <1>9, Zenon DEF f, skipped

-----------------------------------------------------------------------------
(* The inductive invariant.                                                *)
IInv == TypeOK /\ Holds(commandsCtx, Commands(commandsCtx))

(* The numbers and sequences the invariant provides.                       *)
LEMMA InvNat ==
    ASSUME IInv
    PROVE  /\ maxPayload \in Nat /\ plan.app \in Nat /\ plan.app \in AppSizes \cup {0}
           /\ commandsCtx \in Store /\ Commands(commandsCtx) \in Seq(Cids)
<1>1. commandsCtx \in Store /\ Commands(commandsCtx) \in Seq(Cids)
    BY HoldsProperties DEF IInv
<1>2. maxPayload \in MaxPayloads /\ plan.app \in AppSizes \cup {0}
    BY DEF IInv, TypeOK
<1>3. maxPayload \in Nat /\ plan.app \in Nat
    <2>1. MaxPayloads \subseteq Nat /\ AppSizes \cup {0} \subseteq Nat
        BY LengthAssumption
    <2> DEFINE app == plan.app
    <2> HIDE DEF app
    <2>2. app \in AppSizes \cup {0}
        BY <1>2 DEF app
    <2>3. app \in Nat
        BY <2>1, <2>2
    <2> QED BY <1>2, <2>1, <2>3 DEF app
<1> QED BY <1>1, <1>2, <1>3

(* The list without the sticky answers a downlink settles.                 *)
Settled(slot, ack) ==
    IF slot = "class_a" /\ (exchange = "confirmed" => ack)
    THEN Selected(Commands(commandsCtx), NotSticky) ELSE Commands(commandsCtx)

(* A downlink settles the sticky answers or not, never outside a class A   *)
(* window, and then appends what it is answered with.                      *)
LEMMA HoldsDownlink ==
    ASSUME IInv, NEW slot, NEW ack, NEW answers \in BoundedSeq(Cids \ Requests, MaxAnswers)
    PROVE  LET cmds == Commands(commandsCtx)
           IN  /\ answers \in BoundedSeq(Cids, MaxAnswers) /\ answers \in Seq(Cids)
               /\ \E settled \in {cmds, Selected(cmds, NotSticky)} :
                    /\ settled = Settled(slot, ack)
                    /\ Holds(RemoveMacCommands(commandsCtx, slot, ack), settled)
                    /\ settled \in Seq(Cids) /\ Len(settled) <= NumOfMacCommands
                    /\ Holds(AddAll(RemoveMacCommands(commandsCtx, slot, ack), answers),
                             Capped(settled \o answers))
<1> DEFINE cmds == Commands(commandsCtx)
           d == RemoveMacCommands(commandsCtx, slot, ack)
           s == Settled(slot, ack)
<1>1. answers \in BoundedSeq(Cids, MaxAnswers) /\ answers \in Seq(Cids)
    <2>1. PICK m \in 0..MaxAnswers : answers \in [1..m -> Cids \ Requests]
        BY DEF BoundedSeq, SeqOf
    <2>2. answers \in [1..m -> Cids] /\ m \in Nat
        BY <2>1, AnswersAssumption
    <2> QED BY <2>2 DEF BoundedSeq, SeqOf
<1>2. Holds(commandsCtx, cmds)
    BY DEF IInv
<1>3. s \in {cmds, Selected(cmds, NotSticky)} /\ Holds(d, s)
    <2>1. CASE slot = "class_a" /\ (exchange = "confirmed" => ack)
        <3>1. d = RemoveStickyAnsCmds(commandsCtx) /\ s = Selected(cmds, NotSticky)
            BY <2>1 DEF RemoveMacCommands, Settled
        <3> HIDE DEF d, s, cmds
        <3> QED BY <1>2, <3>1, HoldsRemoveSticky
    <2>2. CASE ~(slot = "class_a" /\ (exchange = "confirmed" => ack))
        <3>1. d = commandsCtx /\ s = cmds
            BY <2>2 DEF RemoveMacCommands, Settled
        <3> HIDE DEF d, s, cmds
        <3> QED BY <1>2, <3>1
    <2> QED BY <2>1, <2>2
<1>4. s \in Seq(Cids) /\ Len(s) <= NumOfMacCommands
    BY <1>3, HoldsProperties, SlotAssumption
<1>5. Holds(AddAll(d, answers), Capped(s \o answers))
    BY <1>1, <1>3, HoldsAddAll
<1> HIDE DEF d
<1> QED BY <1>1, <1>3, <1>4, <1>5 DEF d

(* A sequence without its first part is the part that was appended.        *)
LEMMA Appended ==
    ASSUME NEW X, NEW s \in Seq(X), NEW z \in Seq(X)
    PROVE  SubSeq(s \o z, Len(s) + 1, Len(s \o z)) = z
<1> DEFINE q == s \o z
           M == Len(s)
           N == Len(z)
           a == SubSeq(q, M + 1, M + N)
<1>1. q \in Seq(X) /\ Len(q) = M + N /\ \A i \in 1..N : q[M + i] = z[i]
    OBVIOUS
<1>2. M \in Nat /\ N \in Nat
    OBVIOUS
<1> HIDE DEF q, M, N
<1>3. a \in Seq(X) /\ Len(a) = N /\ \A i \in 1..N : a[i] = q[M + i]
    BY <1>1, <1>2
<1> HIDE DEF a
<1>4. a = z
    BY <1>1, <1>3, SeqEqual DEF N
<1> QED BY <1>1, <1>4 DEF q, M, N, a

(* What a downlink makes of the list and of the observer.                  *)
LEMMA DownlinkLists ==
    ASSUME IInv, NEW slot, NEW ack, NEW answers \in BoundedSeq(Cids \ Requests, MaxAnswers),
           Downlink(slot, ack, answers)
    PROVE  \E z \in Seq(Cids) :
            /\ Settled(slot, ack) \in Seq(Cids)
            /\ Commands(commandsCtx') = Settled(slot, ack) \o z
            /\ late' = IF Heard THEN (IF Proves(slot, ack) THEN << >> ELSE late)
                                        \o Selected(z, StickyCids)
                       ELSE late
<1> DEFINE settled == Settled(slot, ack)
           c == RemoveMacCommands(commandsCtx, slot, ack)
           d == AddAll(c, answers)
<1>1. /\ answers \in Seq(Cids) /\ settled \in Seq(Cids) /\ Len(settled) <= NumOfMacCommands
      /\ Holds(c, settled) /\ Holds(d, Capped(settled \o answers))
    BY HoldsDownlink
<1>2. /\ commandsCtx' = d
      /\ late' = IF Heard THEN (IF Proves(slot, ack) THEN << >> ELSE late)
                                  \o Selected(Added(c, commandsCtx'), StickyCids)
                 ELSE late
    BY DEF Downlink
<1> HIDE DEF settled, c, d
<1>3. PICK z \in Seq(Cids) : Capped(settled \o answers) = settled \o z
    BY <1>1, CappedConcat
<1>4. Commands(c) = settled /\ Commands(commandsCtx') = settled \o z
    BY <1>1, <1>2, <1>3, HoldsProperties
<1>5. Added(c, commandsCtx') = z
    BY <1>1, <1>3, <1>4, Appended DEF Added
<1> QED BY <1>1, <1>2, <1>3, <1>4, <1>5 DEF settled

(* The list after each step that changes it.                               *)
LEMMA HoldsSend ==
    ASSUME IInv, NEW c, c = PreparedCommands(commandsCtx, plan.app)
    PROVE  LET cmds == Commands(commandsCtx)
           IN  \E n \in 0..Len(cmds) :
                /\ Holds(c, SubSeq(cmds, 1, n))
                /\ Holds(RemoveNoneStickyCmds(c), Selected(SubSeq(cmds, 1, n), StickyCids))
                /\ Room => SubSeq(cmds, 1, n) = cmds
                /\ plan.app > 0 /\ ~SkippedAppData(commandsCtx, plan.app) =>
                        TotalSize(SubSeq(cmds, 1, n)) <= MaxFOptsLength
<1> DEFINE cmds == Commands(commandsCtx)
           app == plan.app
           P(n) == /\ Holds(PreparedCommands(commandsCtx, app), SubSeq(cmds, 1, n))
                   /\ maxPayload >= commandsCtx.SerializedCmdsSize => SubSeq(cmds, 1, n) = cmds
                   /\ app > 0 /\ ~SkippedAppData(commandsCtx, app) =>
                        TotalSize(SubSeq(cmds, 1, n)) <= MaxFOptsLength
<1>1. maxPayload \in Nat /\ app \in Nat /\ Holds(commandsCtx, cmds)
    BY InvNat DEF IInv
<1> HIDE DEF cmds, app
<1>2. \E n \in 0..Len(cmds) : P(n)
    BY <1>1, HoldsPrepared
<1>3. PICK n \in 0..Len(cmds) : P(n)
    <2> HIDE DEF P
    <2> QED BY <1>2
<1>4. Holds(c, SubSeq(cmds, 1, n))
    BY <1>3 DEF app
<1>5. Holds(RemoveNoneStickyCmds(c), Selected(SubSeq(cmds, 1, n), StickyCids))
    BY <1>4, HoldsRemoveNoneSticky
<1>6. /\ Room => SubSeq(cmds, 1, n) = cmds
      /\ app > 0 /\ ~SkippedAppData(commandsCtx, app) =>
            TotalSize(SubSeq(cmds, 1, n)) <= MaxFOptsLength
    BY <1>3 DEF Room
<1> DEFINE Q(m) == /\ Holds(c, SubSeq(cmds, 1, m))
                   /\ Holds(RemoveNoneStickyCmds(c), Selected(SubSeq(cmds, 1, m), StickyCids))
                   /\ Room => SubSeq(cmds, 1, m) = cmds
                   /\ app > 0 /\ ~SkippedAppData(commandsCtx, app) =>
                        TotalSize(SubSeq(cmds, 1, m)) <= MaxFOptsLength
<1>7. Q(n)
    BY <1>4, <1>5, <1>6
<1>8. \E m \in 0..Len(cmds) : Q(m)
    <2> HIDE DEF Q
    <2> QED BY <1>7
<1> QED BY <1>8 DEF cmds, app

(* PrepareFrame's frame keeps its type.                                    *)
LEMMA FrameType ==
    ASSUME NEW c, NEW cmds, NEW app \in AppSizes \cup {0}, Holds(PreparedCommands(c, app), cmds)
    PROVE  PreparedFrame(c, app) \in [app : AppSizes \cup {0}, fopts : Seq(Cids),
                                      payload : Seq(Cids), skipped : BOOLEAN]
<1> DEFINE f == PreparedFrame(c, app)
           d == PreparedCommands(c, app)
           skipped == SkippedAppData(c, app)
           fopts == IF app > 0 /\ ~skipped THEN Commands(d) ELSE << >>
           payload == IF app = 0 THEN Commands(d) ELSE << >>
<1>1. f = [app |-> app, fopts |-> fopts, payload |-> payload, skipped |-> skipped]
    BY DEF PreparedFrame
<1>2. Commands(d) \in Seq(Cids)
    BY HoldsProperties
<1>3. skipped \in BOOLEAN
    BY DEF SkippedAppData
<1> HIDE DEF d, skipped, f
<1>4. fopts \in Seq(Cids) /\ payload \in Seq(Cids)
    BY <1>2
<1> HIDE DEF fopts, payload
<1>5. f \in [app : AppSizes \cup {0}, fopts : Seq(Cids), payload : Seq(Cids), skipped : BOOLEAN]
    BY <1>1, <1>3, <1>4
<1> QED BY <1>5 DEF f

(* The invariant without the parts of TypeOK the store implies.            *)
LEMMA InvSplit ==
    IInv <=> /\ Holds(commandsCtx, Commands(commandsCtx))
             /\ maxPayload \in MaxPayloads /\ joined \in BOOLEAN
             /\ exchange \in {"none", "join", "confirmed", "unconfirmed"}
             /\ plan \in [type : {"none", "confirmed", "unconfirmed"}, app : AppSizes \cup {0}]
             /\ frame \in [app : AppSizes \cup {0}, fopts : Seq(Cids), payload : Seq(Cids),
                           skipped : BOOLEAN]
             /\ proved \in BOOLEAN /\ late \in Seq(Cids)
BY HoldsProperties DEF IInv, TypeOK, Store

(* Every action keeps the invariant.                                       *)
LEMMA Inductive ==
    /\ Init => IInv
    /\ IInv /\ [Next]_vars => IInv'
<1> DEFINE Plans == [type : {"none", "confirmed", "unconfirmed"}, app : AppSizes \cup {0}]
           Frames == [app : AppSizes \cup {0}, fopts : Seq(Cids), payload : Seq(Cids),
                      skipped : BOOLEAN]
<1>0. [type |-> "none", app |-> 0] \in Plans /\ NoFrame \in Frames /\ << >> \in Seq(Cids)
    BY DEF NoFrame
<1>1. ASSUME NEW c, NEW cmds, Holds(c, cmds) PROVE Holds(c, Commands(c))
    BY <1>1, HoldsProperties
<1>2. ASSUME Init PROVE IInv
    <2>1. Holds(commandsCtx, Commands(commandsCtx))
        BY <1>1, <1>2, HoldsInit DEF Init
    <2> HIDE DEF Plans, Frames
    <2> QED BY <1>0, <1>2, <2>1, InvSplit DEF Init, Plans, Frames
<1>3. ASSUME IInv, [Next]_vars PROVE IInv'
    <2> DEFINE Stored == Holds(commandsCtx, Commands(commandsCtx))
               Typed == /\ maxPayload \in MaxPayloads /\ joined \in BOOLEAN
                        /\ exchange \in {"none", "join", "confirmed", "unconfirmed"}
                        /\ plan \in Plans /\ frame \in Frames
                        /\ proved \in BOOLEAN /\ late \in Seq(Cids)
    <2>1. Stored /\ Typed /\ plan.app \in AppSizes \cup {0}
        BY <1>3, InvSplit
    <2>2. Stored' /\ Typed' => IInv'
        BY HoldsProperties DEF IInv, TypeOK, Store
    <2>3. commandsCtx' = commandsCtx => Stored'
        BY <2>1
    <2>4. ASSUME NEW cmds, Holds(commandsCtx', cmds) PROVE Stored'
        BY <1>1, <2>4
    <2> HIDE DEF Stored
    <2> HIDE DEF Plans, Frames
    <2> SUFFICES Stored' /\ Typed'
        BY <2>2
    <2>5. CASE Initialization
        BY <1>0, <2>1, <2>3, <2>4, <2>5, HoldsInit DEF Initialization
    <2>6. CASE JoinRequest
        BY <2>1, <2>3, <2>6 DEF JoinRequest, received
    <2>7. CASE JoinAccept
        BY <2>1, <2>3, <2>7 DEF JoinAccept, received
    <2>8. CASE DatarateChanges
        BY <2>1, <2>3, <2>8 DEF DatarateChanges, received
    <2>9. ASSUME NEW cid \in Requests, MlmeRequest(cid) PROVE Stored' /\ Typed'
        <3>1. Stored'
            BY <2>1, <2>4, <2>9, HoldsAdd, CidAssumption DEF MlmeRequest, Stored
        <3> QED BY <2>1, <2>9, <3>1 DEF MlmeRequest, received
    <2>10. ASSUME NEW type \in {"confirmed", "unconfirmed"}, NEW size \in AppSizes,
          Query(type, size)
           PROVE  Stored' /\ Typed'
        <3>1. plan' \in Plans
            BY <2>10 DEF Query, Plans
        <3> QED BY <2>1, <2>3, <2>10, <3>1 DEF Query, received
    <2>11. CASE McpsRequestRefused
        BY <1>0, <2>1, <2>3, <2>11 DEF McpsRequestRefused, received
    <2>12. CASE SendFails
        <3>1. Stored'
            BY <1>3, <2>4, <2>12, HoldsSend DEF SendFails, received
        <3> QED BY <1>0, <2>1, <2>12, <3>1 DEF SendFails, received
    <2>13. CASE Send
        <3> DEFINE c == PreparedCommands(commandsCtx, plan.app)
        <3>1. \E n \in 0..Len(Commands(commandsCtx)) :
                /\ Holds(c, SubSeq(Commands(commandsCtx), 1, n))
                /\ Holds(RemoveNoneStickyCmds(c),
                         Selected(SubSeq(Commands(commandsCtx), 1, n), StickyCids))
            <4> HIDE DEF c
            <4> QED BY <1>3, HoldsSend DEF c
        <3>2. PICK sent : Holds(c, sent) /\ \E kept : Holds(RemoveNoneStickyCmds(c), kept)
            <4> HIDE DEF c
            <4> QED BY <3>1
        <3>3. commandsCtx' = RemoveNoneStickyCmds(c)
            BY <2>13 DEF Send
        <3>4. Stored'
            BY <2>4, <3>2, <3>3
        <3>5. frame' \in Frames
            BY <2>1, <2>13, <3>2, FrameType DEF Send, Frames
        <3>6. exchange' \in {"none", "join", "confirmed", "unconfirmed"}
            BY <2>1, <2>13 DEF Send, Plans
        <3> QED BY <1>0, <2>1, <2>13, <3>4, <3>5, <3>6 DEF Send
    <2>14. ASSUME NEW slot, NEW ack, NEW answers \in BoundedSeq(Cids \ Requests, MaxAnswers),
                  Downlink(slot, ack, answers)
           PROVE  Stored' /\ Typed'
        <3>1. \E cmds : Holds(AddAll(RemoveMacCommands(commandsCtx, slot, ack), answers), cmds)
            BY <1>3, HoldsDownlink
        <3>2. Stored'
            BY <2>4, <2>14, <3>1 DEF Downlink
        <3>3. PICK z \in Seq(Cids) :
                late' = IF Heard THEN (IF Proves(slot, ack) THEN << >> ELSE late)
                                        \o Selected(z, StickyCids)
                        ELSE late
            BY <1>3, <2>14, DownlinkLists
        <3>4. Selected(z, StickyCids) \in Seq(Cids)
            BY SelectedType
        <3>5. late' \in Seq(Cids)
            BY <2>1, <3>3, <3>4
        <3>6. proved' \in BOOLEAN
            BY <2>14 DEF Downlink, Proves, Heard
        <3> QED BY <2>1, <2>14, <3>2, <3>5, <3>6 DEF Downlink
    <2>15. CASE ExchangeEnds
        BY <1>0, <2>1, <2>3, <2>15 DEF ExchangeEnds
    <2>16. CASE UNCHANGED vars
        BY <2>1, <2>3, <2>16 DEF vars
    <2> QED BY <1>3, <2>5, <2>6, <2>7, <2>8, <2>9, <2>10, <2>11, <2>12, <2>13, <2>14, <2>15,
          <2>16
            DEF Next
<1> QED BY <1>2, <1>3

(* The store holds a sequence of commands and every variable keeps its     *)
(* type, whatever requests, downlinks, data rates and restarts come.       *)
THEOREM Invariant == Spec => []IInv
<1>1. Init => IInv
    BY Inductive
<1>2. IInv /\ [Next]_vars => IInv'
    BY Inductive
<1> QED BY <1>1, <1>2, PTL DEF Spec

(* Types, for any commands and any number of slots.                        *)
THEOREM TypeCorrect == Spec => []TypeOK
<1>1. IInv => TypeOK
    BY DEF IInv
<1> QED BY <1>1, Invariant, PTL

(* Slots, pointers and running size always tell the same, for any number   *)
(* of slots.                                                               *)
THEOREM StoreIsConsistent == Spec => []StoreConsistent
<1>1. ASSUME IInv PROVE StoreConsistent
    <2> DEFINE c == commandsCtx
    <2>1. PICK w : Lists(c, w) /\ CidsOf(c, w) = Commands(c)
        BY <1>1 DEF IInv, Holds
    <2>2. Chain(c, w) /\ c.SerializedCmdsSize = TotalSize(Commands(c))
        BY <2>1 DEF Lists
    <2>3. Elements(c) = w /\ w \in Seq(Slots)
        BY <2>2, ElementsAre DEF Chain
    <2>4. DOMAIN w = 1..Len(w) /\ Len(w) \in Nat /\ \A i \in 1..Len(w) : w[i] \in Slots
        BY <2>3
    <2>5. IsInjective(w)
        BY <2>2, <2>4 DEF Chain, IsInjective
    <2>6. \A i \in 1..Len(w) : c.slots[w[i]] # FreeSlot
        BY <2>2, CidAssumption DEF Chain, FreeSlot
    <2>7. \A s \in Slots : (\A i \in 1..Len(w) : w[i] # s) => c.slots[s] = FreeSlot
        BY <2>2 DEF Chain
    <2>8. ToSet(w) = Slots \ FreeSlots(c)
        BY <2>4, <2>6, <2>7 DEF ToSet, FreeSlots
    <2>9. c.Last = IF w = << >> THEN NULL ELSE w[Len(w)]
        <3>1. w = << >> <=> Len(w) = 0
            BY <2>3
        <3> QED BY <2>2, <3>1 DEF Chain
    <2> QED BY <2>2, <2>3, <2>5, <2>8, <2>9 DEF StoreConsistent
<1> QED BY <1>1, Invariant, PTL

-----------------------------------------------------------------------------
(* The steps that send, answer and forget.                                 *)

(* A step that makes a frame makes one that fits.                          *)
LEMMA FitsStep ==
    ASSUME IInv, [Next]_vars, frame' # frame
    PROVE  /\ TotalSize(frame'.fopts) <= MaxFOptsLength
           /\ frame'.app + TotalSize(frame'.fopts) + TotalSize(frame'.payload) <= maxPayload
<1>1. CASE frame' = NoFrame
    <2> DEFINE empty == << >>
    <2>1. frame'.app = 0 /\ frame'.fopts = empty /\ frame'.payload = empty
        BY <1>1 DEF NoFrame
    <2>2. TotalSize(empty) = 0
        BY TotalSizeEmpty
    <2>3. maxPayload \in Nat /\ MaxFOptsLength \in Nat
        BY InvNat, LengthAssumption
    <2> HIDE DEF empty
    <2> QED BY <2>1, <2>2, <2>3
<1>2. CASE Send
    <2> DEFINE c == PreparedCommands(commandsCtx, plan.app)
               app == plan.app
               skipped == SkippedAppData(commandsCtx, app)
               cmds == Commands(commandsCtx)
               total(s) == TotalSize(s)
    <2>1. app \in Nat /\ maxPayload \in Nat /\ MaxFOptsLength \in Nat
        BY InvNat, LengthAssumption
    <2>2. PICK n \in 0..Len(cmds) :
            /\ Holds(c, SubSeq(cmds, 1, n))
            /\ Holds(RemoveNoneStickyCmds(c), Selected(SubSeq(cmds, 1, n), StickyCids))
            /\ Room => SubSeq(cmds, 1, n) = cmds
            /\ app > 0 /\ ~skipped => TotalSize(SubSeq(cmds, 1, n)) <= MaxFOptsLength
        <3> HIDE DEF c
        <3> QED BY HoldsSend DEF c
    <2> DEFINE sent == SubSeq(cmds, 1, n)
               f == PreparedFrame(commandsCtx, app)
    <2>3. /\ Holds(c, sent)
          /\ app > 0 /\ ~skipped => TotalSize(sent) <= MaxFOptsLength
        BY <2>2
    <2>4. frame' = f /\ app + c.SerializedCmdsSize <= maxPayload
        BY <1>2 DEF Send, ValidatePayloadLength
    <2>5. Holds(PreparedCommands(commandsCtx, app), sent)
        BY <2>3
    <2> HIDE DEF sent
    <2>6. c.SerializedCmdsSize = TotalSize(sent) /\ TotalSize(sent) \in Nat
        BY <2>3, HoldsProperties, TotalSizeNat
    <2> DEFINE empty == << >>
    <2>7. /\ f.app = app /\ f.skipped = skipped
          /\ f.fopts = IF app > 0 /\ ~f.skipped THEN sent ELSE empty
          /\ f.payload = IF app = 0 THEN sent ELSE empty
        <3> HIDE DEF app
        <3> QED BY <2>1, <2>5, FrameCarries
    <2>8. TotalSize(empty) = 0
        BY TotalSizeEmpty
    <2> HIDE DEF c, app, skipped, f, empty
    <2>9. CASE app = 0
        <3>1. f.fopts = empty /\ f.payload = sent
            BY <2>7, <2>9
        <3> QED BY <2>1, <2>4, <2>6, <2>7, <2>8, <2>9, <3>1
    <2>10. CASE app > 0 /\ ~skipped
        <3>1. f.fopts = sent /\ f.payload = empty
            BY <2>7, <2>10
        <3> QED BY <2>1, <2>3, <2>4, <2>6, <2>7, <2>8, <2>10, <3>1
    <2>11. CASE app > 0 /\ skipped
        <3>1. f.fopts = empty /\ f.payload = empty
            BY <2>7, <2>11
        <3> QED BY <2>1, <2>4, <2>6, <2>7, <2>8, <2>11, <3>1
    <2> QED BY <2>1, <2>9, <2>10, <2>11
<1> QED
    BY <1>1, <1>2 DEF Next, vars, Initialization, JoinRequest, JoinAccept, DatarateChanges,
       MlmeRequest, Query, McpsRequestRefused, SendFails, Downlink, ExchangeEnds

(* No frame leaves with more commands than FOpts takes or more bytes than  *)
(* the data rate allows, whatever changed between the query and the        *)
(* request.                                                                *)
THEOREM FramesFit == Spec => FrameFits
<1>1. IInv /\ [Next]_vars =>
        [frame' # frame =>
            /\ TotalSize(frame'.fopts) <= MaxFOptsLength
            /\ frame'.app + TotalSize(frame'.fopts)
                  + TotalSize(frame'.payload) <= maxPayload]_vars
    BY FitsStep
<1> QED BY <1>1, Invariant, PTL DEF Spec, FrameFits

(* A step that forgets an answer that is not sticky has sent it, or        *)
(* skipped it.                                                             *)
LEMMA ForgottenStep ==
    ASSUME IInv, Next, joined, Room
    PROVE  \/ IsPrefix(Unrepeated, Unrepeated')
           \/ frame'.skipped
           \/ Unrepeated = Selected(frame'.fopts \o frame'.payload, NotSticky)
<1> DEFINE cmds == Commands(commandsCtx)
           after == Commands(commandsCtx')
<1>0. Unrepeated = Selected(cmds, NotSticky) /\ Unrepeated' = Selected(after, NotSticky)
    BY DEF Unrepeated
<1>1. cmds \in Seq(Cids) /\ Holds(commandsCtx, cmds)
    BY InvNat DEF IInv
<1>2. Selected(cmds, NotSticky) \in Seq(Cids)
    BY <1>1, SelectedType
<1> HIDE DEF cmds, after
<1>3. ASSUME after = cmds PROVE IsPrefix(Unrepeated, Unrepeated')
    BY <1>0, <1>2, <1>3, PrefixSame
<1>4. ASSUME NEW z \in Seq(Cids), after = cmds \o z PROVE IsPrefix(Unrepeated, Unrepeated')
    BY <1>0, <1>1, <1>4, SelectedPrefix
<1>5. CASE commandsCtx' = commandsCtx
    BY <1>3, <1>5 DEF cmds, after
<1>6. ASSUME NEW cid \in Requests, MlmeRequest(cid) PROVE IsPrefix(Unrepeated, Unrepeated')
    <2>1. cid \in Cids
        BY CidAssumption
    <2>2. after = IF Len(cmds) < NumOfMacCommands THEN Append(cmds, cid) ELSE cmds
        BY <1>1, <1>6, <2>1, HoldsAdd, HoldsProperties DEF MlmeRequest, after
    <2> DEFINE z == << cid >>
    <2>3. z \in Seq(Cids) /\ Append(cmds, cid) = cmds \o z
        BY <1>1, <2>1, AppendIsConcat
    <2> HIDE DEF z
    <2> QED BY <1>3, <1>4, <2>2, <2>3
<1>7. CASE SendFails
    <2> DEFINE c == PreparedCommands(commandsCtx, plan.app)
    <2>1. PICK n \in 0..Len(cmds) :
            /\ Holds(c, SubSeq(cmds, 1, n))
            /\ Holds(RemoveNoneStickyCmds(c), Selected(SubSeq(cmds, 1, n), StickyCids))
            /\ Room => SubSeq(cmds, 1, n) = cmds
            /\ plan.app > 0 /\ ~SkippedAppData(commandsCtx, plan.app) =>
                    TotalSize(SubSeq(cmds, 1, n)) <= MaxFOptsLength
        <3> HIDE DEF c
        <3> QED BY HoldsSend DEF c, cmds
    <2>2. SubSeq(cmds, 1, n) = cmds
        BY <2>1
    <2>3. commandsCtx' = c
        BY <1>7 DEF SendFails, received
    <2> HIDE DEF c
    <2>4. after = cmds
        BY <2>1, <2>2, <2>3, HoldsProperties DEF after
    <2> QED BY <1>3, <2>4
<1>8. CASE Send
    <2> DEFINE app == plan.app
               c == PreparedCommands(commandsCtx, app)
               f == PreparedFrame(commandsCtx, app)
    <2>1. PICK n \in 0..Len(cmds) :
            /\ Holds(c, SubSeq(cmds, 1, n))
            /\ Holds(RemoveNoneStickyCmds(c), Selected(SubSeq(cmds, 1, n), StickyCids))
            /\ Room => SubSeq(cmds, 1, n) = cmds
            /\ plan.app > 0 /\ ~SkippedAppData(commandsCtx, plan.app) =>
                    TotalSize(SubSeq(cmds, 1, n)) <= MaxFOptsLength
        <3> HIDE DEF c
        <3> QED BY HoldsSend DEF c, cmds
    <2>2. SubSeq(cmds, 1, n) = cmds
        BY <2>1
    <2>3. Holds(c, cmds)
        BY <2>1, <2>2
    <2>4. frame' = f /\ app \in Nat
        BY <1>8, InvNat DEF Send
    <2>5. ~f.skipped => f.fopts \o f.payload = cmds
        <3> HIDE DEF app
        <3> QED BY <2>3, <2>4, FrameCarries
    <2> QED BY <1>0, <2>4, <2>5
<1>9. ASSUME NEW slot, NEW ack, NEW answers \in BoundedSeq(Cids \ Requests, MaxAnswers),
             Downlink(slot, ack, answers)
      PROVE  IsPrefix(Unrepeated, Unrepeated')
    <2> DEFINE settled == Settled(slot, ack)
    <2>1. settled \in {cmds, Selected(cmds, NotSticky)}
        BY DEF Settled, cmds
    <2>4. PICK z \in Seq(Cids) : settled \in Seq(Cids) /\ after = settled \o z
        BY <1>9, DownlinkLists DEF after
    <2> HIDE DEF settled
    <2>5. Selected(settled, NotSticky) = Selected(cmds, NotSticky)
        BY <1>1, <2>1, SelectedTwice
    <2>6. IsPrefix(Selected(settled, NotSticky), Selected(settled \o z, NotSticky))
        BY <2>4, SelectedPrefix
    <2> QED BY <1>0, <2>4, <2>5, <2>6, Zenon
<1> QED
    BY <1>5, <1>6, <1>7, <1>8, <1>9 DEF Next, Initialization, JoinRequest, JoinAccept,
       DatarateChanges, Query, McpsRequestRefused, ExchangeEnds

(* An answer that need not be repeated is forgotten only once it was       *)
(* transmitted, or the frame skipped it, as long as there is room for it.  *)
THEOREM AnswersForgottenOnlyWhenSent == Spec => ForgottenOnlyWhenSent
<1>1. IInv /\ [Next]_vars =>
        [joined /\ Room /\ ~IsPrefix(Unrepeated, Unrepeated') =>
            \/ frame'.skipped
            \/ Unrepeated = Selected(frame'.fopts \o frame'.payload, NotSticky)]_vars
    BY ForgottenStep
<1> QED BY <1>1, Invariant, PTL DEF Spec, ForgottenOnlyWhenSent

(* A step that is no downlink keeps the sticky answers.                    *)
LEMMA StickyStep ==
    ASSUME IInv, Next, joined, Room
    PROVE  \/ IsPrefix(Repeated, Repeated')
           \/ Heard /\ proved'
<1> DEFINE cmds == Commands(commandsCtx)
           after == Commands(commandsCtx')
<1>0. Repeated = Selected(cmds, StickyCids) /\ Repeated' = Selected(after, StickyCids)
    BY DEF Repeated
<1>1. cmds \in Seq(Cids) /\ Holds(commandsCtx, cmds)
    BY InvNat DEF IInv
<1>2. Selected(cmds, StickyCids) \in Seq(Cids)
    BY <1>1, SelectedType
<1> HIDE DEF cmds, after
<1>3. ASSUME after = cmds PROVE IsPrefix(Repeated, Repeated')
    BY <1>0, <1>2, <1>3, PrefixSame
<1>4. ASSUME NEW z \in Seq(Cids), after = cmds \o z PROVE IsPrefix(Repeated, Repeated')
    BY <1>0, <1>1, <1>4, SelectedPrefix
<1>5. CASE commandsCtx' = commandsCtx
    BY <1>3, <1>5 DEF cmds, after
<1>6. ASSUME NEW cid \in Requests, MlmeRequest(cid) PROVE IsPrefix(Repeated, Repeated')
    <2>1. cid \in Cids
        BY CidAssumption
    <2>2. after = IF Len(cmds) < NumOfMacCommands THEN Append(cmds, cid) ELSE cmds
        BY <1>1, <1>6, <2>1, HoldsAdd, HoldsProperties DEF MlmeRequest, after
    <2> DEFINE z == << cid >>
    <2>3. z \in Seq(Cids) /\ Append(cmds, cid) = cmds \o z
        BY <1>1, <2>1, AppendIsConcat
    <2> HIDE DEF z
    <2> QED BY <1>3, <1>4, <2>2, <2>3
<1>7. CASE SendFails \/ Send
    <2> DEFINE c == PreparedCommands(commandsCtx, plan.app)
    <2>1. PICK n \in 0..Len(cmds) :
            /\ Holds(c, SubSeq(cmds, 1, n))
            /\ Holds(RemoveNoneStickyCmds(c), Selected(SubSeq(cmds, 1, n), StickyCids))
            /\ Room => SubSeq(cmds, 1, n) = cmds
            /\ plan.app > 0 /\ ~SkippedAppData(commandsCtx, plan.app) =>
                    TotalSize(SubSeq(cmds, 1, n)) <= MaxFOptsLength
        <3> HIDE DEF c
        <3> QED BY HoldsSend DEF c, cmds
    <2>2. SubSeq(cmds, 1, n) = cmds
        BY <2>1
    <2>3. Holds(c, cmds) /\ Holds(RemoveNoneStickyCmds(c), Selected(cmds, StickyCids))
        BY <2>1, <2>2
    <2>4. commandsCtx' = c \/ commandsCtx' = RemoveNoneStickyCmds(c)
        BY <1>7 DEF SendFails, Send
    <2> HIDE DEF c
    <2>5. after = cmds \/ after = Selected(cmds, StickyCids)
        BY <2>3, <2>4, HoldsProperties DEF after
    <2>6. Selected(Selected(cmds, StickyCids), StickyCids) = Selected(cmds, StickyCids)
        BY <1>1, SelectedTwice
    <2>7. Repeated' = Repeated
        BY <1>0, <2>5, <2>6, Zenon
    <2> QED BY <1>0, <1>2, <2>7, PrefixSame
<1>8. ASSUME NEW slot, NEW ack, NEW answers \in BoundedSeq(Cids \ Requests, MaxAnswers),
             Downlink(slot, ack, answers)
      PROVE  IsPrefix(Repeated, Repeated') \/ (Heard /\ proved')
    <2>1. CASE slot = "class_a" /\ (exchange = "confirmed" => ack)
        BY <1>8, <2>1 DEF Downlink, Proves
    <2>2. CASE ~(slot = "class_a" /\ (exchange = "confirmed" => ack))
        <3>1. Settled(slot, ack) = cmds
            BY <2>2 DEF Settled, cmds
        <3>2. PICK z \in Seq(Cids) : after = Settled(slot, ack) \o z
            BY <1>8, DownlinkLists DEF after
        <3> QED BY <1>4, <3>1, <3>2
    <2> QED BY <2>1, <2>2
<1> QED
    BY <1>5, <1>6, <1>7, <1>8 DEF Next, Initialization, JoinRequest, JoinAccept,
       DatarateChanges, Query, McpsRequestRefused, ExchangeEnds

(* While an uplink is under way the sticky answers are those its frame     *)
(* carried, unless the network has proved to have them, and after them     *)
(* those queued since.                                                     *)
SentInv == Heard /\ ~frame.skipped => Repeated \in {Carried \o late, late}

(* Nothing selected is nothing.                                            *)
LEMMA NothingSelected ==
    ASSUME NEW s \in Seq(Cids)
    PROVE  Selected(Selected(s, NotSticky), StickyCids) = << >>
<1> DEFINE t == Selected(s, NotSticky)
           Y == Cids \cap NotSticky
<1>1. t \in Seq(Y)
    BY SelectedType
<1> HIDE DEF t
<1>2. \A i \in 1..Len(t) : t[i] \in Y
    BY <1>1
<1>3. \A i \in 1..Len(t) : t[i] \notin StickyCids
    BY <1>2 DEF NotSticky
<1> HIDE DEF Y
<1>4. Selected(t, StickyCids) = << >>
    BY <1>1, <1>3, SelectedAllOrNone
<1> QED BY <1>4 DEF t

(* The invariant.                                                          *)
LEMMA SentStep ==
    ASSUME IInv, SentInv, [Next]_vars
    PROVE  SentInv'
<1> DEFINE cmds == Commands(commandsCtx)
           after == Commands(commandsCtx')
<1>0. Repeated = Selected(cmds, StickyCids) /\ Repeated' = Selected(after, StickyCids)
    BY DEF Repeated
<1>1. cmds \in Seq(Cids) /\ late \in Seq(Cids)
    BY InvNat DEF IInv, TypeOK
<1> HIDE DEF cmds, after
<1>2. CASE Send
    <2> DEFINE app == plan.app
               c == PreparedCommands(commandsCtx, app)
               f == PreparedFrame(commandsCtx, app)
    <2>1. PICK n \in 0..Len(cmds) :
            /\ Holds(c, SubSeq(cmds, 1, n))
            /\ Holds(RemoveNoneStickyCmds(c), Selected(SubSeq(cmds, 1, n), StickyCids))
            /\ Room => SubSeq(cmds, 1, n) = cmds
            /\ plan.app > 0 /\ ~SkippedAppData(commandsCtx, plan.app) =>
                    TotalSize(SubSeq(cmds, 1, n)) <= MaxFOptsLength
        <3> HIDE DEF c
        <3> QED BY HoldsSend DEF c, cmds
    <2> DEFINE sent == SubSeq(cmds, 1, n)
    <2>2. frame' = f /\ app \in Nat /\ late' = << >> /\ commandsCtx' = RemoveNoneStickyCmds(c)
        BY <1>2, InvNat DEF Send
    <2>3. ~f.skipped => f.fopts \o f.payload = sent
        <3> HIDE DEF app
        <3> QED BY <2>1, <2>2, FrameCarries
    <2>4. sent \in Seq(Cids)
        BY <2>1, HoldsProperties
    <2>5. after = Selected(sent, StickyCids)
        <3> HIDE DEF c
        <3> QED BY <2>1, <2>2, HoldsProperties DEF after
    <2> HIDE DEF sent, f, c, app
    <2>6. Repeated' = Selected(sent, StickyCids) /\ Repeated' \in Seq(Cids)
        BY <1>0, <2>4, <2>5, SelectedTwice, SelectedType
    <2>7. ~frame'.skipped => Carried' = Selected(sent, StickyCids)
        BY <2>2, <2>3 DEF Carried
    <2>8. Repeated' \o << >> = Repeated'
        BY <2>6
    <2> QED BY <2>2, <2>6, <2>7, <2>8 DEF SentInv
<1>3. ASSUME NEW slot, NEW ack, NEW answers \in BoundedSeq(Cids \ Requests, MaxAnswers),
             Downlink(slot, ack, answers)
      PROVE  SentInv'
    <2> SUFFICES ASSUME Heard, ~frame.skipped PROVE Repeated' \in {Carried \o late', late'}
        BY <1>3 DEF Downlink, Heard, SentInv, Carried
    <2> DEFINE settled == Settled(slot, ack)
    <2>1. PICK z \in Seq(Cids) :
            /\ settled \in Seq(Cids) /\ after = settled \o z
            /\ late' = (IF Proves(slot, ack) THEN << >> ELSE late) \o Selected(z, StickyCids)
        BY <1>3, DownlinkLists DEF after
    <2> DEFINE new == Selected(z, StickyCids)
    <2>2. new \in Seq(Cids)
        BY SelectedType
    <2>3. Repeated' = Selected(settled, StickyCids) \o new
        BY <1>0, <2>1, SelectedConcat
    <2> HIDE DEF new
    <2>4. CASE slot = "class_a" /\ (exchange = "confirmed" => ack)
        <3>1. settled = Selected(cmds, NotSticky)
            BY <2>4 DEF Settled, cmds
        <3> HIDE DEF settled
        <3>2. Selected(settled, StickyCids) = << >>
            BY <1>1, <3>1, NothingSelected
        <3>3. Proves(slot, ack)
            BY <2>4 DEF Proves
        <3>4. late' = << >> \o new
            BY <2>1, <3>3 DEF new
        <3> QED BY <2>3, <3>2, <3>4
    <2>5. CASE ~(slot = "class_a" /\ (exchange = "confirmed" => ack))
        <3>1. settled = cmds /\ ~Proves(slot, ack)
            BY <2>5 DEF Proves, Settled, cmds
        <3>2. late' = late \o new
            BY <2>1, <3>1 DEF new
        <3> HIDE DEF settled
        <3>3. Repeated' = Repeated \o new
            BY <1>0, <2>3, <3>1
        <3>4. Repeated \in {Carried \o late, late}
            BY DEF SentInv
        <3>5. Carried \in Seq(Cids)
            <4>1. frame.fopts \o frame.payload \in Seq(Cids)
                <5>1. frame.fopts \in Seq(Cids) /\ frame.payload \in Seq(Cids)
                    BY DEF IInv, TypeOK
                <5> QED BY <5>1
            <4> QED BY <4>1, SelectedType DEF Carried
        <3>6. (Carried \o late) \o new = Carried \o (late \o new)
            BY <1>1, <2>2, <3>5
        <3> QED BY <3>2, <3>3, <3>4, <3>6
    <2> QED BY <2>4, <2>5
<1>4. CASE exchange' \in {"none", "join"}
    BY <1>4 DEF SentInv, Heard
<1>5. CASE UNCHANGED <<commandsCtx, exchange, frame, late>>
    BY <1>5 DEF SentInv, Heard, Repeated, Carried
<1>6. ASSUME NEW cid \in Requests, MlmeRequest(cid) PROVE SentInv'
    BY <1>6 DEF MlmeRequest, SentInv, Heard
<1>7. CASE SendFails
    BY <1>7 DEF SendFails, SentInv, Heard
<1> QED
    BY <1>2, <1>3, <1>4, <1>5, <1>6, <1>7 DEF Next, vars, received, Initialization, JoinRequest,
       JoinAccept, DatarateChanges, Query, McpsRequestRefused, ExchangeEnds

(* Sticky answers leave only with a downlink that shows that the network   *)
(* has the frame that was out, and that frame carried them, they were      *)
(* queued while it was out, or it had skipped the commands.                *)
THEOREM StickyKeptUntilHeard == Spec => StickyUntilHeard
<1>1. Init => SentInv
    BY DEF Init, SentInv, Heard
<1>2. IInv /\ SentInv /\ [Next]_vars => SentInv'
    BY SentStep
<1>3. IInv /\ SentInv /\ [Next]_vars =>
        [joined /\ Room /\ ~IsPrefix(Repeated, Repeated') =>
            /\ Heard /\ proved'
            /\ frame.skipped \/ Repeated \in {Carried \o late, late}]_vars
    BY StickyStep DEF SentInv
<1> QED BY <1>1, <1>2, <1>3, Invariant, PTL DEF Spec, StickyUntilHeard

-----------------------------------------------------------------------------
(* The abstract store.                                                    *)

(* The abstract specification's operators, which are instances of the same *)
(* definitions.                                                            *)
LEMMA AbsSelected == \A s, S : Abs!Selected(s, S) = Selected(s, S)
BY DEF Abs!Selected, Selected

(* Its capacity is the number of slots.                                    *)
LEMMA AbsCapped == \A s : Abs!UpToCapacity(s) = Capped(s)
BY DEF Abs!UpToCapacity, Capped

(* Its bound on the answers is the same.                                   *)
LEMMA AbsSeqs == \A S : Abs!BoundedSeq(S, MaxAnswers) = BoundedSeq(S, MaxAnswers)
BY DEF Abs!BoundedSeq, BoundedSeq, Abs!SeqOf, SeqOf

(* Every step is one of the abstract store or changes nothing there.       *)
LEMMA AbstractStep ==
    ASSUME IInv, [Next]_vars
    PROVE  Abs!Next \/ Commands(commandsCtx') = Commands(commandsCtx)
<1> DEFINE cmds == Commands(commandsCtx)
           after == Commands(commandsCtx')
<1>1. cmds \in Seq(Cids) /\ Holds(commandsCtx, cmds) /\ Len(cmds) <= NumOfMacCommands
    BY InvNat, HoldsProperties, SlotAssumption DEF IInv
<1>2. CASE commandsCtx' = commandsCtx
    BY <1>2
<1>3. CASE Initialization
    <2>1. commandsCtx' = commandsCtx \/ Commands(commandsCtx') = << >>
        BY <1>3, HoldsInit, HoldsProperties DEF Initialization
    <2> QED BY <2>1 DEF Abs!Next, Abs!Reset
<1>4. ASSUME NEW settled \in {cmds, Selected(cmds, NotSticky)},
             NEW answers \in BoundedSeq(Cids, MaxAnswers),
             after = Capped(settled \o answers)
      PROVE  Abs!Next
    <2>1. settled \in {cmds, Abs!Selected(cmds, Cids \ StickyCids)}
        BY AbsSelected DEF NotSticky
    <2>2. answers \in Abs!BoundedSeq(Cids, MaxAnswers)
        BY AbsSeqs
    <2>3. after = Abs!UpToCapacity(settled \o answers)
        BY <1>4, AbsCapped
    <2> QED BY <2>1, <2>2, <2>3 DEF Abs!Next, Abs!Receive
<1>5. ASSUME NEW cid \in Requests, MlmeRequest(cid) PROVE Abs!Next
    <2> DEFINE z == << cid >>
    <2>1. cid \in Cids
        BY CidAssumption
    <2>2. z \in BoundedSeq(Cids, MaxAnswers)
        <3>1. z \in [1..1 -> Cids] /\ 1 \in 0..MaxAnswers
            BY <2>1, AnswersAssumption
        <3> QED BY <3>1 DEF BoundedSeq, SeqOf
    <2>3. after = IF Len(cmds) < NumOfMacCommands THEN Append(cmds, cid) ELSE cmds
        BY <1>1, <1>5, <2>1, HoldsAdd, HoldsProperties DEF MlmeRequest, received
    <2>4. Append(cmds, cid) = cmds \o z
        BY <1>1, <2>1, AppendIsConcat
    <2> HIDE DEF cmds, z
    <2>5. after = Capped(cmds \o z)
        <3>1. after = Capped(Append(cmds, cid))
            <4>1. CASE Len(cmds) < NumOfMacCommands
                BY <1>1, <2>1, <2>3, <4>1, CappedAppend
            <4>2. CASE ~(Len(cmds) < NumOfMacCommands)
                <5>1. Capped(Append(cmds, cid)) = Capped(cmds)
                    BY <1>1, <2>1, <4>2, CappedAppend
                <5> QED BY <1>1, <2>3, <4>2, <5>1, CappedShort
            <4> QED BY <4>1, <4>2
        <3> QED BY <2>4, <3>1
    <2> QED BY <1>4, <2>2, <2>5
<1>6. ASSUME NEW n \in 0..Len(cmds), after = SubSeq(cmds, 1, n) PROVE Abs!Next
    BY <1>6 DEF Abs!Next, Abs!Clip
<1>7. ASSUME NEW n \in 0..Len(cmds), after = Selected(SubSeq(cmds, 1, n), StickyCids)
      PROVE  Abs!Next
    BY <1>7, AbsSelected DEF Abs!Next, Abs!Transmit
<1>8. CASE SendFails \/ Send
    <2> DEFINE c == PreparedCommands(commandsCtx, plan.app)
    <2>1. PICK n \in 0..Len(cmds) :
            /\ Holds(c, SubSeq(cmds, 1, n))
            /\ Holds(RemoveNoneStickyCmds(c), Selected(SubSeq(cmds, 1, n), StickyCids))
            /\ Room => SubSeq(cmds, 1, n) = cmds
            /\ plan.app > 0 /\ ~SkippedAppData(commandsCtx, plan.app) =>
                    TotalSize(SubSeq(cmds, 1, n)) <= MaxFOptsLength
        <3> HIDE DEF c
        <3> QED BY HoldsSend DEF c
    <2>2. commandsCtx' = c \/ commandsCtx' = RemoveNoneStickyCmds(c)
        BY <1>8 DEF SendFails, Send
    <2> HIDE DEF c, cmds
    <2>3. \/ after = SubSeq(cmds, 1, n)
          \/ after = Selected(SubSeq(cmds, 1, n), StickyCids)
        BY <2>1, <2>2, HoldsProperties
    <2> QED BY <1>6, <1>7, <2>3
<1>9. ASSUME NEW slot, NEW ack, NEW answers \in BoundedSeq(Cids \ Requests, MaxAnswers),
             Downlink(slot, ack, answers)
      PROVE  Abs!Next
    <2> DEFINE d == AddAll(RemoveMacCommands(commandsCtx, slot, ack), answers)
    <2>1. PICK settled \in {cmds, Selected(cmds, NotSticky)} :
            Holds(d, Capped(settled \o answers))
        BY HoldsDownlink
    <2>2. answers \in BoundedSeq(Cids, MaxAnswers)
        BY HoldsDownlink
    <2>3. commandsCtx' = d
        BY <1>9 DEF Downlink
    <2> HIDE DEF d
    <2>4. after = Capped(settled \o answers)
        BY <2>1, <2>3, HoldsProperties
    <2> QED BY <1>4, <2>2, <2>4
<1> QED
    BY <1>2, <1>3, <1>5, <1>8, <1>9 DEF Next, vars, JoinRequest, JoinAccept,
       DatarateChanges, Query, McpsRequestRefused, ExchangeEnds

(* The linked slots implement the bounded sequence of commands.            *)
THEOREM StoreImplementsSequence == Spec => ImplementsSequence
<1>1. Init => Abs!Init
    BY HoldsInit, HoldsProperties DEF Init, Abs!Init
<1>2. IInv /\ [Next]_vars => [Abs!Next]_(Commands(commandsCtx))
    BY AbstractStep
<1> QED BY <1>1, <1>2, Invariant, PTL DEF Spec, ImplementsSequence, Abs!Spec
=============================================================================
