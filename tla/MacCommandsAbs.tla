--------------------------- MODULE MacCommandsAbs ---------------------------
(***************************************************************************)
(* What the store of pending MAC commands promises to the MAC, without its *)
(* slots and pointers: a bounded sequence, in the order the commands were  *)
(* added.  Commands leave it only as whole classes (sticky or not) or from *)
(* the tail.                                                               *)
(***************************************************************************)
EXTENDS Naturals, CommandSequences

CONSTANTS Cids, StickyCids, Capacity, MaxAnswers

VARIABLE pending

UpToCapacity(cmds) == SubSeq(cmds, 1, IF Len(cmds) < Capacity THEN Len(cmds) ELSE Capacity)

Init == pending = << >>

(* A downlink: the sticky answers may be settled, then new answers come.   *)
Receive ==
    \E settled \in {pending, Selected(pending, Cids \ StickyCids)} :
    \E answers \in BoundedSeq(Cids, MaxAnswers) :
        pending' = UpToCapacity(settled \o answers)

Clip == \E n \in 0..Len(pending) : pending' = SubSeq(pending, 1, n)

(* A frame goes out with what fits; only sticky answers are kept.          *)
Transmit == \E n \in 0..Len(pending) :
                pending' = Selected(SubSeq(pending, 1, n), StickyCids)

Reset == pending' = << >>

Next == Receive \/ Clip \/ Transmit \/ Reset

Spec == Init /\ [][Next]_pending
=============================================================================
