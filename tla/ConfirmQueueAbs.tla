--------------------------- MODULE ConfirmQueueAbs ---------------------------
(***************************************************************************)
(* What the MLME confirm queue promises to LoRaMac.c, without its storage: *)
(* a bounded sequence of accepted requests.  A request leaves it only by   *)
(* being confirmed at the head once it is ready, or by being withdrawn     *)
(* from the tail; a request that is not ready goes to the back untouched.  *)
(***************************************************************************)
EXTENDS Naturals, Sequences

CONSTANTS Requests, Statuses, Capacity

VARIABLE pending

Entry == [request : Requests, status : Statuses, restricted : BOOLEAN, ready : BOOLEAN]

Answered(e, s) == [e EXCEPT !.status = s, !.ready = TRUE]

(* The common status makes a request ready unless it restricts that.       *)
CommonAnswered(e, s) == [e EXCEPT !.status = s, !.ready = e.ready \/ ~e.restricted]

Init == pending = << >>

Accept(r, s, x) ==
    /\ Len(pending) < Capacity
    /\ pending' = Append(pending,
           [request |-> r, status |-> s, restricted |-> x, ready |-> FALSE])

Withdraw ==
    /\ pending # << >>
    /\ pending' = [i \in 1..(Len(pending) - 1) |-> pending[i]]

(* The oldest request of that type gets its answer.                        *)
Answer(r, s) ==
    \E i \in 1..Len(pending) :
        /\ pending[i].request = r
        /\ \A j \in 1..(i - 1) : pending[j].request # r
        /\ pending' = [pending EXCEPT ![i] = Answered(pending[i], s)]

AnswerAll(s) ==
    /\ pending # << >>
    /\ pending' = [i \in 1..Len(pending) |-> CommonAnswered(pending[i], s)]

Confirm ==
    /\ pending # << >>
    /\ pending[1].ready
    /\ pending' = Tail(pending)

Defer ==
    /\ pending # << >>
    /\ ~pending[1].ready
    /\ pending' = Append(Tail(pending), pending[1])

Reset == pending' = << >>

Next ==
    \/ \E r \in Requests, s \in Statuses, x \in BOOLEAN : Accept(r, s, x)
    \/ Withdraw
    \/ \E r \in Requests, s \in Statuses : Answer(r, s)
    \/ \E s \in Statuses : AnswerAll(s)
    \/ Confirm
    \/ Defer
    \/ Reset

Spec == Init /\ [][Next]_pending
=============================================================================
