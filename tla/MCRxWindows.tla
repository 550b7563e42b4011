----------------------------- MODULE MCRxWindows ----------------------------
(***************************************************************************)
(* Instance of RxWindows for TLC: every region with a channel or two, its  *)
(* slowest and its fastest data rate, and of each parameter of a command   *)
(* one value the region takes and one it refuses.                          *)
(***************************************************************************)
EXTENDS RxWindows

AllRegions == Names

ListRegions == Names \ {"AU915", "CN470", "US915"}

Channels ==
    [r \in Names |-> CASE r \in ListRegions -> {0, 5}
                       [] r = "CN470" -> {0, 50}
                       [] OTHER -> {9, 65}]
Datarates ==
    [r \in Names |-> CASE r \in {"KR920", "CN470"} -> {0, 5}
                       [] r = "US915" -> {0, 4}
                       [] r = "AU915" -> {0, 6}
                       [] OTHER -> {0, 5}]

(* One the region has, one it has not.                                     *)
Frequencies ==
    [r \in Names |-> CASE r = "EU868" -> {867100000, 862000000}
                       [] r = "EU433" -> {434000000, 435000000}
                       [] r = "CN779" -> {780500000, 779000000}
                       [] r = "RU864" -> {864100000, 870100000}
                       [] r = "IN865" -> {866000000, 867100000}
                       [] r = "KR920" -> {921100000, 921200000}
                       [] r = "AS923" -> {924000000, 914000000}
                       [] r = "CN470" -> {500500000, 470300000}
                       [] OTHER -> {923900000, 924000000}]
RxDatarates ==
    [r \in Names |-> CASE r \in {"US915", "AU915"} -> {13, 14}
                       [] r \in {"KR920", "CN470"} -> {3, 6}
                       [] r = "IN865" -> {5, 6}
                       [] OTHER -> {3, 8}]
DrOffsets ==
    [r \in Names |-> CASE r = "US915" -> {2, 4}
                       [] r \in {"IN865", "AS923"} -> {7}
                       [] OTHER -> {2, 6}]

(* A join accept that changes nothing, and one that changes everything.    *)
Good(r) == CHOOSE f \in Frequencies[r] : RegionVerify(r, "FREQUENCY", f, 0, 0)
Bad(r) == CHOOSE f \in Frequencies[r] : ~RegionVerify(r, "FREQUENCY", f, 0, 0)
JoinAccepts ==
    [r \in Names |->
        {[rx1DrOffset |-> 0, rx2Datarate |-> RegionPhyDefaults(r).rx2Datarate, rxDelay |-> 0,
          cfList |-> [type |-> 2]],
         [rx1DrOffset |-> 1, rx2Datarate |-> CHOOSE d \in RxDatarates[r] : d \notin {6, 8, 14},
          rxDelay |-> 2,
          cfList |-> IF r \in ListRegions
                     THEN [type |-> 0, frequencies |-> <<0, Bad(r), Good(r), Good(r), 0>>]
                     ELSE [type |-> 1, mask |-> Channels[r]]]}]

Delays == {0, 3}
Ids == {0, 5}
=============================================================================
