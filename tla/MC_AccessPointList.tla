------------------------- MODULE MC_AccessPointList -------------------------
(* Access points of each sort that the filters tell apart; the beacons of   *)
(* one have no SSID                                                         *)
EXTENDS AccessPointList

CONSTANTS open, wpa, host

BeaconOf ==
  [a \in Ap |->
    CASE a = open -> [privacy |-> FALSE, cipher |-> "none", mandatory |-> "b",
           nintendo |-> FALSE, named |-> TRUE]
      [] a = wpa -> [privacy |-> TRUE, cipher |-> "wpa", mandatory |-> "b",
           nintendo |-> FALSE, named |-> FALSE]
      [] a = host -> [privacy |-> FALSE, cipher |-> "none", mandatory |-> "b",
           nintendo |-> TRUE, named |-> TRUE]]

=============================================================================
