--------------------------- MODULE MC_PacketRing ----------------------------
(* Instances of PacketRing for TLC.  The data words are those that a reader *)
(* would take for the stop marker and for the wrap marker if it ever lost   *)
(* its place.                                                               *)
EXTENDS PacketRing

MarkerLookalikes == {0, WIFI_SIZE_WRAP}

(* A frame that the ARM9 queues starts with a Wifi_TxHeader, whose first    *)
(* word it leaves 0.                                                        *)
ZeroHeader == {0}
=============================================================================
