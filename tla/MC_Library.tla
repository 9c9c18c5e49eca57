---------------------------- MODULE MC_Library ----------------------------
(* Instances of Library for TLC *)
EXTENDS Library

CONSTANTS home, cafe

(* cafe gives no DNS server, has an IPv6 router and is saved with an address *)
MCNet == {home, cafe}
MCCafe == {cafe}

=============================================================================
