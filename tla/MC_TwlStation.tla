--------------------------- MODULE MC_TwlStation ---------------------------
(* Values for the constants of TwlStation. *)
EXTENDS TwlStation

CONSTANTS home, cafe
MCAp == {home, cafe}
MCWpa2 == {home}
MCWfc == {home}
=============================================================================
