---------------------------- MODULE MC_MPSession ----------------------------
(* Instances of MPSession for TLC.  Consoles differ only in their address.  *)
EXTENDS MPSession, TLC

Consoles == Permutations(Mac)
=============================================================================
