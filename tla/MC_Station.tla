------------------------------ MODULE MC_Station ------------------------------
(* An instance of Station for TLC: a lossy place with an open access point    *)
(* and a silent one, and a quiet place with access points of six kinds.       *)
EXTENDS Station

CONSTANTS open, mute, picky, wep, full, refuses, silent

MCInRange ==
  [p \in Place |-> IF p \in Lossy THEN {open, silent} ELSE {mute, picky, wep, full, refuses, silent}]
MCKind ==
  [ap \in Ap |-> CASE ap = open -> "open"
                   [] ap = mute -> "mute"
                   [] ap = picky -> "picky"
                   [] ap = wep -> "wep"
                   [] ap = full -> "full"
                   [] ap = refuses -> "refuses"
                   [] ap = silent -> "silent"]
MCCalls == [p \in Place |-> IF p \in Lossy THEN 2 ELSE 1]
==============================================================================
