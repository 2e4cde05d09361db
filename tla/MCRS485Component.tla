-------------------------- MODULE MCRS485Component --------------------------
(***************************************************************************)
(* Two places for a UnitSIT3088 and one for a UnitSP485, so that units of  *)
(* one type move both ways and the types stay apart.                       *)
(***************************************************************************)
EXTENDS RS485Component, TLC

CONSTANTS d1, d2, p1, b1, b2, b3, x, y

MCObjects == {d1, d2, p1}
MCDirected == {d1, d2}
MCBackends == {b1, b2, b3}
MCPins == {x, y}

(***************************************************************************)
(* The backends, the pins and the directed places are interchangeable.     *)
(***************************************************************************)
Symmetry ==
    Permutations(MCBackends) \cup Permutations(MCPins) \cup Permutations(MCDirected)
=============================================================================
