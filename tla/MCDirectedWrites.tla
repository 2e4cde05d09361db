-------------------------- MODULE MCDirectedWrites --------------------------
(***************************************************************************)
(* Three places for a UnitSIT3088, so that a backend can be moved on from  *)
(* where it was moved to, two backends and two pins, one of them wired.    *)
(***************************************************************************)
EXTENDS DirectedWrites, TLC

CONSTANTS d1, d2, d3, b1, b2, dir, other

MCObjects == {d1, d2, d3}
MCBackends == {b1, b2}
MCPins == {dir, other}

(***************************************************************************)
(* The backends and the places are interchangeable, the pins are not.      *)
(***************************************************************************)
Symmetry == Permutations(MCBackends) \cup Permutations(MCObjects)
=============================================================================
