---------------------------- MODULE MCBoardSetup ----------------------------
(***************************************************************************)
(* Values for the run of BoardSetup: a Tab5, a board of the Atom family    *)
(* and one that no helper knows; the pin of the Tab5 and another one.      *)
(***************************************************************************)
EXTENDS BoardSetup

CONSTANTS g34, other

MCPins == {g34, other}
=============================================================================
