--------------------------- MODULE MCUnitSIT3088 ---------------------------
(***************************************************************************)
(* Values for the runs of UnitSIT3088: the wired pin and, where a wrong    *)
(* configuration is to be possible, another one.                           *)
(***************************************************************************)
EXTENDS UnitSIT3088

CONSTANTS dir, other

MCPins == {dir, other}
=============================================================================
