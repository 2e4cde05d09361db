-------------------------- MODULE MCArduinoSerial --------------------------
(***************************************************************************)
(* Values for the run of ArduinoSerial under its applications: the unit    *)
(* the adapter wraps, and another one it is moved to; no wait, a short one *)
(* and a longer one; a line of two bytes and one that is cut.              *)
(***************************************************************************)
EXTENDS StreamAdapter

CONSTANTS a, b

MCUnits == {a, b}
=============================================================================
