----------------------------- MODULE MCTimeouts -----------------------------
(***************************************************************************)
(* A small word: the 32-bit product would wrap inside it, and the largest  *)
(* timeouts saturate at both tick rates.                                   *)
(***************************************************************************)
EXTENDS Timeouts

MCWord == 1024
MCMaxDelay == 90
MCRates == {100, 250, 1000}
MCAsks == (0 .. 25) \cup (84 .. 96) \cup (355 .. 366) \cup (895 .. 910) \cup {1000, 1023}
=============================================================================
