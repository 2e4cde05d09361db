---------------------------- MODULE MCIdfSerial ----------------------------
(***************************************************************************)
(* Values for the runs of IdfSerial: of the timeouts asked for, one does   *)
(* not wait, one is below a tick, and one is exactly portMAX_DELAY ticks,  *)
(* where the saturation begins.                                            *)
(***************************************************************************)
EXTENDS IdfSerial

MCWord == 1024
MCMaxDelay == 3
MCTickRate == 100
MCTimeouts == {0, 1, 30}
=============================================================================
