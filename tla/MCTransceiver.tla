--------------------------- MODULE MCTransceiver ---------------------------
(***************************************************************************)
(* Values for the run of Transceiver: a message longer than the TX ring,   *)
(* so that write_chunked() meets a full one, and a few received bytes.     *)
(***************************************************************************)
EXTENDS Transceiver

MCWord == 1024
MCMaxDelay == 3
MCTickRate == 100
MCChunkWait == 10
MCTimeouts == {MCChunkWait}
=============================================================================
