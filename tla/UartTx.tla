------------------------------- MODULE UartTx -------------------------------
(***************************************************************************)
(* The transmit side of the ESP-IDF UART driver (driver/uart.h), which is  *)
(* not part of this repository: it is modelled from how the code uses it.  *)
(* A byte is accepted into the TX ring, when the port was installed with   *)
(* one, moved by the interrupt to the hardware FIFO, and shifted out.  On  *)
(* a port without a ring the caller itself copies into the FIFO.           *)
(***************************************************************************)
EXTENDS Integers

CONSTANTS
    TxRing,    \* Bytes the TX ring holds; 0 for a port without one.
    FifoLen    \* SOC_UART_FIFO_LEN.

(***************************************************************************)
(* uart_driver_install() takes no TX ring or one larger than the FIFO.     *)
(***************************************************************************)
ASSUME UartAssumption ==
    /\ FifoLen \in Nat \ {0}
    /\ TxRing \in Nat
    /\ TxRing = 0 \/ FifoLen < TxRing

VARIABLE
    tx         \* [ring, fifo]: bytes waiting in each.

TxType == [ring : 0 .. TxRing, fifo : 0 .. FifoLen]

TxEmpty == [ring |-> 0, fifo |-> 0]

(***************************************************************************)
(* uart_wait_tx_done(): the last stop bit of the last byte is out.         *)
(***************************************************************************)
TxDone == tx = TxEmpty

(***************************************************************************)
(* uart_get_tx_buffer_free_size(): 0 for a full ring, and for no ring.     *)
(***************************************************************************)
TxFree == TxRing - tx.ring

(***************************************************************************)
(* How many bytes uart_write_bytes() can take without waiting.             *)
(***************************************************************************)
TxRoom == IF TxRing > 0 THEN TxFree ELSE FifoLen - tx.fifo

(***************************************************************************)
(* uart_write_bytes() copies k more bytes.                                 *)
(***************************************************************************)
Accept(k) ==
    /\ k <= TxRoom
    /\ tx' = IF TxRing > 0 THEN [tx EXCEPT !.ring = @ + k]
                           ELSE [tx EXCEPT !.fifo = @ + k]

(***************************************************************************)
(* The interrupt refills the FIFO from the ring.                           *)
(***************************************************************************)
LoadFifo ==
    /\ tx.ring > 0
    /\ tx.fifo < FifoLen
    /\ tx' = [ring |-> tx.ring - 1, fifo |-> tx.fifo + 1]

(***************************************************************************)
(* The transmitter finishes the byte at the head of the FIFO.              *)
(***************************************************************************)
ShiftOut ==
    /\ tx.fifo > 0
    /\ tx' = [tx EXCEPT !.fifo = @ - 1]
=============================================================================
