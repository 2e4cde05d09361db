----------------------------- MODULE IdfSerial -----------------------------
(***************************************************************************)
(* IDFSerial (src/unit/rs485_idf_serial.hpp), the serial backend that      *)
(* reproduces Arduino's Stream contract on the ESP-IDF UART driver, with   *)
(* the parts of RS485Component that call it: begin() with its flushRX      *)
(* drain, the write overloads and write_waiting().                         *)
(*                                                                         *)
(* One task makes the calls; the UART hardware, its interrupts and the     *)
(* tick run between any two of the task's steps.  A received byte is named *)
(* by its number of arrival.                                               *)
(***************************************************************************)
EXTENDS UartTx, Sequences, TickMath

CONSTANTS
    TickRate,    \* configTICK_RATE_HZ.
    Timeouts,    \* Timeouts in milliseconds passed to readBytes().
    ReadSizes,   \* Length arguments of the reads.
    WriteSizes,  \* Length arguments of the writes.
    MaxRx,       \* Bytes the peer sends, a bound for model checking.
    Window,      \* The 100 ms of begin()'s drain, in time units of the model.
    MaxStall     \* Longest time the task may be kept off the CPU in begin().

(***************************************************************************)
(* The drain measures 100 ms of wall time.  A task kept off the CPU that   *)
(* long between reading the clock and the first test would not drain at    *)
(* all; every result about the drain assumes it is not.                    *)
(***************************************************************************)
ASSUME IdfAssumption ==
    /\ TickRate \in UInt32
    /\ Timeouts \subseteq UInt32
    /\ ReadSizes \subseteq Nat
    /\ WriteSizes \subseteq Nat
    /\ MaxRx \in Nat
    /\ Window \in Nat
    /\ MaxStall \in Nat \ {0}
    /\ MaxStall < Window

VARIABLES
    up,         \* uart_is_driver_installed().
    arrived,    \* How many bytes have come in.
    rx,         \* The bytes in the driver's RX ring.
    peeked,     \* _peeked.
    ringSeen,   \* _tx_ring_seen.
    pc,         \* Where the calling task is.
    op,         \* The call it is in.
    want,       \* The length argument of that call.
    ticks,      \* Ticks a read may still wait.
    buf,        \* What a read has put in the caller's buffer.
    pending,    \* Bytes of a write that the driver has not accepted yet.
    elapsed,    \* Time since begin() read the clock.
    reply,      \* The latest answer: [op, want, val, bytes].
    mark        \* How many bytes had come in at the last begin() that drains.

serialVars == <<peeked, ringSeen>>
callVars == <<pc, op, want, ticks, buf, pending, elapsed>>
vars == <<up, arrived, rx, tx, serialVars, callVars, reply, mark>>

NoByte == -1
Reads == {"read", "readBytes"}
Writes == {"write", "write_waiting"}
Flushes == {"flush_tx", "flush_all"}

Answer(o, n, v, bytes) == [op |-> o, want |-> n, val |-> v, bytes |-> bytes]

Least(a, b) == IF a < b THEN a ELSE b

Init ==
    /\ up = TRUE
    /\ arrived = 0
    /\ rx = << >>
    /\ tx = TxEmpty
    /\ peeked = NoByte
    /\ ringSeen = FALSE
    /\ pc = "idle"
    /\ op = "none"
    /\ want = 0
    /\ ticks = 0
    /\ buf = << >>
    /\ pending = 0
    /\ elapsed = 0
    /\ reply = Answer("none", 0, 0, << >>)
    /\ mark = 0

(***************************************************************************)
(* The byte held back for peek(), as a sequence of at most one byte.       *)
(***************************************************************************)
Held == IF peeked = NoByte THEN << >> ELSE <<peeked>>

(***************************************************************************)
(* What available() counts: nothing of the ring once the driver is gone.   *)
(***************************************************************************)
Buffered == IF up THEN Len(rx) + Len(Held) ELSE Len(Held)

(***************************************************************************)
(* The answer of availableForWrite(), and whether it is the size of a ring *)
(* that has been seen.  An error of the driver and a zero before the first *)
(* other answer both fall back to the length of the FIFO.                  *)
(***************************************************************************)
SeesRing == up /\ TxFree > 0
(***************************************************************************)
(* Without _tx_ring_seen a full ring passes for no ring: a mutant of       *)
(* Writable.                                                               *)
(***************************************************************************)
WritableNoMemory == IF SeesRing THEN TxFree ELSE FifoLen

Writable ==
    IF SeesRing THEN TxFree
    ELSE IF up /\ ringSeen THEN 0
    ELSE FifoLen
-----------------------------------------------------------------------------
(* The calls that return at once.                                          *)

Available ==
    /\ pc = "idle"
    /\ reply' = Answer("available", 0, Buffered, << >>)
    /\ UNCHANGED <<up, arrived, rx, tx, serialVars, callVars, mark>>

AvailableForWrite ==
    /\ pc = "idle"
    /\ reply' = Answer("availableForWrite", 0, Writable, << >>)
    /\ ringSeen' = (ringSeen \/ SeesRing)
    /\ UNCHANGED <<up, arrived, rx, tx, peeked, callVars, mark>>

(***************************************************************************)
(* The byte is kept without asking whether the driver gave one: a mutant   *)
(* of Peek.                                                                *)
(***************************************************************************)
PeekUnchecked ==
    /\ pc = "idle"
    /\ IF Held = << >>
       THEN /\ peeked' = IF up /\ rx # << >> THEN Head(rx) ELSE 0
            /\ rx' = SubSeq(rx, 2, Len(rx))
       ELSE UNCHANGED <<peeked, rx>>
    /\ reply' = Answer("peek", 1, 0, <<peeked'>>)
    /\ UNCHANGED <<up, arrived, tx, ringSeen, callVars, mark>>

Peek ==
    /\ pc = "idle"
    /\ IF Held = << >> /\ up /\ rx # << >>
       THEN peeked' = Head(rx) /\ rx' = Tail(rx)
       ELSE UNCHANGED <<peeked, rx>>
    /\ reply' = Answer("peek", 1, 0, IF peeked' = NoByte THEN << >> ELSE <<peeked'>>)
    /\ UNCHANGED <<up, arrived, tx, ringSeen, callVars, mark>>

(***************************************************************************)
(* read(): the held byte first, else one from the ring, else -1.           *)
(***************************************************************************)
ReadOne ==
    /\ pc = "idle"
    /\ \/ /\ Held # << >>
          /\ peeked' = NoByte
          /\ reply' = Answer("read", 1, 0, Held)
          /\ UNCHANGED rx
       \/ /\ Held = << >>
          /\ LET k == Least(1, Len(rx))
             IN  /\ reply' = Answer("read", 1, 0, SubSeq(rx, 1, k))
                 /\ rx' = SubSeq(rx, k + 1, Len(rx))
          /\ UNCHANGED peeked
    /\ UNCHANGED <<up, arrived, tx, ringSeen, callVars, mark>>
-----------------------------------------------------------------------------
(* read(buf, len) and readBytes(buf, len [, timeout]): read_with_wait.     *)

ReadNothing ==
    /\ pc = "idle"
    /\ 0 \in ReadSizes
    /\ reply' = Answer("read", 0, 0, << >>)
    /\ UNCHANGED <<up, arrived, rx, tx, serialVars, callVars, mark>>

(***************************************************************************)
(* The wait the read passes to the driver: none for read(buf, len).        *)
(***************************************************************************)
WaitOf(o, ms) == IF o = "read" THEN 0 ELSE TicksFromMs(ms, TickRate)

(***************************************************************************)
(* The held byte is copied out and still held: a mutant of StartRead.      *)
(***************************************************************************)
StartReadKeepsHeld(o, n, ms) ==
    /\ pc = "idle"
    /\ n > 0
    /\ pc' = "reading"
    /\ op' = o
    /\ want' = n
    /\ ticks' = WaitOf(o, ms)
    /\ buf' = Held
    /\ UNCHANGED <<up, arrived, rx, tx, serialVars, pending, elapsed, reply, mark>>

(***************************************************************************)
(* The held byte is forgotten, only the ring is read: a mutant of          *)
(* StartRead.                                                              *)
(***************************************************************************)
StartReadDropsHeld(o, n, ms) ==
    /\ pc = "idle"
    /\ n > 0
    /\ pc' = "reading"
    /\ op' = o
    /\ want' = n
    /\ ticks' = WaitOf(o, ms)
    /\ peeked' = NoByte
    /\ UNCHANGED <<up, arrived, rx, tx, ringSeen, buf, pending, elapsed, reply, mark>>

StartRead(o, n, ms) ==
    /\ pc = "idle"
    /\ n > 0
    /\ pc' = "reading"
    /\ op' = o
    /\ want' = n
    /\ ticks' = WaitOf(o, ms)
    /\ buf' = Held
    /\ peeked' = NoByte
    /\ UNCHANGED <<up, arrived, rx, tx, ringSeen, pending, elapsed, reply, mark>>

(***************************************************************************)
(* uart_read_bytes() copies k bytes of those in the ring.                  *)
(***************************************************************************)
Collect(k) ==
    /\ pc = "reading"
    /\ k <= want - Len(buf)
    /\ buf' = buf \o SubSeq(rx, 1, k)
    /\ rx' = SubSeq(rx, k + 1, Len(rx))
    /\ UNCHANGED <<up, arrived, tx, serialVars, pc, op, want, ticks, pending,
                   elapsed, reply, mark>>

(***************************************************************************)
(* A tick passes in uart_read_bytes().  portMAX_DELAY is not counted down. *)
(***************************************************************************)
Tick ==
    /\ pc = "reading"
    /\ ticks > 0
    /\ ticks # MaxDelay
    /\ ticks' = ticks - 1
    /\ UNCHANGED <<up, arrived, rx, tx, serialVars, pc, op, want, buf, pending,
                   elapsed, reply, mark>>

(***************************************************************************)
(* The read is complete, out of time with nothing more to copy, or refused *)
(* by a driver that is not installed.                                      *)
(***************************************************************************)
ReadReturn ==
    /\ pc = "reading"
    /\ \/ Len(buf) = want
       \/ ticks = 0 /\ rx = << >>
       \/ ~up
    /\ pc' = "idle"
    /\ op' = "none"
    /\ want' = 0
    /\ ticks' = 0
    /\ buf' = << >>
    /\ reply' = Answer("read", want, 0, buf)
    /\ UNCHANGED <<up, arrived, rx, tx, serialVars, pending, elapsed, mark>>
-----------------------------------------------------------------------------
(* write(), write_waiting() and flush().                                   *)

WriteNothing ==
    /\ pc = "idle"
    /\ 0 \in WriteSizes
    /\ reply' = Answer("write", 0, 0, << >>)
    /\ UNCHANGED <<up, arrived, rx, tx, serialVars, callVars, mark>>

StartWrite(o, n) ==
    /\ pc = "idle"
    /\ n > 0
    /\ pc' = "writing"
    /\ op' = o
    /\ want' = n
    /\ pending' = n
    /\ UNCHANGED <<up, arrived, rx, tx, serialVars, ticks, buf, elapsed, reply, mark>>

(***************************************************************************)
(* uart_write_bytes() hands k more bytes to the ring or the FIFO.          *)
(***************************************************************************)
Push(k) ==
    /\ pc = "writing"
    /\ up
    /\ k <= pending
    /\ Accept(k)
    /\ pending' = pending - k
    /\ UNCHANGED <<up, arrived, rx, serialVars, pc, op, want, ticks, buf, elapsed,
                   reply, mark>>

(***************************************************************************)
(* A call that returns without waiting for the transmitter.                *)
(***************************************************************************)
Finish(o, n, v) ==
    /\ pc' = "idle"
    /\ op' = "none"
    /\ want' = 0
    /\ pending' = 0
    /\ reply' = Answer(o, n, v, << >>)

(***************************************************************************)
(* A single byte is not worth a drain: a mutant of DrainsAfter.            *)
(***************************************************************************)
DrainsAfterMany(o, written) == o = "write_waiting" /\ written > 1

(***************************************************************************)
(* write_waiting() goes on to flush(true) if any byte was written.         *)
(***************************************************************************)
DrainsAfter(o, written) == o = "write_waiting" /\ written > 0

WriteReturn ==
    /\ pc = "writing"
    /\ pending = 0 \/ ~up
    /\ LET written == IF up THEN want ELSE 0
       IN  IF DrainsAfter(op, written)
           THEN /\ pc' = "draining"
                /\ UNCHANGED <<op, want, pending, reply>>
           ELSE Finish(op, want, written)
    /\ UNCHANGED <<up, arrived, rx, tx, serialVars, ticks, buf, elapsed, mark>>

StartFlush(o) ==
    /\ pc = "idle"
    /\ pc' = "draining"
    /\ op' = o
    /\ UNCHANGED <<up, arrived, rx, tx, serialVars, want, ticks, buf, pending,
                   elapsed, reply, mark>>

(***************************************************************************)
(* uart_wait_tx_done() returns; only flush(false) then discards the input. *)
(***************************************************************************)
DrainReturn ==
    /\ pc = "draining"
    /\ TxDone \/ ~up
    /\ IF op = "flush_all"
       THEN rx' = << >> /\ peeked' = NoByte
       ELSE UNCHANGED <<rx, peeked>>
    /\ Finish(op, want, want)
    /\ UNCHANGED <<up, arrived, tx, ringSeen, ticks, buf, elapsed, mark>>
-----------------------------------------------------------------------------
(* RS485Component::begin() with this backend.                              *)

(***************************************************************************)
(* make_serial() refuses a port without a driver: begin() fails and the    *)
(* backend in use stays.                                                   *)
(***************************************************************************)
BeginFails ==
    /\ pc = "idle"
    /\ ~up
    /\ reply' = Answer("begin_failed", 0, 0, << >>)
    /\ UNCHANGED <<up, arrived, rx, tx, serialVars, callVars, mark>>

(***************************************************************************)
(* A new backend is installed, and with _cfg.flushRX the drain starts: the *)
(* clock is read, and the task may be kept off the CPU from there on.      *)
(***************************************************************************)
Begin(flushRX) ==
    /\ pc = "idle"
    /\ up
    /\ peeked' = NoByte
    /\ ringSeen' = FALSE
    /\ reply' = Answer("begin", 0, 1, << >>)
    /\ IF flushRX
       THEN /\ pc' = "flushRX"
            /\ op' = "begin"
            /\ elapsed' \in 0 .. MaxStall
            /\ mark' = arrived
       ELSE UNCHANGED <<pc, op, elapsed, mark>>
    /\ UNCHANGED <<up, arrived, rx, tx, want, ticks, buf, pending>>

(***************************************************************************)
(* The loop condition negated: a mutant of WindowOver.                     *)
(***************************************************************************)
WindowOpen == elapsed < Window

(***************************************************************************)
(* hasElapsed(start, 100).                                                 *)
(***************************************************************************)
WindowOver == elapsed >= Window

(***************************************************************************)
(* The clock is read again in every round: a mutant of FlushRound.         *)
(***************************************************************************)
FlushRoundRestarts ==
    /\ pc = "flushRX"
    /\ ~WindowOver
    /\ rx' = << >>
    /\ elapsed' \in 1 .. MaxStall
    /\ UNCHANGED <<up, arrived, tx, serialVars, pc, op, want, ticks, buf, pending,
                   reply, mark>>

FlushRound ==
    /\ pc = "flushRX"
    /\ ~WindowOver
    /\ rx' = << >>
    /\ \E d \in 1 .. MaxStall : elapsed' = Least(elapsed + d, Window)
    /\ UNCHANGED <<up, arrived, tx, serialVars, pc, op, want, ticks, buf, pending,
                   reply, mark>>

FlushDone ==
    /\ pc = "flushRX"
    /\ WindowOver
    /\ pc' = "idle"
    /\ op' = "none"
    /\ elapsed' = 0
    /\ UNCHANGED <<up, arrived, rx, tx, serialVars, want, ticks, buf, pending,
                   reply, mark>>
-----------------------------------------------------------------------------
(* The hardware, and the application's own use of the driver.              *)

Arrive ==
    /\ up
    /\ arrived < MaxRx
    /\ arrived' = arrived + 1
    /\ rx' = Append(rx, arrived + 1)
    /\ UNCHANGED <<up, tx, serialVars, callVars, reply, mark>>

Load == LoadFifo /\ UNCHANGED <<up, arrived, rx, serialVars, callVars, reply, mark>>

Shift == ShiftOut /\ UNCHANGED <<up, arrived, rx, serialVars, callVars, reply, mark>>

(***************************************************************************)
(* uart_driver_delete() between two calls: what the ring held is gone.     *)
(***************************************************************************)
DriverDelete ==
    /\ pc = "idle"
    /\ up
    /\ TxDone
    /\ up' = FALSE
    /\ rx' = << >>
    /\ reply' = Answer("driver", 0, 0, << >>)
    /\ UNCHANGED <<arrived, tx, serialVars, callVars, mark>>

(***************************************************************************)
(* uart_driver_install() again.  The size of the TX ring is that of the    *)
(* build: an application that first installs the port with a ring and then *)
(* without one, below a backend that has seen the ring, is not modelled.   *)
(* To such a backend availableForWrite() answers 0 until the next begin(), *)
(* which makes a new one.                                                  *)
(***************************************************************************)
DriverInstall ==
    /\ pc = "idle"
    /\ ~up
    /\ up' = TRUE
    /\ UNCHANGED <<arrived, rx, tx, serialVars, callVars, reply, mark>>
-----------------------------------------------------------------------------
Progress ==
    \/ \E k \in 1 .. Len(rx) : Collect(k)
    \/ ReadReturn
    \/ \E k \in 1 .. pending : Push(k)
    \/ WriteReturn
    \/ DrainReturn
    \/ FlushRound
    \/ FlushDone

Call ==
    \/ Available
    \/ AvailableForWrite
    \/ Peek
    \/ ReadOne
    \/ ReadNothing
    \/ \E o \in Reads, n \in ReadSizes, ms \in Timeouts : StartRead(o, n, ms)
    \/ WriteNothing
    \/ \E o \in Writes, n \in WriteSizes : StartWrite(o, n)
    \/ \E o \in Flushes : StartFlush(o)
    \/ BeginFails
    \/ \E flushRX \in BOOLEAN : Begin(flushRX)

Environment ==
    \/ Arrive
    \/ Tick
    \/ Load
    \/ Shift
    \/ DriverDelete
    \/ DriverInstall

Next == Call \/ Progress \/ Environment

Spec == Init /\ [][Next]_vars

(***************************************************************************)
(* The tick interrupt comes, the transmitter goes on sending, and the      *)
(* scheduler runs the task whenever it can take a step.                    *)
(***************************************************************************)
Fairness ==
    /\ WF_vars(Progress)
    /\ WF_vars(Tick)
    /\ WF_vars(Load)
    /\ WF_vars(Shift)

FairSpec == Spec /\ Fairness
-----------------------------------------------------------------------------
(* Properties.                                                             *)

Events == {"none", "available", "availableForWrite", "peek", "begin",
           "begin_failed", "driver"} \cup Reads \cup Writes \cup Flushes

Replies == [op : Events, want : Nat, val : Nat, bytes : Seq(1 .. MaxRx)]

TypeOK ==
    /\ up \in BOOLEAN
    /\ arrived \in 0 .. MaxRx
    /\ rx \in Seq(1 .. MaxRx)
    /\ tx \in TxType
    /\ peeked \in 1 .. MaxRx \cup {NoByte}
    /\ ringSeen \in BOOLEAN
    /\ pc \in {"idle", "reading", "writing", "draining", "flushRX"}
    /\ op \in Reads \cup Writes \cup Flushes \cup {"none", "begin"}
    /\ want \in Nat
    /\ ticks \in Nat
    /\ buf \in Seq(1 .. MaxRx)
    /\ pending \in Nat
    /\ elapsed \in 0 .. Window
    /\ mark \in 0 .. MaxRx
    /\ reply \in Replies

(***************************************************************************)
(* Every byte that has come in and not been handed out or discarded, in    *)
(* the order it will be: what a read has copied, what peek() holds back,   *)
(* what the ring holds.                                                    *)
(***************************************************************************)
Unread == buf \o Held \o rx

(***************************************************************************)
(* The backend implements the Stream contract of ByteStream: held byte,    *)
(* ring and half-finished read together are one input.                     *)
(***************************************************************************)
Got ==
    CASE reply.op \in {"read", "peek"} ->
             [op |-> reply.op, want |-> reply.want, bytes |-> reply.bytes]
      [] reply.op \in {"begin", "flush_all", "driver"} ->
             [op |-> "discard", want |-> 0, bytes |-> << >>]
      [] OTHER -> [op |-> "quiet", want |-> 0, bytes |-> << >>]

Stream == INSTANCE ByteStream WITH input <- Unread, got <- Got

StreamContract == Stream!Spec

(***************************************************************************)
(* A begin() with flushRX starts on a clean input: no byte that had come   *)
(* in before it was called, held back or in the ring, is read after it.    *)
(***************************************************************************)
NothingStale ==
    pc # "flushRX" =>
        /\ \A i \in 1 .. Len(Unread) : Unread[i] > mark
        /\ reply.op \in {"read", "peek"} =>
               \A i \in 1 .. Len(reply.bytes) : reply.bytes[i] > mark

(***************************************************************************)
(* What available() counted can be read without waiting: the read that     *)
(* follows returns that many bytes, or as many as it asked for, although   *)
(* one of them may be the byte held back by peek().                        *)
(***************************************************************************)
AvailableIsReadable ==
    [][reply.op = "available" /\ reply'.op = "read" =>
           Len(reply'.bytes) >= Least(reply.val, reply'.want)]_vars

(***************************************************************************)
(* Once a TX ring has been seen, a write of no more than availableForWrite *)
(* has just answered never waits for the transmitter.                      *)
(***************************************************************************)
RingOfferIsWritable ==
    ringSeen /\ pc = "writing" /\ reply.op = "availableForWrite"
             /\ want <= reply.val => pending <= TxRoom

(***************************************************************************)
(* "Returns the number of bytes that can be written without blocking"      *)
(* (RS485Component::availableForWrite), for every answer.                  *)
(***************************************************************************)
OfferIsWritable ==
    up /\ pc = "writing" /\ reply.op = "availableForWrite"
       /\ want <= reply.val => pending <= TxRoom

(***************************************************************************)
(* After a write_waiting() that reports bytes written (so after every      *)
(* writeValue() that reports success) and after a flush, nothing is left   *)
(* in the ring or the FIFO.                                                *)
(***************************************************************************)
WaitedIsOnTheWire ==
    /\ pc = "idle"
    /\ reply.op \in Flushes \cup {"write_waiting"}
    => TxDone

(***************************************************************************)
(* Every call returns: no timeout argument waits for ever, the transmitter *)
(* drains, and the drain of begin() ends.                                  *)
(***************************************************************************)
CallsReturn == pc # "idle" ~> pc = "idle"
=============================================================================
