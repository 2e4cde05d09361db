---------------------------- MODULE Transceiver ----------------------------
(***************************************************************************)
(* The Transceiver example as an application of IDFSerial                  *)
(* (examples/UnitUnified/Transceiver/main/Transceiver.cpp): setup() begins *)
(* the unit with flushRX, then loop() sends a message with write_chunked() *)
(* or the two members of Sample0 with writeValue(), the next of these at   *)
(* each click, and shows what has come in with read_chunked().  Every call *)
(* is a whole call of IdfSerial, with the hardware running between its     *)
(* steps.                                                                  *)
(***************************************************************************)
EXTENDS IdfSerial

CONSTANTS
    Messages,    \* Number of messages in message_table.
    MsgLen,      \* Length of a message.
    ChunkWait    \* timeout_ms of read_chunked().

ASSUME AppAssumption ==
    /\ Messages \in Nat
    /\ MsgLen \in Nat \ {0}
    /\ ChunkWait \in Timeouts

VARIABLES
    app,         \* Where the application is.
    step,        \* step of loop(): what the next click sends.
    total,       \* total of write_chunked().
    late,        \* hasElapsed(start, timeout_ms) of write_chunked().
    sent,        \* sent of loop().
    batch,       \* The size receive_bytes was given.
    shown,       \* receive_bytes.
    pushed       \* History: bytes the driver took since the send began.

sendVars == <<step, total, late, sent>>
receiveVars == <<batch, shown>>
appVars == <<app, sendVars, receiveVars, pushed>>
allVars == <<vars, appVars>>

AppInit ==
    /\ Init
    /\ app = "setup"
    /\ step = 0
    /\ total = 0
    /\ late = FALSE
    /\ sent = 0
    /\ batch = 0
    /\ shown = << >>
    /\ pushed = 0

(***************************************************************************)
(* setup(): the wiring succeeds and the unit is begun with flushRX.        *)
(***************************************************************************)
Setup ==
    /\ app = "setup"
    /\ Begin(TRUE)
    /\ app' = "loop"
    /\ UNCHANGED <<sendVars, receiveVars, pushed>>

(***************************************************************************)
(* The wiring or Units.begin() fails.  loop() is never reached; what the   *)
(* unit itself does then is in BoardSetup.                                 *)
(***************************************************************************)
SetupFails ==
    /\ app = "setup"
    /\ app' = "stopped"
    /\ UNCHANGED <<vars, sendVars, receiveVars, pushed>>

(***************************************************************************)
(* failStop() does not return.                                             *)
(***************************************************************************)
Stopped == app = "stopped" /\ UNCHANGED allVars
-----------------------------------------------------------------------------
(* write_chunked().                                                        *)

SendStarts ==
    /\ app = "loop"
    /\ pc = "idle"
    /\ step < Messages
    /\ app' = "send"
    /\ total' = 0
    /\ late' = FALSE
    /\ pushed' = 0
    /\ UNCHANGED <<vars, step, sent, receiveVars>>

(***************************************************************************)
(* 200 ms have passed since write_chunked() read the clock, wherever it is *)
(* by then.                                                                *)
(***************************************************************************)
Deadline ==
    /\ app \in {"send", "offer", "chunk"}
    /\ ~late
    /\ late' = TRUE
    /\ UNCHANGED <<vars, app, step, total, sent, receiveVars, pushed>>

AskOffer ==
    /\ app = "send"
    /\ total < MsgLen
    /\ ~late
    /\ AvailableForWrite
    /\ app' = "offer"
    /\ UNCHANGED <<sendVars, receiveVars, pushed>>

(***************************************************************************)
(* A full ring ends the send: a mutant of NoOffer.                         *)
(***************************************************************************)
NoOfferGivesUp ==
    /\ app = "offer"
    /\ reply.val <= 0
    /\ app' = "flush"
    /\ sent' = total
    /\ UNCHANGED <<vars, step, total, late, receiveVars, pushed>>

NoOffer ==
    /\ app = "offer"
    /\ reply.val <= 0
    /\ app' = "send"
    /\ UNCHANGED <<vars, sendVars, receiveVars, pushed>>

(***************************************************************************)
(* As much as is offered, without the limit of what is left: a mutant of   *)
(* WriteChunk.                                                             *)
(***************************************************************************)
WriteChunkWhole ==
    /\ app = "offer"
    /\ reply.val > 0
    /\ StartWrite("write", reply.val)
    /\ app' = "chunk"
    /\ UNCHANGED <<sendVars, receiveVars, pushed>>

WriteChunk ==
    /\ app = "offer"
    /\ reply.val > 0
    /\ StartWrite("write", Least(reply.val, MsgLen - total))
    /\ app' = "chunk"
    /\ UNCHANGED <<sendVars, receiveVars, pushed>>

ChunkWritten ==
    /\ app = "chunk"
    /\ pc = "idle"
    /\ total' = total + reply.val
    /\ app' = "send"
    /\ UNCHANGED <<vars, step, late, sent, receiveVars, pushed>>

(***************************************************************************)
(* write_chunked() returns without flush(true): a mutant of SendEnds.      *)
(***************************************************************************)
SendEndsUnflushed ==
    /\ app = "send"
    /\ total = MsgLen \/ late
    /\ sent' = total
    /\ app' = "sent"
    /\ UNCHANGED <<vars, step, total, late, receiveVars, pushed>>

SendEnds ==
    /\ app = "send"
    /\ total = MsgLen \/ late
    /\ sent' = total
    /\ IF total > 0
       THEN StartFlush("flush_tx") /\ app' = "flush"
       ELSE app' = "sent" /\ UNCHANGED vars
    /\ UNCHANGED <<step, total, late, receiveVars, pushed>>

SendFlushed ==
    /\ app = "flush"
    /\ pc = "idle"
    /\ app' = "sent"
    /\ UNCHANGED <<vars, sendVars, receiveVars, pushed>>
-----------------------------------------------------------------------------
(* The two values of Sample0; ValueLink has their byte orders.             *)

Sample0 == [a |-> 2, b |-> 4]

FirstStarts ==
    /\ app = "loop"
    /\ step >= Messages
    /\ StartWrite("write_waiting", Sample0.a)
    /\ app' = "first"
    /\ late' = FALSE
    /\ pushed' = 0
    /\ UNCHANGED <<step, total, sent, receiveVars>>

(***************************************************************************)
(* writeValue() is true when write_waiting() has written all of the value. *)
(***************************************************************************)
Took(size) == IF reply.val = size THEN size ELSE 0

SecondStarts ==
    /\ app = "first"
    /\ sent' = Took(Sample0.a)
    /\ StartWrite("write_waiting", Sample0.b)
    /\ app' = "second"
    /\ UNCHANGED <<step, total, late, receiveVars, pushed>>

ValuesSent ==
    /\ app = "second"
    /\ pc = "idle"
    /\ sent' = sent + Took(Sample0.b)
    /\ app' = "sent"
    /\ UNCHANGED <<vars, step, total, late, receiveVars, pushed>>

NextStep ==
    /\ app = "sent"
    /\ step' = (step + 1) % (Messages + 2)
    /\ app' = "receive"
    /\ UNCHANGED <<vars, total, late, sent, receiveVars, pushed>>
-----------------------------------------------------------------------------
(* The receive part of loop(), with read_chunked().                        *)

(***************************************************************************)
(* if (unit.available()), and available() again for the size.              *)
(***************************************************************************)
Look ==
    /\ app \in {"loop", "receive"}
    /\ Available
    /\ app' = IF Buffered > 0 THEN "count" ELSE "loop"
    /\ UNCHANGED <<sendVars, receiveVars, pushed>>

(***************************************************************************)
(* One more byte than available() counted: a mutant of Count.              *)
(***************************************************************************)
CountOneMore ==
    /\ app = "count"
    /\ Available
    /\ batch' = Buffered + 1
    /\ shown' = << >>
    /\ app' = "read"
    /\ UNCHANGED <<sendVars, pushed>>

Count ==
    /\ app = "count"
    /\ Available
    /\ batch' = Buffered
    /\ shown' = << >>
    /\ app' = "read"
    /\ UNCHANGED <<sendVars, pushed>>

ReadChunk ==
    /\ app = "read"
    /\ Len(shown) < batch
    /\ StartRead("readBytes", batch - Len(shown), ChunkWait)
    /\ app' = "got"
    /\ UNCHANGED <<sendVars, receiveVars, pushed>>

(***************************************************************************)
(* Nothing within the timeout ends read_chunked(), as a full batch does.   *)
(***************************************************************************)
GotChunk ==
    /\ app = "got"
    /\ pc = "idle"
    /\ shown' = shown \o reply.bytes
    /\ app' = IF reply.bytes = << >> \/ Len(shown') = batch THEN "show" ELSE "read"
    /\ UNCHANGED <<vars, sendVars, batch, pushed>>

Show ==
    /\ app = "show"
    /\ shown' = << >>
    /\ app' = "loop"
    /\ UNCHANGED <<vars, sendVars, batch, pushed>>
-----------------------------------------------------------------------------
App ==
    \/ Setup \/ SetupFails \/ Stopped
    \/ SendStarts \/ AskOffer \/ NoOffer \/ WriteChunk \/ ChunkWritten
    \/ SendEnds \/ SendFlushed
    \/ FirstStarts \/ SecondStarts \/ ValuesSent \/ NextStep
    \/ Look \/ Count \/ ReadChunk \/ GotChunk \/ Show

(***************************************************************************)
(* The steps of the call the application is in, and the hardware.          *)
(***************************************************************************)
Below ==
    \/ \E k \in 1 .. pending : Push(k) /\ pushed' = pushed + k
    \/ /\ \/ \E k \in 1 .. Len(rx) : Collect(k)
          \/ ReadReturn
          \/ WriteReturn
          \/ DrainReturn
          \/ FlushRound
          \/ FlushDone
          \/ Arrive
          \/ Tick
          \/ Load
          \/ Shift
       /\ UNCHANGED pushed

AppNext == App \/ Deadline \/ (Below /\ UNCHANGED <<app, sendVars, receiveVars>>)

AppSpec == AppInit /\ [][AppNext]_allVars
-----------------------------------------------------------------------------
AppTypeOK ==
    /\ TypeOK
    /\ app \in {"setup", "loop", "send", "offer", "chunk", "flush", "first",
                "second", "sent", "receive", "count", "read", "got", "show",
                "stopped"}
    /\ step \in 0 .. Messages + 1
    /\ total \in 0 .. MsgLen
    /\ late \in BOOLEAN
    /\ sent \in Nat
    /\ batch \in 0 .. MaxRx
    /\ shown \in Seq(1 .. MaxRx)
    /\ pushed \in Nat

(***************************************************************************)
(* The number that loop() reports as sent is what the driver was given,    *)
(* and all of that has left the wire, whether or not the time of           *)
(* write_chunked() ran out in the middle of a chunk.                       *)
(***************************************************************************)
SentIsOut == app = "sent" => TxDone /\ sent = pushed

Planned == IF step < Messages THEN MsgLen ELSE Sample0.a + Sample0.b

(***************************************************************************)
(* "TX timeout" in loop() is one: less than the message is sent only when  *)
(* the time of write_chunked() ran out, and a TX ring that is full for a   *)
(* while is not the end of it; the values have no time to run out.         *)
(***************************************************************************)
ShortOnlyWhenLate == app = "sent" /\ sent # Planned => late

(***************************************************************************)
(* What loop() shows is everything available() had counted, without a gap, *)
(* and nothing that had come in before begin() flushed the input.          *)
(***************************************************************************)
BatchIsWhole ==
    app = "show" =>
        /\ Len(shown) = batch
        /\ \A i \in 1 .. Len(shown) : shown[i] > mark /\ shown[i] = shown[1] + i - 1
=============================================================================
