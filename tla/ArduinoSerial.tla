--------------------------- MODULE ArduinoSerial ---------------------------
(***************************************************************************)
(* The read side on Arduino: the Serial API of RS485Component, inline in   *)
(* src/unit/rs485_component.hpp, its backends HSSerial                     *)
(* (src/unit/rs485_hs_serial.hpp) and NullSerial, and the UnitSP485Stream  *)
(* that wraps a unit (src/unit/unit_SP485_stream.hpp).  HardwareSerial and *)
(* Stream are the Arduino core's; each of the two objects has a timeout of *)
(* its own, and HSSerial borrows the one of HardwareSerial for a read with *)
(* an explicit timeout.  A received byte is named by its number.           *)
(***************************************************************************)
EXTENDS Integers, Sequences

CONSTANTS
    Units,       \* The components.
    Wrapped,     \* The one that the adapter was built from.
    Timeouts,    \* Timeouts in use, in time units of the model.
    Default,     \* The timeout a Stream is constructed with.
    ReadSizes,   \* Length arguments of the reads.
    Newlines,    \* The bytes, by their number, that end a line.
    MaxRx        \* Bytes the peer sends, a bound for model checking.

ASSUME ArduinoAssumption ==
    /\ Wrapped \in Units
    /\ Timeouts \subseteq Nat
    /\ Default \in Timeouts
    /\ ReadSizes \subseteq Nat \ {0}
    /\ Newlines \subseteq Nat
    /\ MaxRx \in Nat

VARIABLES
    serial,      \* _serial of each unit: "null" or "hs".
    hsTimeout,   \* getTimeout() of the HardwareSerial.
    ownTimeout,  \* getTimeout() of the adapter.
    setting,     \* History: what the application last set, for each of them.
    arrived,     \* How many bytes have come in.
    rx,          \* The bytes in the HardwareSerial.
    call,        \* The waiting read in progress.
    buf,         \* What it has read so far.
    left,        \* Time it may still wait.
    waited,      \* History: time it has waited for the next byte.
    reply        \* The latest answer: [op, want, val, bytes].

timeoutVars == <<hsTimeout, ownTimeout, setting>>
inputVars == <<arrived, rx>>
callVars == <<call, buf, left, waited>>
vars == <<serial, timeoutVars, inputVars, callVars, reply>>

(***************************************************************************)
(* The kinds of waiting reads: the two-argument and the three-argument     *)
(* readBytes() of a unit, and readBytes() and readStringUntil('\n') that    *)
(* the adapter inherits from Stream.                                       *)
(***************************************************************************)
StreamKinds == {"stream", "line"}
Kinds == {"readBytes", "readBytesFor"} \cup StreamKinds

NoCall == [kind |-> "none", want |-> 0, previous |-> 0, asked |-> 0]

Answer(o, n, v, bytes) == [op |-> o, want |-> n, val |-> v, bytes |-> bytes]

Init ==
    /\ serial = [u \in Units |-> "null"]
    /\ hsTimeout = Default
    /\ ownTimeout = Default
    /\ setting = [hs |-> Default, own |-> Default]
    /\ arrived = 0
    /\ rx = << >>
    /\ call = NoCall
    /\ buf = << >>
    /\ left = 0
    /\ waited = 0
    /\ reply = Answer("none", 0, 0, << >>)

Idle == call = NoCall
-----------------------------------------------------------------------------
(* What is not a read.                                                     *)

(***************************************************************************)
(* begin() with a usable adapter.  IdfSerial has the drain of flushRX step *)
(* by step; here it is one step that leaves nothing.                       *)
(***************************************************************************)
Begin(u, flushRX) ==
    /\ Idle
    /\ serial' = [serial EXCEPT ![u] = "hs"]
    /\ rx' = IF flushRX THEN << >> ELSE rx
    /\ reply' = Answer("begin", 0, 1, << >>)
    /\ UNCHANGED <<timeoutVars, arrived, callVars>>

(***************************************************************************)
(* flush(false) discards the input after the transmitter has drained.      *)
(***************************************************************************)
FlushAll(u) ==
    /\ Idle
    /\ serial[u] = "hs"
    /\ rx' = << >>
    /\ reply' = Answer("flush", 0, 0, << >>)
    /\ UNCHANGED <<serial, timeoutVars, arrived, callVars>>

(***************************************************************************)
(* u is moved to d and falls back; the adapter goes on referring to the    *)
(* unit it was built from.                                                 *)
(***************************************************************************)
Move(u, d) ==
    /\ Idle
    /\ u # d
    /\ serial' = [serial EXCEPT ![d] = serial[u], ![u] = "null"]
    /\ reply' = Answer("move", 0, 0, << >>)
    /\ UNCHANGED <<timeoutVars, inputVars, callVars>>

SetTimeout(t) ==
    /\ Idle
    /\ hsTimeout' = t
    /\ setting' = [setting EXCEPT !.hs = t]
    /\ UNCHANGED <<serial, ownTimeout, inputVars, callVars, reply>>

SetStreamTimeout(t) ==
    /\ Idle
    /\ ownTimeout' = t
    /\ setting' = [setting EXCEPT !.own = t]
    /\ UNCHANGED <<serial, hsTimeout, inputVars, callVars, reply>>
-----------------------------------------------------------------------------
(* The calls that return at once, of a unit or of the adapter.             *)

Callers == Units \cup {"adapter"}

(***************************************************************************)
(* The adapter forwards to the unit it refers to, a unit to its backend.   *)
(***************************************************************************)
Backend(c) == IF c = "adapter" THEN serial[Wrapped] ELSE serial[c]

(***************************************************************************)
(* available() answers -1 like read(): a mutant of NullCount.              *)
(***************************************************************************)
NullCountNegative == -1

NullCount == 0

Available(c) ==
    /\ Idle
    /\ reply' = Answer("available", 0,
                       IF Backend(c) = "hs" THEN Len(rx) ELSE NullCount, << >>)
    /\ UNCHANGED <<serial, timeoutVars, inputVars, callVars>>

(***************************************************************************)
(* A write through the fallback answers 0, through HardwareSerial what it  *)
(* was given.  DirectedWrites has what becomes of it.                      *)
(***************************************************************************)
Write(c) ==
    /\ Idle
    /\ reply' = Answer("write", 0, IF Backend(c) = "hs" THEN 1 ELSE 0, << >>)
    /\ UNCHANGED <<serial, timeoutVars, inputVars, callVars>>

(***************************************************************************)
(* flush() and flush(true) wait for the transmitter and leave the input.   *)
(***************************************************************************)
FlushTx(c) ==
    /\ Idle
    /\ reply' = Answer("flush_tx", 0, 0, << >>)
    /\ UNCHANGED <<serial, timeoutVars, inputVars, callVars>>

First(n) == SubSeq(rx, 1, n)

Peek(c) ==
    /\ Idle
    /\ Backend(c) = "hs"
    /\ reply' = Answer("peek", 1, 0, IF rx = << >> THEN << >> ELSE First(1))
    /\ UNCHANGED <<serial, timeoutVars, inputVars, callVars>>

(***************************************************************************)
(* read() and read(buf, n), which do not wait.                             *)
(***************************************************************************)
Read(c, n) ==
    /\ Idle
    /\ Backend(c) = "hs"
    /\ c = "adapter" => n = 1
    /\ LET k == IF n < Len(rx) THEN n ELSE Len(rx)
       IN  /\ reply' = Answer("read", n, 0, First(k))
           /\ rx' = SubSeq(rx, k + 1, Len(rx))
    /\ UNCHANGED <<serial, timeoutVars, arrived, callVars>>

(***************************************************************************)
(* Whatever is read through the fallback is nothing, without a wait.       *)
(***************************************************************************)
ReadNull(u) ==
    /\ Idle
    /\ serial[u] = "null"
    /\ reply' = Answer("nothing", 0, 0, << >>)
    /\ UNCHANGED <<serial, timeoutVars, inputVars, callVars>>
-----------------------------------------------------------------------------
(* The reads that wait.                                                    *)

StartCall(kind, n, asked, wait) ==
    /\ Idle
    /\ call' = [kind |-> kind, want |-> n, previous |-> hsTimeout, asked |-> asked]
    /\ left' = wait
    /\ waited' = 0
    /\ UNCHANGED <<serial, ownTimeout, setting, inputVars, buf, reply>>

ReadBytes(u, n) ==
    /\ serial[u] = "hs"
    /\ StartCall("readBytes", n, setting.hs, hsTimeout)
    /\ UNCHANGED hsTimeout

(***************************************************************************)
(* A timeout of 0 taken for one that never ends: a mutant of ReadBytesFor. *)
(***************************************************************************)
ReadBytesForEver(u, n, t) ==
    /\ serial[u] = "hs"
    /\ StartCall("readBytesFor", n, t, IF t = 0 THEN -1 ELSE t)
    /\ hsTimeout' = t

(***************************************************************************)
(* HSSerial::readBytes(b, n, timeout_ms): the timeout of the               *)
(* HardwareSerial is kept aside and replaced for the call.                 *)
(***************************************************************************)
ReadBytesFor(u, n, t) ==
    /\ serial[u] = "hs"
    /\ StartCall("readBytesFor", n, t, t)
    /\ hsTimeout' = t

(***************************************************************************)
(* Stream::readBytes() of the adapter: read() again and again, each byte   *)
(* with the adapter's own timeout.  Through the fallback none comes.       *)
(***************************************************************************)
StreamReadBytes(n) ==
    /\ StartCall("stream", n, setting.own, ownTimeout)
    /\ UNCHANGED hsTimeout

(***************************************************************************)
(* Stream::readStringUntil('\n'), which has no length, in the same way.    *)
(***************************************************************************)
StreamReadLine ==
    /\ StartCall("line", 0, setting.own, ownTimeout)
    /\ UNCHANGED hsTimeout

(***************************************************************************)
(* The adapter holds on to the backend it was built over: a mutant of      *)
(* Severed.                                                                *)
(***************************************************************************)
SeveredNever == FALSE

(***************************************************************************)
(* What the call in progress can see of the input: nothing through an      *)
(* adapter whose unit has fallen back.                                     *)
(***************************************************************************)
Severed == call.kind \in StreamKinds /\ Backend("adapter") = "null"
Reachable == IF Severed THEN << >> ELSE rx

Complete ==
    IF call.kind = "line"
    THEN buf # << >> /\ buf[Len(buf)] \in Newlines
    ELSE Len(buf) = call.want

Collect ==
    /\ ~Idle
    /\ ~Complete
    /\ Reachable # << >>
    /\ buf' = Append(buf, Head(rx))
    /\ rx' = Tail(rx)
    /\ IF call.kind \in StreamKinds
       THEN left' = ownTimeout /\ waited' = 0
       ELSE UNCHANGED <<left, waited>>
    /\ UNCHANGED <<serial, timeoutVars, arrived, call, reply>>

Tick ==
    /\ ~Idle
    /\ left > 0
    /\ left' = left - 1
    /\ waited' = waited + 1
    /\ UNCHANGED <<serial, timeoutVars, inputVars, call, buf, reply>>

(***************************************************************************)
(* setTimeout(previous) left out: a mutant of Restore.                     *)
(***************************************************************************)
RestoreForgotten == UNCHANGED hsTimeout

Restore ==
    hsTimeout' = IF call.kind = "readBytesFor" THEN call.previous ELSE hsTimeout

(***************************************************************************)
(* A line asks for one byte more until it is complete.  The bytes of the   *)
(* answer include the '\n', which the String does not.                     *)
(***************************************************************************)
AskedFor ==
    IF call.kind # "line" THEN call.want
    ELSE IF Complete THEN Len(buf) ELSE Len(buf) + 1

Return ==
    /\ ~Idle
    /\ \/ Complete
       \/ left = 0 /\ Reachable = << >>
    /\ Restore
    /\ call' = NoCall
    /\ buf' = << >>
    /\ left' = 0
    /\ waited' = 0
    /\ reply' = IF Severed THEN Answer("nothing", 0, 0, << >>)
                ELSE Answer("read", AskedFor, 0, buf)
    /\ UNCHANGED <<serial, ownTimeout, setting, inputVars>>

Arrive ==
    /\ arrived < MaxRx
    /\ arrived' = arrived + 1
    /\ rx' = Append(rx, arrived + 1)
    /\ UNCHANGED <<serial, timeoutVars, callVars, reply>>

Next ==
    \/ \E u \in Units :
          \/ \E flushRX \in BOOLEAN : Begin(u, flushRX)
          \/ FlushAll(u)
          \/ \E d \in Units : Move(u, d)
          \/ ReadNull(u)
          \/ \E n \in ReadSizes : ReadBytes(u, n)
          \/ \E n \in ReadSizes, t \in Timeouts : ReadBytesFor(u, n, t)
    \/ \E t \in Timeouts : SetTimeout(t) \/ SetStreamTimeout(t)
    \/ \E c \in Callers :
          \/ Available(c) \/ Write(c) \/ FlushTx(c) \/ Peek(c)
          \/ \E n \in ReadSizes : Read(c, n)
    \/ \E n \in ReadSizes : StreamReadBytes(n)
    \/ StreamReadLine
    \/ Collect
    \/ Tick
    \/ Return
    \/ Arrive

Spec == Init /\ [][Next]_vars
-----------------------------------------------------------------------------
Events == {"none", "begin", "flush", "move", "available", "write", "flush_tx",
           "peek", "read", "nothing"}

Replies == [op : Events, want : Nat, val : Nat, bytes : Seq(1 .. MaxRx)]

Calls == [kind : Kinds, want : ReadSizes \cup {0}, previous : Timeouts, asked : Timeouts]

TypeOK ==
    /\ serial \in [Units -> {"null", "hs"}]
    /\ hsTimeout \in Timeouts
    /\ ownTimeout \in Timeouts
    /\ setting \in [hs : Timeouts, own : Timeouts]
    /\ arrived \in 0 .. MaxRx
    /\ rx \in Seq(1 .. MaxRx)
    /\ call \in Calls \cup {NoCall}
    /\ buf \in Seq(1 .. MaxRx)
    /\ left \in Nat
    /\ waited \in Nat
    /\ reply \in Replies

(***************************************************************************)
(* A read that comes up short, or a line without its end, has waited       *)
(* exactly as long as its caller is entitled to: the explicit timeout, or  *)
(* the last setTimeout() on the object it was called on.  Neither an       *)
(* explicit timeout before it nor the timeout of the other object shows    *)
(* through.                                                                *)
(***************************************************************************)
WaitsAsAsked ==
    [][~Idle /\ call' = NoCall /\ ~Complete => waited = call.asked]_vars

Got ==
    CASE reply.op \in {"read", "peek"} ->
             [op |-> reply.op, want |-> reply.want, bytes |-> reply.bytes]
      [] reply.op \in {"begin", "flush"} -> [op |-> "discard", want |-> 0, bytes |-> << >>]
      [] OTHER -> [op |-> "quiet", want |-> 0, bytes |-> << >>]

(***************************************************************************)
(* What is not handed out yet.  A call holds what it has taken so far; one *)
(* through an adapter whose unit has fallen back holds nothing, so that a  *)
(* byte it took would be missing here.                                     *)
(***************************************************************************)
Unread ==
    IF call.kind \in StreamKinds /\ serial[Wrapped] = "null" THEN rx ELSE buf \o rx

Stream == INSTANCE ByteStream WITH
    input <- Unread, got <- Got, ReadSizes <- ReadSizes \cup 0 .. MaxRx + 1

(***************************************************************************)
(* The units and the adapter together read one input as ByteStream says,   *)
(* whichever of them is called and however the backend moves: every byte   *)
(* is handed out once and in order, and none goes to an adapter whose unit *)
(* has fallen back, while the other unit goes on reading the same port.    *)
(***************************************************************************)
StreamContract == Stream!Spec
=============================================================================
